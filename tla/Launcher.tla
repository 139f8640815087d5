------------------------------ MODULE Launcher ------------------------------
(***************************************************************************)
(* The native launcher of DawnShell, app/src/main/cpp/bfu_namespace_probe.c*)
(* One command of the launcher (start, stop, force-stop, status, restart)  *)
(* is one process, here a member of Clis.  `start` forks a supervisor that *)
(* inherits the flock on CONTROL_DIR, forks a network manager (the helper) *)
(* and then Debian's init, and publishes what it knows in the state file.  *)
(*                                                                         *)
(* The supervisor, the helper and the init of the n-th successful fork of  *)
(* run_start are instance n.  A recorded PID together with its start ticks *)
(* and its executable inode names one process for ever, so the record is   *)
(* abstracted to the number of the instance it describes; PID reuse is what*)
(* the ticks and the inode exclude.                                        *)
(***************************************************************************)
EXTENDS Naturals

CONSTANTS
    Clis,              \* processes that run a launcher command
    MaxInst,           \* bound on the supervisors ever forked
    MaxCmds,           \* bound on the commands ever issued
    MaxKills,          \* bound on supervisors killed by Android (lmkd, OOM)
    Ops,               \* the commands the environment issues
    AllowFallback,     \* "fallback" rather than "strict" on the command line
    KillInForkWindow,  \* may Android kill a supervisor whose init child has
                       \* been forked but has not joined the cgroup yet?
    WritesMayFail      \* may write_state fail (full or read-only storage)?

AllOps == {"start", "stop", "force-stop", "status", "restart"}

ASSUME LauncherAssumption ==
    /\ MaxInst \in Nat /\ MaxCmds \in Nat /\ MaxKills \in Nat
    /\ Ops \subseteq AllOps
    /\ AllowFallback \in BOOLEAN
    /\ KillInForkWindow \in BOOLEAN
    /\ WritesMayFail \in BOOLEAN

Inst == 1..MaxInst
None == 0

VARIABLES
    lock,           \* the open file description that holds the flock
    record,         \* the state file: label, instance named, identity captured
    sup,            \* control point of each supervisor
    mode,           \* launch_mode each supervisor settled on
    init,           \* Debian's init (systemd, or sshd in compat mode)
    nm,             \* the network manager forked by each supervisor
    nmStop,         \* stop_requested of each network manager
    stopRequested,  \* stop_requested of each supervisor
    shutdownSent,   \* the local of supervisor_loop
    pipe,           \* the ready pipe between supervisor and run_start
    fifo,           \* instance whose reboot fifo is at the shared path
    cli,            \* each command process
    cmds, kills     \* counters behind MaxCmds and MaxKills

supVars == <<sup, mode, stopRequested, shutdownSent>>
nmVars  == <<nm, nmStop, fifo>>
vars == <<lock, record, supVars, init, nmVars, pipe, cli, cmds, kills>>

-----------------------------------------------------------------------------
(* Values                                                                  *)

Free == <<"free", None>>
HeldBySup(i) == <<"sup", i>>
HeldByCli(c) == <<"cli", c>>

SupDead == {"exited", "failed", "killed", "terminated"}
SupLive == {"new", "armed", "published", "helper", "launch", "forked",
            "execwait", "grace", "report", "failing", "loop", "teardown"}
InitLive == {"forked", "cgroup", "execed"}
NmDown == {"failed", "gone"}
Labels == {"none", "starting", "running", "stopping", "stopped", "failed",
           "force-stopped"}

CliPcs == {"idle", "s_lock", "s_busy", "s_check", "s_fork", "s_wait",
           "t_lock", "t_orphan", "t_signal", "t_wait", "t_owait",
           "f_read", "f_lock", "f_orphan", "f_kill", "f_group", "f_wait",
           "f_term", "f_write", "q_lock", "q_read", "q_busy"}
Results == {"none", "killed", "started", "already_running", "err87", "err89",
            "err91", "err92", "stopped", "already_stopped", "orphan_stopped",
            "err95", "err96", "err99", "force_stopped", "err129", "err133",
            "err134", "q_stopped", "q_orphaned", "q_running", "q_unknown"}

SupAlive(i) == i \in Inst /\ sup[i] \in SupLive
InitAlive(i) == i \in Inst /\ init[i] \in InitLive

(* Found by collect_delegated_processes: the child moves itself into the   *)
(* delegated cgroup before anything else; compat sshd never joins it.      *)
Delegated(i) == mode[i] = "systemd" /\ init[i] \in {"cgroup", "execed"}

(* In the supervisor's process group: until systemd calls setsid, never in *)
(* compat mode, where fork is followed by setpgid.                         *)
InGroup(i) == i \in Inst /\ mode[i] = "systemd"
                         /\ init[i] \in {"forked", "cgroup"}

(* validate_supervisor_identity and validate_init_identity (respectively   *)
(* validate_compat_service_identity) on the record just read.              *)
SupervisorValid == SupAlive(record.inst)
InitValid == record.captured /\ InitAlive(record.inst)

Rec(i, label, cap) == [label |-> label, inst |-> i, captured |-> cap]

(* write_state renames a complete temporary file, or fails and leaves the  *)
(* old record.                                                             *)
WriteState(rec) ==
    \/ record' = rec
    \/ WritesMayFail /\ UNCHANGED record

-----------------------------------------------------------------------------
Init ==
    /\ lock = Free
    /\ record = [label |-> "none", inst |-> None, captured |-> FALSE]
    /\ sup = [i \in Inst |-> "none"]
    /\ mode = [i \in Inst |-> "systemd"]
    /\ init = [i \in Inst |-> "none"]
    /\ nm = [i \in Inst |-> "none"]
    /\ nmStop = [i \in Inst |-> FALSE]
    /\ stopRequested = [i \in Inst |-> FALSE]
    /\ shutdownSent = [i \in Inst |-> FALSE]
    /\ pipe = [i \in Inst |-> "none"]
    /\ fifo = None
    /\ cli = [c \in Clis |-> [pc |-> "idle", op |-> "none", tgt |-> None,
                              supOk |-> FALSE, initOk |-> FALSE,
                              res |-> "none"]]
    /\ cmds = 0 /\ kills = 0

-----------------------------------------------------------------------------
(* The supervisor: supervisor_loop and supervisor_compat_loop              *)

Goto(i, pc) == sup' = [sup EXCEPT ![i] = pc]

(* close(lock_fd), or the kernel closing it at exit.                       *)
ReleaseLock == lock' = Free

(* What the reader of the ready pipe finds after the supervisor is gone or *)
(* has written msg; a reader that left (timeout, killed) stays gone.       *)
PipeAfter(i, msg) ==
    [j \in Inst |-> IF j = i /\ pipe[j] = "open" THEN msg ELSE pipe[j]]

(* Mutant of InstallHandlers: published before the handlers are there.     *)
InstallHandlersTooLate(i) ==
    /\ sup[i] = "new"
    /\ IF record.inst = i THEN Goto(i, "armed") /\ UNCHANGED record
                          ELSE record' = Rec(i, "starting", FALSE)
                               /\ UNCHANGED sup
    /\ UNCHANGED <<lock, mode, stopRequested, shutdownSent, init, nmVars,
                   pipe, cli, cmds, kills>>

(* setsid, stdio to the lifecycle log, SIGTERM and SIGINT handlers.        *)
InstallHandlers(i) ==
    /\ sup[i] = "new"
    /\ Goto(i, "armed")
    /\ UNCHANGED <<lock, record, mode, stopRequested, shutdownSent, init,
                   nmVars, pipe, cli, cmds, kills>>

(* The first write_state names the supervisor and nothing else.            *)
PublishStarting(i) ==
    /\ sup[i] = "armed"
    /\ record' = Rec(i, "starting", FALSE)
    /\ Goto(i, "published")
    /\ UNCHANGED <<lock, mode, stopRequested, shutdownSent, init, nmVars,
                   pipe, cli, cmds, kills>>

(* prepare_host_reboot_fifo replaces whatever is at the path; the helper   *)
(* is a fork, so it inherits the supervisor's stop_requested.              *)
StartNetworkManager(i) ==
    /\ sup[i] = "published"
    /\ fifo' = i
    /\ nm' = [nm EXCEPT ![i] = "booting"]
    /\ nmStop' = [nmStop EXCEPT ![i] = stopRequested[i]]
    /\ Goto(i, "helper")
    /\ UNCHANGED <<lock, record, mode, stopRequested, shutdownSent, init,
                   pipe, cli, cmds, kills>>

(* set_systemd_parent_namespaces: waits for the helper's '1', then private *)
(* PID namespace and delegated cgroup, or the fallback when it is allowed. *)
EnterNamespaces(i) ==
    /\ sup[i] = "helper"
    /\ nm[i] \in {"ready", "gone"}
    /\ \E m \in IF AllowFallback THEN {"systemd", "compat"} ELSE {"systemd"} :
          mode' = [mode EXCEPT ![i] = m]
    /\ WriteState(Rec(i, "starting", FALSE))
    /\ Goto(i, "launch")
    /\ UNCHANGED <<lock, stopRequested, shutdownSent, init, nmVars, pipe,
                   cli, cmds, kills>>

(* An error return before init is forked.  The helper, if there is one, is *)
(* neither signalled nor reaped here: PR_SET_PDEATHSIG is all that ends it,*)
(* except that compat mode signals it when its exec pipe cannot be made.   *)
EarlyFailure(i) ==
    /\ sup[i] \in {"new", "armed", "published", "helper", "launch"}
    /\ Goto(i, "failing")
    /\ fifo' \in IF sup[i] = "published" THEN {fifo, None} ELSE {fifo}
    /\ nmStop' \in IF sup[i] = "launch" /\ mode[i] = "compat"
                   THEN {nmStop, [nmStop EXCEPT ![i] = TRUE]} ELSE {nmStop}
    /\ UNCHANGED <<lock, record, mode, stopRequested, shutdownSent, init, nm,
                   pipe, cli, cmds, kills>>

ForkInit(i) ==
    /\ sup[i] = "launch"
    /\ init' = [init EXCEPT ![i] = "forked"]
    /\ Goto(i, "forked")
    /\ UNCHANGED <<lock, record, mode, stopRequested, shutdownSent, nmVars,
                   pipe, cli, cmds, kills>>

(* PID and start ticks of init are recorded, its executable is not: the    *)
(* identity is not one that validate_init_identity accepts yet.            *)
RecordInitPid(i) ==
    /\ sup[i] = "forked"
    /\ WriteState(Rec(i, "starting", FALSE))
    /\ Goto(i, "execwait")
    /\ UNCHANGED <<lock, mode, stopRequested, shutdownSent, init, nmVars,
                   pipe, cli, cmds, kills>>

(* wait_for_exec_result saw the pipe close on exec.                        *)
ExecSucceeded(i) ==
    /\ sup[i] = "execwait"
    /\ init[i] = "execed"
    /\ Goto(i, "grace")
    /\ UNCHANGED <<lock, record, mode, stopRequested, shutdownSent, init,
                   nmVars, pipe, cli, cmds, kills>>

(* Mutant of StartFailure: the timed-out init is not killed.               *)
StartFailureNoKill(i) ==
    /\ sup[i] \in {"execwait", "grace"}
    /\ WriteState(Rec(i, "failed", FALSE))
    /\ nmStop' = [nmStop EXCEPT ![i] = @ \/ mode[i] = "compat"]
    /\ Goto(i, "failing")
    /\ UNCHANGED <<lock, mode, stopRequested, shutdownSent, init, nm, fifo,
                   pipe, cli, cmds, kills>>

(* Exits 80, 81 and 82: exec failed or timed out, init did not survive the *)
(* grace period, or its identity or topology is wrong.  Init is killed and *)
(* reaped; only compat mode goes on to stop the helper.                    *)
StartFailure(i) ==
    /\ sup[i] \in {"execwait", "grace"}
    /\ init' = [init EXCEPT ![i] = "dead"]
    /\ WriteState(Rec(i, "failed", FALSE))
    /\ nmStop' = [nmStop EXCEPT ![i] = @ \/ mode[i] = "compat"]
    /\ Goto(i, "failing")
    /\ UNCHANGED <<lock, mode, stopRequested, shutdownSent, nm, fifo, pipe,
                   cli, cmds, kills>>

(* The failing supervisor reports and exits; a write to a pipe without a   *)
(* reader may raise SIGPIPE, whose disposition is inherited.  Compat mode  *)
(* reaps the helper first, unless it failed before it forked sshd.         *)
FinishFailing(i) ==
    /\ sup[i] = "failing"
    /\ (mode[i] = "compat" /\ init[i] # "none") => nm[i] \in NmDown
    /\ \/ Goto(i, "failed")
       \/ pipe[i] = "broken" /\ Goto(i, "killed")
    /\ pipe' = PipeAfter(i, "failed")
    /\ ReleaseLock
    /\ UNCHANGED <<record, mode, stopRequested, shutdownSent, init, nmVars,
                   cli, cmds, kills>>

(* Mutant of RecordRunning: the captured identity is not written back.     *)
RecordRunningUncaptured(i) ==
    /\ sup[i] = "grace"
    /\ init[i] = "execed"
    /\ WriteState(Rec(i, "running", FALSE))
    /\ Goto(i, "report")
    /\ UNCHANGED <<lock, mode, stopRequested, shutdownSent, init, nmVars,
                   pipe, cli, cmds, kills>>

(* Init survived the grace period: its executable and namespaces are       *)
(* captured, and the record says running.                                  *)
RecordRunning(i) ==
    /\ sup[i] = "grace"
    /\ init[i] = "execed"
    /\ WriteState(Rec(i, "running", TRUE))
    /\ Goto(i, "report")
    /\ UNCHANGED <<lock, mode, stopRequested, shutdownSent, init, nmVars,
                   pipe, cli, cmds, kills>>

ReportStarted(i) ==
    /\ sup[i] = "report"
    /\ pipe' = PipeAfter(i, "started")
    /\ \/ Goto(i, "loop") /\ UNCHANGED lock
       \/ pipe[i] = "broken" /\ Goto(i, "killed") /\ ReleaseLock
    /\ UNCHANGED <<record, mode, stopRequested, shutdownSent, init, nmVars,
                   cli, cmds, kills>>

(* systemctl exit (else SIGRTMIN+3), or SIGTERM to sshd: a request that    *)
(* init may or may not honour (InitExit).                                  *)
SendShutdown(i) ==
    /\ sup[i] = "loop"
    /\ InitAlive(i)
    /\ stopRequested[i] /\ ~shutdownSent[i]
    /\ shutdownSent' = [shutdownSent EXCEPT ![i] = TRUE]
    /\ WriteState(Rec(i, "stopping", TRUE))
    /\ UNCHANGED <<lock, sup, mode, stopRequested, init, nmVars, pipe, cli,
                   cmds, kills>>

(* Mutant of KillInit: no deadline on the shutdown.                        *)
KillInitNever(i) ==
    /\ sup[i] = "loop"
    /\ FALSE
    /\ UNCHANGED vars

(* The shutdown deadline passed.                                           *)
KillInit(i) ==
    /\ sup[i] = "loop"
    /\ InitAlive(i)
    /\ shutdownSent[i]
    /\ init' = [init EXCEPT ![i] = "dead"]
    /\ UNCHANGED <<lock, record, supVars, nmVars, pipe, cli, cmds, kills>>

(* waitpid reaped init: the loop ends and the helper is told to stop.      *)
ReapInit(i) ==
    /\ sup[i] = "loop"
    /\ ~InitAlive(i)
    /\ nmStop' = [nmStop EXCEPT ![i] = TRUE]
    /\ Goto(i, "teardown")
    /\ UNCHANGED <<lock, record, mode, stopRequested, shutdownSent, init, nm,
                   fifo, pipe, cli, cmds, kills>>

(* Mutant of FinishTeardown: the helper is signalled but not reaped.       *)
FinishTeardownNoWait(i) ==
    /\ sup[i] = "teardown"
    /\ WriteState(Rec(i, "stopped", TRUE))
    /\ Goto(i, "exited")
    /\ ReleaseLock
    /\ UNCHANGED <<mode, stopRequested, shutdownSent, init, nmVars, pipe, cli,
                   cmds, kills>>

(* The helper is reaped before the record is updated and the lock closed.  *)
FinishTeardown(i) ==
    /\ sup[i] = "teardown"
    /\ nm[i] \in NmDown
    /\ WriteState(Rec(i, "stopped", TRUE))
    /\ Goto(i, "exited")
    /\ ReleaseLock
    /\ UNCHANGED <<mode, stopRequested, shutdownSent, init, nmVars, pipe, cli,
                   cmds, kills>>

SupervisorStep(i) ==
    \/ InstallHandlers(i) \/ PublishStarting(i) \/ StartNetworkManager(i)
    \/ EnterNamespaces(i) \/ EarlyFailure(i) \/ ForkInit(i)
    \/ RecordInitPid(i) \/ ExecSucceeded(i) \/ StartFailure(i)
    \/ FinishFailing(i) \/ RecordRunning(i) \/ ReportStarted(i)
    \/ SendShutdown(i) \/ KillInit(i) \/ ReapInit(i) \/ FinishTeardown(i)

-----------------------------------------------------------------------------
(* The network manager: network_manager_loop                               *)

(* A helper whose supervisor is gone by the getppid check exits at once.   *)
NetworkManagerBoot(i) ==
    /\ nm[i] = "booting"
    /\ nm' = [nm EXCEPT ![i] = IF SupAlive(i) /\ fifo # None
                               THEN "ready" ELSE "failed"]
    /\ UNCHANGED <<lock, record, supVars, init, nmStop, fifo, pipe, cli,
                   cmds, kills>>

(* Mutant of NetworkManagerExit: no PR_SET_PDEATHSIG, no liveness probe.   *)
NetworkManagerExitOnTermOnly(i) ==
    /\ nm[i] = "ready"
    /\ nmStop[i]
    /\ nm' = [nm EXCEPT ![i] = "gone"]
    /\ fifo' = None
    /\ UNCHANGED <<lock, record, supVars, init, nmStop, pipe, cli, cmds,
                   kills>>

(* SIGTERM (from the supervisor, or PR_SET_PDEATHSIG) ends the loop; the   *)
(* path is unlinked whoever made the fifo that is there by now.            *)
NetworkManagerExit(i) ==
    /\ nm[i] = "ready"
    /\ nmStop[i] \/ ~SupAlive(i)
    /\ nm' = [nm EXCEPT ![i] = "gone"]
    /\ fifo' = None
    /\ UNCHANGED <<lock, record, supVars, init, nmStop, pipe, cli, cmds,
                   kills>>

NetworkManagerStep(i) == NetworkManagerBoot(i) \/ NetworkManagerExit(i)

-----------------------------------------------------------------------------
(* Debian's init: enter_debian_systemd, enter_debian_compat                *)

JoinCgroup(i) ==
    /\ mode[i] = "systemd"
    /\ init[i] = "forked"
    /\ init' = [init EXCEPT ![i] = "cgroup"]
    /\ UNCHANGED <<lock, record, supVars, nmVars, pipe, cli, cmds, kills>>

(* prepare_child_mounts binds the fifo only in systemd mode, and fails if  *)
(* there is none.                                                          *)
ExecInit(i) ==
    /\ IF mode[i] = "systemd" THEN init[i] = "cgroup" /\ fifo # None
                              ELSE init[i] = "forked"
    /\ init' = [init EXCEPT ![i] = "execed"]
    /\ UNCHANGED <<lock, record, supVars, nmVars, pipe, cli, cmds, kills>>

(* A failed setup step, or any later exit: poweroff in Debian, a crash, an *)
(* honoured shutdown request.                                              *)
InitExit(i) ==
    /\ InitAlive(i)
    /\ init' = [init EXCEPT ![i] = "dead"]
    /\ UNCHANGED <<lock, record, supVars, nmVars, pipe, cli, cmds, kills>>

InitStep(i) == JoinCgroup(i) \/ ExecInit(i) \/ InitExit(i)

(* Android kills the supervisor alone.                                     *)
AndroidKillsSupervisor(i) ==
    /\ SupAlive(i)
    /\ kills < MaxKills
    /\ KillInForkWindow \/ init[i] # "forked"
    /\ kills' = kills + 1
    /\ Goto(i, "killed")
    /\ pipe' = PipeAfter(i, "eof")
    /\ ReleaseLock
    /\ UNCHANGED <<record, mode, stopRequested, shutdownSent, init, nmVars,
                   cli, cmds>>

-----------------------------------------------------------------------------
(* The commands                                                            *)

CliGoto(c, pc) == cli' = [cli EXCEPT ![c].pc = pc]

(* SIGKILL to the init of instance t.                                      *)
SignalKill(t) == init' = [i \in Inst |-> IF i = t THEN "dead" ELSE init[i]]

(* The command exits; of its locals only those that describe what its      *)
(* result is about are kept.                                               *)
Return(c, res) ==
    cli' = [cli EXCEPT ![c].pc = "idle", ![c].op = "none",
                       ![c].initOk = FALSE, ![c].res = res]

(* Mutant of FirstPc: main does not know "restart".                        *)
FirstPcNoRestart(op) ==
    CASE op = "start" -> "s_lock"
      [] op = "force-stop" -> "f_read"
      [] op = "status" -> "q_lock"
      [] op = "stop" -> "t_lock"
      [] OTHER -> "usage"

FirstPc(op) ==
    CASE op = "start" -> "s_lock"
      [] op = "force-stop" -> "f_read"
      [] op = "status" -> "q_lock"
      [] OTHER -> "t_lock"

BeginCommand(c) ==
    /\ cli[c].pc = "idle"
    /\ cmds < MaxCmds
    /\ cmds' = cmds + 1
    /\ \E op \in Ops :
          cli' = [cli EXCEPT ![c] = [pc |-> FirstPc(op), op |-> op,
                                     tgt |-> None, supOk |-> FALSE,
                                     initOk |-> FALSE, res |-> "none"]]
    /\ UNCHANGED <<lock, record, supVars, init, nmVars, pipe, kills>>

(* flock(LOCK_EX | LOCK_NB): taken, or EWOULDBLOCK.                        *)
TryLock(c, at, taken, busy) ==
    /\ cli[c].pc = at
    /\ IF lock = Free
       THEN lock' = HeldByCli(c) /\ CliGoto(c, taken)
       ELSE UNCHANGED lock /\ CliGoto(c, busy)
    /\ UNCHANGED <<record, supVars, init, nmVars, pipe, cmds, kills>>

(* run_start, lock busy: success if the record names a live supervisor.    *)
StartBusy(c) ==
    /\ cli[c].pc = "s_busy"
    /\ Return(c, IF SupervisorValid THEN "already_running" ELSE "err87")
    /\ UNCHANGED <<lock, record, supVars, init, nmVars, pipe, cmds, kills>>

(* Mutant of StartCheck: trusts the record, does not scan the cgroup.      *)
StartCheckRecordOnly(c) ==
    /\ cli[c].pc = "s_check"
    /\ IF InitValid
       THEN Return(c, "err89") /\ ReleaseLock
       ELSE CliGoto(c, "s_fork") /\ UNCHANGED lock
    /\ UNCHANGED <<record, supVars, init, nmVars, pipe, cmds, kills>>

(* Mutant of StartCheck: scans the cgroup, ignores the record.             *)
StartCheckCgroupOnly(c) ==
    /\ cli[c].pc = "s_check"
    /\ IF \E i \in Inst : Delegated(i)
       THEN Return(c, "err89") /\ ReleaseLock
       ELSE CliGoto(c, "s_fork") /\ UNCHANGED lock
    /\ UNCHANGED <<record, supVars, init, nmVars, pipe, cmds, kills>>

(* run_start under the lock: a verified init without supervisor, or any    *)
(* process in the delegated cgroup, refuses the start.                     *)
StartCheck(c) ==
    /\ cli[c].pc = "s_check"
    /\ IF InitValid \/ \E i \in Inst : Delegated(i)
       THEN Return(c, "err89") /\ ReleaseLock
       ELSE CliGoto(c, "s_fork") /\ UNCHANGED lock
    /\ UNCHANGED <<record, supVars, init, nmVars, pipe, cmds, kills>>

(* fork: the supervisor keeps the lock, run_start closes its descriptor.   *)
ForkSupervisor(c) ==
    /\ cli[c].pc = "s_fork"
    /\ \E i \in Inst :
          /\ sup[i] = "none"
          /\ \A j \in 1..(i - 1) : sup[j] # "none"
          /\ Goto(i, "new")
          /\ lock' = HeldBySup(i)
          /\ pipe' = [pipe EXCEPT ![i] = "open"]
          /\ cli' = [cli EXCEPT ![c].pc = "s_wait", ![c].tgt = i]
    /\ UNCHANGED <<record, mode, stopRequested, shutdownSent, init, nmVars,
                   cmds, kills>>

(* pipe or fork failed.                                                    *)
ForkFails(c) ==
    /\ cli[c].pc = "s_fork"
    /\ Return(c, "err89")
    /\ ReleaseLock
    /\ UNCHANGED <<record, supVars, init, nmVars, pipe, cmds, kills>>

(* read_ready_message: a line, end of file, or kStartTimeoutMs.            *)
StartReady(c) ==
    /\ cli[c].pc = "s_wait"
    /\ pipe[cli[c].tgt] \in {"started", "failed", "eof"}
    /\ Return(c, CASE pipe[cli[c].tgt] = "started" -> "started"
                   [] pipe[cli[c].tgt] = "failed" -> "err92"
                   [] OTHER -> "err91")
    /\ UNCHANGED <<lock, record, supVars, init, nmVars, pipe, cmds, kills>>

StartTimeout(c) ==
    /\ cli[c].pc = "s_wait"
    /\ pipe[cli[c].tgt] = "open"
    /\ pipe' = PipeAfter(cli[c].tgt, "broken")
    /\ Return(c, "err91")
    /\ UNCHANGED <<lock, record, supVars, init, nmVars, cmds, kills>>

StartStep(c) ==
    \/ TryLock(c, "s_lock", "s_check", "s_busy")
    \/ StartBusy(c) \/ StartCheck(c) \/ ForkSupervisor(c) \/ ForkFails(c)
    \/ StartReady(c) \/ StartTimeout(c)

(* run_restart goes on to run_start when run_stop returned 0.              *)
StopDone(c, res) ==
    IF cli[c].op = "restart" THEN CliGoto(c, "s_lock") ELSE Return(c, res)

(* run_stop, lock free: the lock is only held to read the record.          *)
StopOrphan(c) ==
    /\ cli[c].pc = "t_orphan"
    /\ ReleaseLock
    /\ IF InitValid
       THEN cli' = [cli EXCEPT ![c].pc = "t_owait", ![c].tgt = record.inst]
       ELSE StopDone(c, "already_stopped")
    /\ UNCHANGED <<record, supVars, init, nmVars, pipe, cmds, kills>>

(* The orphan was signalled; it may or may not exit within 20 s.           *)
StopOrphanGone(c) ==
    /\ cli[c].pc = "t_owait"
    /\ ~InitAlive(cli[c].tgt)
    /\ StopDone(c, "orphan_stopped")
    /\ UNCHANGED <<lock, record, supVars, init, nmVars, pipe, cmds, kills>>

StopOrphanTimeout(c) ==
    /\ cli[c].pc = "t_owait"
    /\ SignalKill(cli[c].tgt)
    /\ Return(c, "err95")
    /\ UNCHANGED <<lock, record, supVars, nmVars, pipe, cmds, kills>>

(* SIGTERM to supervisor t.  Without a handler it would end there.         *)
SignalTerm(t) ==
    IF sup[t] = "new"
    THEN /\ Goto(t, "terminated")
         /\ pipe' = PipeAfter(t, "eof")
         /\ ReleaseLock
         /\ UNCHANGED stopRequested
    ELSE /\ stopRequested' = [stopRequested EXCEPT ![t] = TRUE]
         /\ UNCHANGED <<sup, pipe, lock>>

(* run_stop, lock busy: the recorded supervisor is verified and signalled. *)
StopSignal(c) ==
    /\ cli[c].pc = "t_signal"
    /\ SupervisorValid
    /\ SignalTerm(record.inst)
    /\ cli' = [cli EXCEPT ![c].pc = "t_wait", ![c].tgt = record.inst]
    /\ UNCHANGED <<record, mode, shutdownSent, init, nmVars, cmds, kills>>

StopRefused(c) ==
    /\ cli[c].pc = "t_signal"
    /\ ~SupervisorValid
    /\ Return(c, "err96")
    /\ UNCHANGED <<lock, record, supVars, init, nmVars, pipe, cmds, kills>>

(* Mutant of StopReleased: success as soon as the signal is sent.          *)
StopReleasedAtOnce(c) ==
    /\ cli[c].pc = "t_wait"
    /\ StopDone(c, "stopped")
    /\ UNCHANGED <<lock, record, supVars, init, nmVars, pipe, cmds, kills>>

(* The lock came free (taken and dropped at once), or kStopTimeoutMs.      *)
StopReleased(c) ==
    /\ cli[c].pc = "t_wait"
    /\ lock = Free
    /\ StopDone(c, "stopped")
    /\ UNCHANGED <<lock, record, supVars, init, nmVars, pipe, cmds, kills>>

StopTimeout(c) ==
    /\ cli[c].pc = "t_wait"
    /\ lock # Free
    /\ Return(c, "err99")
    /\ UNCHANGED <<lock, record, supVars, init, nmVars, pipe, cmds, kills>>

StopStep(c) ==
    \/ TryLock(c, "t_lock", "t_orphan", "t_signal")
    \/ StopOrphan(c) \/ StopOrphanGone(c) \/ StopOrphanTimeout(c)
    \/ StopSignal(c) \/ StopRefused(c) \/ StopReleased(c)
    \/ StopTimeout(c)

-----------------------------------------------------------------------------
(* run_force_stop                                                          *)

(* The record is read and validated before the lock is tried.              *)
ForceRead(c) ==
    /\ cli[c].pc = "f_read"
    /\ cli' = [cli EXCEPT ![c] = [@ EXCEPT !.pc = "f_lock",
                                          !.tgt = record.inst,
                                          !.supOk = SupervisorValid,
                                          !.initOk = InitValid]]
    /\ UNCHANGED <<lock, record, supVars, init, nmVars, pipe, cmds, kills>>

(* A free lock is taken and dropped at once: nothing below holds it.       *)
ForceLock(c) ==
    /\ cli[c].pc = "f_lock"
    /\ \/ lock = Free /\ CliGoto(c, "f_orphan")
       \/ lock # Free /\ cli[c].supOk /\ CliGoto(c, "f_kill")
       \/ lock # Free /\ ~cli[c].supOk /\ Return(c, "err129")
    /\ UNCHANGED <<lock, record, supVars, init, nmVars, pipe, cmds, kills>>

KillRecordedInit(c) ==
    IF cli[c].initOk THEN SignalKill(cli[c].tgt) ELSE UNCHANGED init

ForceOrphan(c) ==
    /\ cli[c].pc = "f_orphan"
    /\ KillRecordedInit(c)
    /\ CliGoto(c, "f_term")
    /\ UNCHANGED <<lock, record, supVars, nmVars, pipe, cmds, kills>>

(* getsid of a supervisor that has gone meanwhile fails: 129.              *)
ForceKillInit(c) ==
    /\ cli[c].pc = "f_kill"
    /\ IF SupAlive(cli[c].tgt)
       THEN KillRecordedInit(c) /\ CliGoto(c, "f_group")
       ELSE Return(c, "err129") /\ UNCHANGED init
    /\ UNCHANGED <<lock, record, supVars, nmVars, pipe, cmds, kills>>

(* Mutant of ForceKillGroup: kill(supervisor_pid), not its process group.  *)
ForceKillSupervisorOnly(c) ==
    /\ cli[c].pc = "f_group"
    /\ LET t == cli[c].tgt IN
       IF SupAlive(t)
       THEN /\ Goto(t, "killed") /\ ReleaseLock
            /\ pipe' = PipeAfter(t, "eof")
       ELSE UNCHANGED <<sup, lock, pipe>>
    /\ CliGoto(c, "f_wait")
    /\ UNCHANGED <<record, mode, stopRequested, shutdownSent, nmVars, init,
                   cmds, kills>>

(* kill(-supervisor_pid, SIGKILL): supervisor, helper, and an init that    *)
(* has not left the group.  ESRCH is not an error.                         *)
ForceKillGroup(c) ==
    /\ cli[c].pc = "f_group"
    /\ LET t == cli[c].tgt IN
       /\ IF SupAlive(t)
          THEN /\ Goto(t, "killed") /\ ReleaseLock
               /\ pipe' = PipeAfter(t, "eof")
          ELSE UNCHANGED <<sup, lock, pipe>>
       /\ nm' = [i \in Inst |-> IF i = t /\ nm[i] \in {"booting", "ready"}
                                THEN "gone" ELSE nm[i]]
       /\ IF InGroup(t) THEN SignalKill(t) ELSE UNCHANGED init
    /\ CliGoto(c, "f_wait")
    /\ UNCHANGED <<record, mode, stopRequested, shutdownSent, nmStop, fifo,
                   cmds, kills>>

ForceWait(c) ==
    /\ cli[c].pc = "f_wait"
    /\ IF lock = Free THEN CliGoto(c, "f_term") ELSE Return(c, "err133")
    /\ UNCHANGED <<lock, record, supVars, init, nmVars, pipe, cmds, kills>>

(* terminate_delegated_processes: SIGKILL to whatever is in the delegated  *)
(* cgroup, whichever instance it belongs to; a process in uninterruptible  *)
(* sleep survives, and then the record is kept.                            *)
ForceTerminate(c) ==
    /\ cli[c].pc = "f_term"
    /\ \/ /\ init' = [i \in Inst |-> IF Delegated(i) THEN "dead" ELSE init[i]]
          /\ CliGoto(c, "f_write")
       \/ /\ \E i \in Inst : Delegated(i)
          /\ Return(c, "err134")
          /\ UNCHANGED init
    /\ UNCHANGED <<lock, record, supVars, nmVars, pipe, cmds, kills>>

ForceWrite(c) ==
    /\ cli[c].pc = "f_write"
    /\ WriteState(Rec(None, "force-stopped", FALSE))
    /\ Return(c, "force_stopped")
    /\ UNCHANGED <<lock, supVars, init, nmVars, pipe, cmds, kills>>

ForceStep(c) ==
    \/ ForceRead(c) \/ ForceLock(c) \/ ForceOrphan(c) \/ ForceKillInit(c)
    \/ ForceKillGroup(c) \/ ForceWait(c) \/ ForceTerminate(c) \/ ForceWrite(c)

-----------------------------------------------------------------------------
(* run_status                                                              *)

StatusRead(c) ==
    /\ cli[c].pc = "q_read"
    /\ ReleaseLock
    /\ Return(c, IF InitValid THEN "q_orphaned" ELSE "q_stopped")
    /\ UNCHANGED <<record, supVars, init, nmVars, pipe, cmds, kills>>

StatusBusy(c) ==
    /\ cli[c].pc = "q_busy"
    /\ Return(c, IF /\ SupervisorValid
                    /\ InitValid \/ record.label = "starting"
                 THEN "q_running" ELSE "q_unknown")
    /\ UNCHANGED <<lock, record, supVars, init, nmVars, pipe, cmds, kills>>

StatusStep(c) ==
    \/ TryLock(c, "q_lock", "q_read", "q_busy")
    \/ StatusRead(c) \/ StatusBusy(c)

(* The app gives up on a command (timeout, cancellation): the kernel drops *)
(* the command's lock and its end of the ready pipe.                       *)
CommandKilled(c) ==
    /\ cli[c].pc # "idle"
    /\ cli' = [cli EXCEPT ![c] = [pc |-> "idle", op |-> "none", tgt |-> None,
                                  supOk |-> FALSE, initOk |-> FALSE,
                                  res |-> "killed"]]
    /\ lock' = IF lock = HeldByCli(c) THEN Free ELSE lock
    /\ pipe' = [i \in Inst |->
                  IF cli[c].pc = "s_wait" /\ cli[c].tgt = i
                  THEN "broken" ELSE pipe[i]]
    /\ UNCHANGED <<record, supVars, init, nmVars, cmds, kills>>

-----------------------------------------------------------------------------
CliStep(c) ==
    \/ StartStep(c) \/ StopStep(c) \/ ForceStep(c) \/ StatusStep(c)

Next ==
    \/ \E i \in Inst : \/ SupervisorStep(i) \/ NetworkManagerStep(i)
                       \/ InitStep(i) \/ AndroidKillsSupervisor(i)
    \/ \E c \in Clis : \/ BeginCommand(c) \/ CliStep(c) \/ CommandKilled(c)

Spec == Init /\ [][Next]_vars

(* A runnable process runs: the supervisor's waits all have deadlines, and *)
(* the helper's loop is woken by signals.  Debian's init, the commands and *)
(* Android's killer owe nothing.                                           *)
Fairness == \A i \in Inst : /\ WF_vars(SupervisorStep(i))
                            /\ WF_vars(NetworkManagerStep(i))

FairSpec == Spec /\ Fairness

-----------------------------------------------------------------------------
StateRecord == [label : Labels, inst : Inst \cup {None}, captured : BOOLEAN]
CliState == [pc : CliPcs, op : AllOps \cup {"none"}, tgt : Inst \cup {None},
             supOk : BOOLEAN, initOk : BOOLEAN, res : Results]
LockState == {Free} \cup {HeldBySup(i) : i \in Inst}
                    \cup {HeldByCli(c) : c \in Clis}

(* The lock has one holder at most, the state file names one instance, and *)
(* every process is at a control point of the code.                        *)
TypeOK ==
    /\ lock \in LockState
    /\ record \in StateRecord
    /\ sup \in [Inst -> {"none"} \cup SupLive \cup SupDead]
    /\ mode \in [Inst -> {"systemd", "compat"}]
    /\ init \in [Inst -> {"none", "dead"} \cup InitLive]
    /\ nm \in [Inst -> {"none", "booting", "ready"} \cup NmDown]
    /\ nmStop \in [Inst -> BOOLEAN]
    /\ stopRequested \in [Inst -> BOOLEAN]
    /\ shutdownSent \in [Inst -> BOOLEAN]
    /\ pipe \in [Inst -> {"none", "open", "started", "failed", "eof",
                          "broken"}]
    /\ fifo \in Inst \cup {None}
    /\ cli \in [Clis -> CliState]
    /\ cmds \in Nat /\ kills \in Nat

(* Duplicate prevention (the stale-state and delegated-cgroup checks of    *)
(* run_start, 4573-4600): there are never two live Debian inits.           *)
SingleInstance ==
    \A i, j \in Inst : InitAlive(i) /\ InitAlive(j) => i = j

(* A supervisor that leaves supervisor_loop by its own return leaves no    *)
(* init behind, and after an orderly stop no network manager either:       *)
(* nothing it forked outlives its hold on the lock.                        *)
ExitLeavesNothing ==
    \A i \in Inst :
        /\ sup[i] \in {"exited", "failed"} => ~InitAlive(i)
        /\ sup[i] = "exited" => nm[i] \in NmDown

(* The SIGTERM of run_stop never meets the default disposition: however    *)
(* stop and start interleave, a supervisor that stop can find in the state *)
(* file has its handlers installed.                                        *)
TermIsHandled == \A i \in Inst : sup[i] # "terminated"

(* As long as nobody force-stops and storage works, a supervisor in its    *)
(* main loop is the one the state file names, with the identity of its init*)
(* captured, so stop, status and an orphan check can find both.            *)
RunningIsRecorded ==
    \A i \in Inst : sup[i] = "loop" =>
        record.inst = i /\ record.captured

(* run_stop says BFU_DEBIAN_STOPPED only when the init of the supervisor it*)
(* signalled is gone, unless something killed that supervisor meanwhile.   *)
StoppedMeansDown ==
    \A c \in Clis :
        cli[c].res = "stopped" =>
            ~InitAlive(cli[c].tgt) \/ sup[cli[c].tgt] = "killed"

(* run_force_stop says BFU_DEBIAN_FORCE_STOPPED only when the instance of  *)
(* the supervisor it verified has no live init, even when the force stop   *)
(* lands in early startup and the init is not recorded yet.                *)
ForceStopIsComplete ==
    \A c \in Clis :
        cli[c].res = "force_stopped" /\ cli[c].supOk => ~InitAlive(cli[c].tgt)

(* The reboot fifo of a starting instance is taken from under its helper   *)
(* (the unlink at the end of network_manager_loop) only by the helper of a *)
(* supervisor that died or failed: an orderly stop reaps its helper first. *)
FifoLostOnlyAfterFailure ==
    \A i \in Inst :
        /\ sup[i] \in {"helper", "launch", "forked", "execwait"}
        /\ nm[i] = "ready"
        /\ fifo # i
        => \E j \in Inst : j # i /\ sup[j] \in SupDead \ {"exited"}

(* A stop request always ends the supervisor: no wait in start-up, shutdown*)
(* or teardown lasts for ever, whether or not Debian's init cooperates.    *)
StopTerminates ==
    \A i \in Inst : stopRequested[i] ~> sup[i] \in SupDead

(* A network manager never outlives its supervisor for good, however that  *)
(* supervisor ended (failed starts leave it to PR_SET_PDEATHSIG and the    *)
(* getppid check).                                                         *)
HelperFollowsSupervisor ==
    \A i \in Inst : sup[i] \in SupDead ~> nm[i] \in NmDown \cup {"none"}

=============================================================================
