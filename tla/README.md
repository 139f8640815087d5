# TLA+ verification of DawnShell

DawnShell runs a Debian system beside Android, from Direct Boot on. An Android
app decides *when* Debian runs; a native launcher, run as root, starts, stops and
supervises it; a separate command lets programs inside Debian use Android's
hardware codecs. This directory holds TLA+ models of the parts where processes
interleave, fail and time out, the TLC runs that check them, and TLAPS proofs.

Source paths below are relative to the repository; `probe.c` is
`app/src/main/cpp/bfu_namespace_probe.c`, Java files are in
`app/src/main/java/me/aroxu/dawnshell/`.

## 1. Inventory

| Part | State it keeps | Operations | Hard behaviour | What makes it correct |
|---|---|---|---|---|
| Native launcher (`probe.c`) | `flock` on the control directory, state file (label, PIDs, start ticks, inodes), supervisor, network manager, init, ready pipe, reboot fifo | `start`, `stop`, `force-stop`, `status`, `restart`, supervisor loop | several commands at once; Android kills any process at any step; force-stop works without the lock; waits with deadlines on both sides of the ready pipe | never two inits; what a command reports is true; a supervisor that returns leaves nothing behind; every stop ends |
| Boot service (`BfuBootService.java`, with `DebianLauncher`, `BfuSu`, `DebianRootfsRemover`) | two executors, `lifecycleFuture`, `activeLifecycleOperation`, request id, control generation, six `...Started` flags | intents: start, stop, force-stop, restart, status, install, configure, remove, apply settings; boot and unlock broadcasts | preemption by `cancel(true)`, check-then-act on the generation, tasks that end after their successor was submitted, root processes that outlive `su` | flags describe existing work; a stop runs and holds; packages do not change below a live PID 1 |
| Codec transport (`dawnshell_codec_client.c`, `_worker.c`, `_transport.h`) | memfd with control page and two slots, two eventfds, sequence and id counters, worker process | `start_worker`, `rpc`, `stop_worker`, worker loop | lock-free sharing, time-outs followed by reuse of the slot, hanging vendor codec, killed client, 32-bit wrap | an `rpc` returns its own answer or fails; every command ends and reaps its worker |
| Codec sessions (`dawnshell_codec_ndk.c`, dispatch of the worker, pipe loop of the client) | platform codecs, image reader, surface; pending image, end-of-stream flags, last PTS; client's frame counts | create, input, output, flush, EOS, key frame, statistics, close; pipe and transcode commands | any of a dozen platform calls of a creation fails; pictures arrive later than the buffers they belong to; back-pressure in both directions; flush against late pictures | nothing leaks; a picture keeps its PTS; exit status 0 means complete output; every pipe ends |
| Exclusive USB (`probe.c` 1966-2303) | up to 64 interface records | scan, unbind, retry, restore | hot-plugging, claims by programs in Debian, killed supervisor, full table | every driver taken is given back; a listed device is always taken |
| cgroup negotiation and delegation (`probe.c` 1141-1878, 2751-2908) | hierarchies mounted in the supervisor's namespace; delegated cgroups and device rules in the kernel | try v2, v1, v1 without gate, fallback; move init and commands; clean up | failure half way with roll-back; a kill leaves what only a later start can remove; commands inside at clean-up | the reported USB policy is the enforced one; nothing survives an orderly end |
| Installer (`install-debian-rootfs.sh`) | lock directory, staging tree, target | lock, debootstrap, promote | crash between steps, stale lock | target is absent or complete |
| Docker policy (`DockerNetworkProvisioner`, script) | revision file, managed files | apply, migrate | interrupted migration | re-applied until it succeeded |
| Probes, preferences, keys, logs, UI, FFmpeg wrapper, build scripts | files and views | | sequential | not modelled |

How they interact: the UI and `BootReceiver` send intents to the boot service;
its executors run the launcher through `su` and wait for its exit; the launcher
leaves a supervisor that owns Debian and answers later commands only through the
lock, the state file, signals and the cgroup. The codec command is started inside
Debian and forks its worker back into Android's linker environment. `PROJECT.json`
lists every part, and every hazard with the line where it bites.

## 2. Modules

| Module | Models |
|---|---|
| `Launcher` | one launcher process per member of `Clis`; supervisors, helpers and inits numbered as instances |
| `Launcher_proofs` | TLAPS proofs about `Launcher`: types, and that instances do not overlap |
| `LauncherLife_proofs` | extends it by the life of one instance and what the commands report |
| `BootService` | main thread, both executors, native commands seen as outcomes |
| `BootService_proofs` | TLAPS proofs about it |
| `SyncRpc` | abstract synchronous service: a request is issued, served at most once until something failed, and returned or failed |
| `CodecTransport` | the client and the worker over shared memory, step by step |
| `CodecTransport_proofs` | TLAPS proofs about it, and of the refinement of `SyncRpc` |
| `CodecCreate` | creation and destruction of one session, a platform call at a time; also an abstract specification of its own (`CreateSpec`) |
| `CodecSession` | extends it by the operations on an open session and the platform codec behind them |
| `CodecPipe` | extends it by the client: the pipe command, and a client that sends anything |
| `CodecCreate_proofs`, `CodecPipe_proofs` | TLAPS proofs: of the creation, and that a whole command implements it |
| `CodecStream_proofs` | TLAPS proofs about the frames of a command, from the input to the output |
| `CgroupDelegation` | what a supervisor mounts, makes, joins and removes in the cgroup hierarchies |
| `ExclusiveUsb` | the table of detached interfaces and the scan over sysfs |
| `SupervisorHost` | composes both: the supervisor's main loop, the kernel, Debian and force-stop |
| `SupervisorHost_proofs` | TLAPS proofs about the cgroups and the USB drivers of `SupervisorHost` |
| `MC...` | the same modules as instances for TLC |

### Launcher

A recorded PID with its start ticks and executable inode names one process for
ever; the record is therefore the *number* of an instance plus its label and
whether init's identity was captured. `lock` is the open file description that
holds the flock: a command, or a supervisor that inherited it. Each control point
in `cli[c].pc` is a place in `run_start` (`s_`), `run_stop` (`t_`),
`run_force_stop` (`f_`) or `run_status` (`q_`) between two effects another process
can see; `sup[i]` does the same for the supervisor, from `fork` through handlers,
publication, helper, init, grace period and main loop to teardown.
`AndroidKillsSupervisor` and `CommandKilled` are the environment. The namespaces,
mounts, cgroups and USB work between two control points either succeed or fail.
Constants select the environment: `AllowFallback` (compatibility mode, in which
init is an `sshd` outside the delegated cgroup and the process group),
`KillInForkWindow` (a supervisor killed between forking init and init's first
action, its move into the cgroup) and `WritesMayFail` (state file cannot be
written).

### BootService

`queued` and `lc` are `lifecycleExecutor`: since only the latest future is ever
unfinished and uncancelled, at most one task waits. `bgQueue` and `bg` are
`executor`. `Submit` is the synchronised body shared by
`requestLifecycleOperation` and `requestRuntimeSettingsApplication`, with the
cancellation of the previous future; `ClearIfLatest` is the end of both `finally`
blocks; `Return` is the later moment at which the future becomes done. A native
command either has its effect and exits, or Java gives up on it and its root
process, if it survives, acts later (`orphans`). `settled` is a history variable
for `StopHolds` only.

### CodecTransport and SyncRpc

Requests are numbered; slots hold numbers, header and payload separately, because
the other side may be writing at the same time. `Sequence` and `RequestId` wrap at
`Word`. Release stores, eventfd signals and their reads are steps of their own.
`ImplementsRpc` is the refinement: `n`, `runs`, and whether the client is inside
`rpc` are mapped to `SyncRpc`'s `current`, `served` and `pending`.

### CodecCreate, CodecSession and CodecPipe

One session and its command, above the service that `CodecTransport` shows to be
synchronous. In `CodecCreate` each platform call is an action with both outcomes;
`live` counts objects that exist, `owned` what the session record points to, so
that a forgotten or repeated release shows. A frame is its PTS and an image the
PTS of the frame it shows; that makes "paired with the right picture" a statement
about two numbers. The platform codec (external) takes buffers from `inq` to
`outq` in order, shows rendered ones on `surf`, and lets them arrive in `back` some
time later; it may drop a frame, refuse any call or break for good. An operation
is split where it waits for the platform. `mode = "protocol"` is a client that
sends up to `MaxOps` session requests in any order and goes on after errors, as
the negative, probe, hold and orphan tests do. `stray` is a history variable: a
picture was still on its way when a FLUSH emptied the reader.

### CgroupDelegation, ExclusiveUsb and SupervisorHost

`phase` walks through `negotiate_cgroup_mode` and
`set_systemd_parent_namespaces`; every mount, mkdir, rule and unshare may fail.
The point of the model is who can undo what: mounts belong to the supervisor's
mount namespace and die with it, cgroups and the rules on them belong to the
kernel and can be removed only through a mount. `run_force_stop` therefore kills,
and its clean-up, which runs in the caller's namespace, finds nothing to remove.
`leftover` is the history variable that says which cgroups a kill, or a process
inside, kept from clean-up.

In `ExclusiveUsb` an interface is a sysfs name, a device may be replaced by
another under the same name, and `driver` is the device's own driver, `usbfs`
(claimed by a program in Debian through `/dev/bus/usb`) or none. One turn of the
scan's loop is one step; a device does not change within it. That the kernel binds
a claimed interface to `usbfs`, releases claims with the process, and binds a
driver only to a device it is for, are the assumptions about it. Hot-plugging is
enabled only while a supervisor with an allowlist is there: at other times it
changes only what the first scan finds, which `Init` and the events after it
already vary. `taken`, `failed`, `usurped` and `orphaned` are history variables.
The policies of a start other than the USB policy are forgotten when the main loop
begins, where nothing reads them any more.

## 3. Runs

| Run | Question | Result |
|---|---|---|
| `launcher_strict` | start, stop and force-stop by two commands in strict mode, one supervisor killed, state writes that fail | one init at most; a reported stop is true and a reported force stop complete; SIGTERM always meets a handler; no return leaves an init or helper; an orderly stop never lets a helper take the next instance's fifo |
| `launcher_compat` | start, stop, restart and status by two commands with compatibility mode allowed, no kills and no force-stop, under fairness | one init at most; the running supervisor is the recorded one; nothing left behind; a stop request ends the supervisor; a helper follows its supervisor |
| `launcher_compat_force_stop` | comment at `probe.c` 4794 | **violated**: sshd survives a force-stop in its start-up window |
| `boot_service` | three arbitrary intents against both executors, under fairness | flags and lifecycle fields describe the work that exists; a stop holds; every accepted stop gets the executor unless the untimed Docker helper hangs |
| `boot_service_live_pid1` | comment at `BfuBootService.java` 412 | **violated**: a start overtakes a configuration |
| `boot_service_docker_flag` | message at `BfuBootService.java` 470 | **violated**: a settings task cancelled before it ran leaves its flag set |
| `codec_transport` | time-outs, hang, kill, wrap, under fairness | an accepted answer is the request's own; requests are served once until something fails; `stop_worker` reaps; `SyncRpc` is implemented; every command ends; after its client died a worker leaves as soon as it is back from the platform codec |
| `codec_transport_orphan` | `docs/architecture.md` 112, `docs/hardware-codec-protocol.md` 28 | **violated**: a worker inside a vendor call that does not return outlives its client for good, because its SIGTERM handler only sets a flag |
| `codec_command` | pipe commands over five input streams and a client with seven arbitrary requests, against a codec that refuses, drops, delays and breaks, under fairness | nothing leaks; a picture keeps its PTS unless a FLUSH overtook one; the end of the stream is the last record; exit status 0 means every frame, in order, with its picture; every pipe ends unless `INPUT` is starved for good |
| `supervisor_host` | two starts with any policies, every step failing, commands, hot-plugging, claims, one force-stop, under fairness | what is reported is enforced; passthrough is denied only by a rule left on the very cgroup a process is in; nothing is left by an orderly end; every driver taken is recorded; a listed device is claimed |
| `supervisor_usb_restore` | `docs/architecture.md` 92 | **violated**: after a program in Debian claimed the interface, `usbfs` is recorded as its driver and Android's is not restored |
| `supervisor_inherited_rule` | `docs/security.md` 77 | **violated**: the deny rule of a force-stopped instance stays, and a start with passthrough inherits it while it logs `allow_parent_policy` |

Bounds. Two commands at once are enough for every pairwise race of the lock and
the state file, and `MaxCmds = 3` lets a third command meet what the first two
left; two instances are what a duplicate needs; one kill is the crash whose
recovery is examined. `launcher_compat` issues two commands, of which a restart
is a stop and a start: a killed start, its supervisor that dies of SIGPIPE, and
the start that must find its sshd are within that bound, and
`NoDuplicateInFallback` has none. It has no outside kill, because with one an
sshd that is not recorded yet stays unseen: its supervisors end by a stop, a failed
start or SIGPIPE, which leave the helper to the same parent-death signal as a
kill. Restart and status are issued in `launcher_compat` only. `MaxIntents = 3` gives work under way, a request that
preempts it, and one that meets the consequences (the invariants alone were also
checked with 4, 1.6 million states). `Word = 5` with up to
`MaxWork + 4` requests makes the counters wrap inside a run while still leaving
more values than requests that can be outstanding. In `codec_command` one input and
two output buffers, two images and a pump of two make every queue run full behind
four frames; two colour formats and three candidates, one of them repeated and one
unproven, take every turn of the creation loops; two empty OUTPUTs stand for
fifty. In `supervisor_host` a table of one record for two interfaces is full at
once, two plug events replace a device by another under the same name, and the
second start meets what the first left. Commands are interchangeable,
so `Clis` is a symmetry set in the launcher's safety runs and nowhere else. Deadlock is not
checked in `Launcher`, `BootService` and `SupervisorHost`: an idle system, or one whose bounds are
used up, may stop. `CodecTransport` and `CodecPipe` check it, with an explicit step for
a finished command.

Fairness. `Launcher`: weak fairness for supervisors and network managers, whose
waits all have deadlines or are woken by signals; none for Debian's init, the
commands or Android. `BootService`: weak fairness for the steps of the lifecycle
executor that are local or bounded by a `BfuSu` timeout; none for the Docker
helper, the main thread, the background executor or orphans. `CodecTransport`:
weak fairness for client and worker, every wait of which is bounded; a call into
the vendor codec may hang (`CodecHangs`). `CodecPipe`: weak fairness for the pipe
client and the worker, whose calls return, for the codec's own progress (it
announces its format and works on the input it holds) and for the surface, on
which what was rendered arrives; a broken codec makes no progress, and the
arbitrary client none either. `SupervisorHost`: weak fairness for the scans of the
main loop and the end of the retry interval; none for the kernel, Debian, starts,
stops or kills.

Met while modelling, without a run of their own: in compatibility mode a
supervisor killed before it recorded sshd leaves one that the next start does not
see (the cause is that of `launcher_compat_force_stop`); a force-stop that found
the lock free may reset the record of a supervisor that started since
(`docs/architecture.md` 136 says otherwise); and after a timed-out `rpc` the
client sends statistics and close while the worker may still be busy
(`docs/hardware-codec-protocol.md` 31 says otherwise), which `AcceptedIsOwn` shows
to be harmless. `new_codec` takes a component for hardware when the platform lists
it as such or when its *name* begins with one of ten prefixes (`hardware_name`),
and never asks for more: a software component with a vendor's prefix
(`OMX.SEC.*.sw.dec`) is accepted, and so is a secure one, although
`docs/hardware-codec-protocol.md` 113-118 says that DawnShell "never silently falls
back to a software codec" and that "secure components are not hardware successes"
(119 calls the classification by name a compatibility fallback). `Proven` models
the test on the name; the model says nothing about what a component really is.

Every property has a mutant in `PROJECT.json`: a definition changed the way a slip
in the code would change it, with which TLC finds the property violated.

## 4. Proofs

Every invariant of the passing runs, and the refinement of `SyncRpc`, is also a
theorem: for every value of the constants that satisfies the module's named
assumptions, instead of the bounds of section 3. The theorems that a reader should
know are listed in `PROJECT.json`. None of the invariants is inductive as it
stands; what follows says what had to be added, and why.

### Launcher

`Launcher_proofs`, for every set of commands and every bound:

* `TypeCorrect`: `Spec => []TypeOK`, one lemma per process kind, one case per action.
* `NoDuplicateInstance`: with `~AllowFallback` and `~KillInForkWindow`,
  `Spec => []SingleInstance`, whatever commands run, supervisors die, starts fail
  or writes fail.

`SingleInstance` is not inductive: nothing in it says why the check in `run_start`
is still valid when the supervisor forks its init. The strengthening `SingleInv`
adds that

* the lock is held by exactly the process whose control point says so
  (`LockDiscipline`): live supervisors hold it;
* an init whose fork is recent, i.e. not yet in the cgroup, has its live
  supervisor (`ForkedHasSupervisor`), which is where `KillInForkWindow` enters;
* a supervisor that has not forked yet has no init (`NoInitBeforeFork`);
* a start that passed its checks, while it holds the lock, sees no live init
  (`CheckedMeansClear`): every init is found by the cgroup scan, which is where
  `~AllowFallback` enters;
* while a supervisor is live no other instance has a live init
  (`SupervisorIsAlone`).

force-stop acts without the lock but only kills, which none of these conjuncts
can notice; that is the lemma `UnlockedMove`. The two assumptions are needed: with
fallback an sshd is in no cgroup (`launcher_compat_force_stop` shows one that is in
no record either), and the window excluded by `~KillInForkWindow` lets an init live
in no cgroup and no record. No run checks that window.

`LauncherLife_proofs` is about one instance from fork to exit, and holds without
those two assumptions, in strict and in fallback mode, unless it says otherwise:

* `NothingLeftBehind` (`ExitLeavesNothing`), `TermAlwaysHandled`
  (`TermIsHandled`), `StopReportsTheTruth` (`StoppedMeansDown`) and
  `FifoOnlyLostToFailure` (`FifoLostOnlyAfterFailure`) follow from one inductive
  invariant, `LifeInv`. It says where an init cannot be: before its supervisor's
  fork, or after its supervisor reaped it (`InitGone`); that an orderly exit comes
  after the helper was reaped (`HelperReaped`); that whoever is in the state file
  has installed its handlers (`RecordIsArmed`), because handlers come before
  publication; and that a stop which waits, or has reported, has a target that
  existed, or is dead (`Awaited`). `LockDiscipline` is needed once more: a second
  supervisor would take the fifo of the first.
* `RunningAlwaysRecorded` (`RunningIsRecorded`) with force-stop excluded and
  writes that succeed. Both are needed: `run_force_stop` resets the record without
  the lock, and a failed write leaves the previous record. The invariant
  (`RunningInv`) adds that no command is inside `run_force_stop`.
* `ForceStopAlwaysComplete` (`ForceStopIsComplete`) in strict mode and without a
  kill in the fork window, from `SingleInv`, `LifeInv` and `ForceAwaited`: from its
  scan on, the supervisor that was verified is dead; from the write on, so is its
  init. That a dead supervisor's init is in the cgroup that is scanned is
  `ForkedHasSupervisor`, which is why this theorem shares the assumptions of
  `NoDuplicateInstance`.
* `NoDuplicateInFallback`, again `SingleInstance`, without the two assumptions of
  `NoDuplicateInstance` but without kills, force-stop and failing writes. No cgroup
  tells of an sshd, so the argument is another one: an init can outlive its
  supervisor only when that one dies of SIGPIPE while it reports to a start that is
  gone, and then it has just been recorded (`OrphanIsRecorded`, from `RunningInv`);
  a start that holds the lock and finds no valid record therefore sees no init.

### BootService

`BootService_proofs`, for any number of intents: `BootTypes` (`TypeOK`),
`FlagsAlwaysMeanWork`, `FlagAlwaysLatest` (`LifecycleFlagIsLatest`) and
`StopAlwaysHolds`, from the inductive `BootInv`:

* no kind of background work waits twice or waits while it runs (`QueueIsSet`), and
  its flag is up as long as it exists (`WorkIsFlagged`); the control point of a
  task tells its kind (`BgShape`, `LcShape`);
* every request was paid for by an intent, also the one that the start-up checks
  make later (`RequestsArePaid`), which is what bounds the ids;
* only the latest request can wait, and its future is the one that is not done
  (`LatestIsPending`), because every submission cancels its predecessor;
* a stop that waits or runs is the active request, with nothing queued behind it
  (`StopIsKept`), and after a stop that settled nothing that is left to run starts
  Debian (`SettledIsQuiet`): not a queued or running request, not an orphaned root
  process, not a background task, unless the generation it took suppresses it.

### Codec transport

`CodecTransport_proofs`, for every number of requests, with or without a codec that
hangs, and for every word from five values up (the code's has 2^32):
`TransportTypes`, `AnswersAreOwn` (`AcceptedIsOwn`), `DispatchedOnce`
(`OnceUntilFailure`), `StopAlwaysReaps`, and `TransportImplementsRpc`, the
refinement `Spec => ImplementsRpc`.

The question is why a late answer to a request that timed out can never be taken
for the answer to a later one, though sequences wrap. `Words` answers it: after
the first failure the client sends statistics and `CLOSE` and nothing else, so no
word of the control page, and no copy of one in the worker, is more than three
requests old (`Lag`), and three requests apart two sequences differ once there are
five values of the word, zero being skipped by the counter; that is what
`Word >= 5` is for. Then a worker that has read the sequence of the pending request
works for that request, whatever it did before (`AnswerIsOwn`), with what the
client put into the slot (`SlotIsOwn`). `Turns` describes the exchange until the
first failure, in which each side waits for the other, and `Ending` how a client
that stops or dies takes the worker along. `SequencesDiffer` is the arithmetic. The
refinement has one lemma per kind of step: issue, serve, return, fail; every other
step of client and worker stutters.

### Codec creation and streams

`CodecCreate_proofs` and `CodecPipe_proofs`, for every set of candidates, every
stream and every size of the queues:

* `NothingLeaks`: `CreateSpec => []NoLeak`. `NoLeak` speaks of the ends of a creation only; the inductive `CreateInv` says
  for every control point which objects exist, and which of them the session
  record owns, so that the one clean-up at the end releases the rest exactly once.
* `CommandCreates`: `Spec => CreateSpec`: a whole command, whatever client, worker
  and platform do between two creations, implements the creation protocol. From it
  follows `CommandLeaksNothing`, the same property of the command.

`CodecStream_proofs`, for every stream, client, kind of session and number of
buffers, images and turns of the pump, and whatever the codec drops, refuses or
delays: `CommandTypes` (`TypeOK`), `AlwaysPaired` (`PairedUnlessStray`),
`EosAlwaysLast` (`EosIsLast`) and `SuccessAlwaysComplete` (`SuccessIsComplete`).

* `SessionInv` holds for every client. `Handshake`: where client and worker are
  tells which request is served. `EndIsLast`: once the end of the stream is in a
  queue, it is the last there, the queues before it are empty and the session
  takes no more input. `OnePicture`: a decoder has at most one picture on its way,
  the one it waits for, which is why the picture that arrives can be handed out
  under the awaited PTS, and why only a FLUSH can break that (`stray`). `Bounded`:
  no codec has more buffers in use than it has.
* `PipeInv` is about the pipe command. `Ordered`: along the way delivered, answered,
  awaited or back from the surface, on the surface, behind the codec, before the
  codec, the PTS only grow, and none is larger than the number of frames that the
  codec has taken. `OutGaps`: between two records written the PTS grows at least as
  much as the position. `Judged`: the exit status is 0 only with the end of the
  stream seen and as many records as frames. A codec that drops a frame keeps
  `Ordered`; a record that is missing then costs a position, so that
  `Len(out) = frames` leaves no room for a gap and the output is the input.

### Supervisor's host

`SupervisorHost_proofs`, for any number of starts, kills, interfaces and devices:
`CleansUp`, `Enforces` and `Allows` state `NothingLeftBehind`,
`ReportedIsEnforced` and `AllowedUnlessLeftover`. The inductive `DelegationInv`
adds what the properties leave out:

* a cgroup that is nobody's leftover is below a mount this supervisor still has
  (`Accounted`), which is why its clean-up can reach it;
* a mode is resolved only after its gate was closed, and is forgotten before a
  clean-up opens it (`Gated`);
* init and commands are where the mode puts them, and no command survives into the
  negotiation of the next start (`Joined`);
* with passthrough every rule there is was inherited (`Inherited`), so that a rule
  that denies is on the cgroup some earlier instance left in that hierarchy;
  `supervisor_inherited_rule` shows that this does happen.

`CleanupAccounts` is the one lemma about `cleanup_cgroup_hierarchy` that every
action with a clean-up uses.

`TakenAlwaysRecorded` (`TakenIsRecorded`) and `HostTypes` (`TypeOK`), for every
size of the table and any hot-plugging, from `UsbInv`: the table has at most one
record for an interface (part of `UsbTypes`), so that the one the look-up finds is
the one with the driver; and what was taken is present and without a driver of its
own (`TakenIsFree`), so that pruning the records of absent devices cannot drop it
and a later turn of the scan that meets a driver there has met `usbfs`.

### What stays with TLC

* Liveness: `StopTerminates`, `HelperFollowsSupervisor`, `StopRuns`, `CommandEnds`,
  `WorkerFollowsClient`, `PipeEnds` and `HotplugIsClaimed`. The prover has no
  reasoning about fairness and `ENABLED`.
* The six runs that end in a violation. One of them, `launcher_compat_force_stop`,
  is `ForceStopIsComplete` outside the assumptions of its theorem.


## 5. Not modelled

`PROJECT.json` gives the reason for each part. In the parts that are modelled:
the bind mounts of the rootfs and the policy-routing rules of the network manager;
PID reuse (excluded by ticks and inode); BFU mode being switched off, with the
`stopSelf` and `onDestroy` it leads to; the codec bridge service; two sessions of
one worker at once (no command of the repository opens two); pixels,
timing and the checks of the codec's built-in tests; a device that changes during
one turn of the USB scan; identity checks of commands that enter an instance, and
with them an init that dies between the check and the command's move into the
cgroup.

Where model and code differ: in `BootService` a `START` during a
configuration may succeed at any time, in the code only until
`configure-debian-systemd.sh` 433 has removed the ready marker that
`validate_rootfs` wants (the counterexample of `boot_service_live_pid1` lies in that
window). In `CodecSession` an input buffer whose queueing failed is available
again, while the code has lost its index; a pipe ends after such an error, so only
the client that goes on after errors could notice, and input that is refused for
good it meets with a codec that broke.

## 6. Plan

Done: `Launcher`, `BootService`, `CodecTransport`, `CodecCreate`, `CodecSession`,
`CodecPipe`, `CgroupDelegation`, `ExclusiveUsb`, `SupervisorHost`. Next:

1. Proofs: action properties (in which order the labels of the state file follow
   each other, that a request id never returns), and `SingleInstance` in
   compatibility mode with kills that come after the record of the running init.
2. `NetworkManager`: the bypass rules and routes of the helper, and what a killed
   helper leaves.
3. `RootfsInstall`: lock directory, staging and promotion with a crash anywhere.
4. `Dawnshell`: `BootService` composed with an abstract launcher that `Launcher`
   is shown to implement; service destruction and re-creation.
