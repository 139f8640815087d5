--------------------------- MODULE CgroupDelegation ---------------------------
(***************************************************************************)
(* The cgroups a supervisor delegates to Debian (negotiate_cgroup_mode,    *)
(* set_systemd_parent_namespaces, cleanup_delegated_cgroups and the        *)
(* move_self_to_... functions in bfu_namespace_probe.c).                   *)
(*                                                                         *)
(* The mounts belong to the supervisor's mount namespace and vanish with   *)
(* it.  The cgroups made through them, and the deny rule or BPF program on *)
(* them, belong to the kernel and stay until somebody who has the hierarchy*)
(* mounted removes them: that is what makes a killed supervisor different  *)
(* from one that ends by itself.                                           *)
(***************************************************************************)
EXTENDS Naturals, FiniteSets

CONSTANTS
    MaxStarts,  \* bound on the starts of a supervisor
    MaxKills    \* bound on the supervisors that are killed

ASSUME DelegationAssumption == MaxStarts \in Nat /\ MaxKills \in Nat

VARIABLES
    phase,      \* where the supervisor is; idle: there is none
    settings,   \* cgroup policy, host USB policy and fallback of this start
    cmode,      \* CgroupMode, resolved_mode
    mounted,    \* hierarchies mounted in the supervisor's namespace
    child,      \* hierarchies in which the delegated child exists
    probe,      \* the unified child holds the probe cgroup
    payload,    \* the unified child holds the payload cgroup
    deny,       \* hierarchies whose delegated cgroup denies major 189
    initAt,     \* cgroups Debian's init joined
    commandAt,  \* cgroups the management command in hand joined
    leftover,   \* children that a kill, or a process inside, kept from cleanup
    starts, kills

kernelVars == <<child, probe, payload, deny>>
delegationVars == <<phase, settings, cmode, mounted, kernelVars, initAt,
                    commandAt, leftover, starts, kills>>

Hierarchies == {"unified", "devices", "systemd"}
Settings == [policy : {"auto", "v1", "v2"},
             usb : {"off", "direct", "exclusive"},
             fallback : BOOLEAN]
NoSettings == [policy |-> "auto", usb |-> "off", fallback |-> FALSE]
Modes == {"unknown", "v1", "v1-nodev", "v2"}
Phases == {"idle", "base", "unified", "probe", "payload", "v2failed", "legacy",
           "systemd", "v1failed", "nomode", "pid", "init", "up", "compatStart",
           "compat", "stopping", "failed", "down"}

(* The hierarchy a cgroup lies in.                                         *)
Hierarchy(place) ==
    IF place \in {"payload", "command", "child"} THEN "unified" ELSE place

Occupied(h) == \E place \in initAt \cup commandAt : Hierarchy(place) = h

DelegationInit ==
    /\ phase = "idle" /\ settings = NoSettings /\ cmode = "unknown"
    /\ mounted = {} /\ child = {} /\ probe = FALSE /\ payload = FALSE
    /\ deny = {} /\ initAt = {} /\ commandAt = {} /\ leftover = {}
    /\ starts = 0 /\ kills = 0

-----------------------------------------------------------------------------
(* cleanup_cgroup_hierarchy for each of hs, by a process that sees the     *)
(* hierarchies visible: the child goes with all below it, unless a process *)
(* is still inside after 20 attempts.                                      *)
Cleanup(hs, visible) ==
    LET gone == {h \in hs \cap visible : ~Occupied(h)}
    IN /\ child' = child \ gone
       /\ deny' = deny \ gone
       /\ probe' = (probe /\ "unified" \notin gone)
       /\ payload' = (payload /\ "unified" \notin gone)
       /\ leftover' = (leftover \ gone) \cup {h \in hs \cap child : Occupied(h)}
       /\ mounted' = visible \ hs

Kept == UNCHANGED <<kernelVars, leftover, mounted>>
Bystanders == UNCHANGED <<settings, initAt, commandAt, starts, kills>>

(* mount, and ensure_directory_path of the child; either may fail.         *)
Mount(h, ok) ==
    /\ \/ mounted' = mounted \cup {h} /\ child' = child \cup {h}
       \/ ~ok /\ mounted' \in {mounted, mounted \cup {h}} /\ UNCHANGED child

(* run_start, once nothing of an earlier instance is alive.                *)
BeginStart(s) ==
    /\ phase = "idle" /\ starts < MaxStarts /\ commandAt = {}
    /\ phase' = "base"
    /\ settings' = s
    /\ starts' = starts + 1
    /\ UNCHANGED <<cmode, initAt, commandAt, kills>>
    /\ Kept

(* set_base_private_namespaces, wait_for_network_manager and the look at   *)
(* /proc/self/ns/pid.                                                      *)
EnterBase ==
    /\ phase = "base"
    /\ \/ phase' = "failed"
       \/ phase' = IF settings.policy = "v1" THEN "legacy" ELSE "unified"
       \/ settings.fallback /\ phase' = "compatStart"
    /\ UNCHANGED cmode
    /\ Kept
    /\ Bystanders

-----------------------------------------------------------------------------
(* prepare_unified_cgroup_mount                                            *)

(* Up to enable_available_v2_controllers.                                  *)
MountUnified ==
    /\ phase = "unified"
    /\ \/ Mount("unified", TRUE) /\ phase' = "probe"
       \/ Mount("unified", FALSE) /\ phase' = "v2failed"
    /\ UNCHANGED <<cmode, probe, payload, deny, leftover>>
    /\ Bystanders

(* probe_cgroup_device_bpf: a probe cgroup left by a killed supervisor is  *)
(* already an error; the probe's own cgroup may resist its removal.        *)
ProbeBpf ==
    /\ phase = "probe"
    /\ \/ ~probe /\ phase' = "payload" /\ UNCHANGED probe
       \/ ~probe /\ probe' = TRUE /\ phase' = "v2failed"
       \/ phase' = "v2failed" /\ UNCHANGED probe
    /\ UNCHANGED <<cmode, child, payload, deny, leftover, mounted>>
    /\ Bystanders

(* The payload cgroup and apply_host_usb_v2_policy: the deny program, when *)
(* raw USB is off.                                                         *)
PreparePayload ==
    /\ phase = "payload"
    /\ \/ /\ payload' = TRUE
          /\ deny' = deny \cup IF settings.usb = "off" THEN {"unified"} ELSE {}
          /\ phase' = "pid" /\ cmode' = "v2"
       \/ /\ payload' \in {payload, TRUE}
          /\ phase' = "v2failed"
          /\ UNCHANGED <<deny, cmode>>
    /\ UNCHANGED <<child, probe, leftover, mounted>>
    /\ Bystanders

(* negotiate_cgroup_mode after v2 failed: cleaned up, then v1 unless v2 was*)
(* asked for.                                                              *)
UnifiedFailed ==
    /\ phase = "v2failed"
    /\ Cleanup({"unified"}, mounted)
    /\ phase' = IF settings.policy = "v2" THEN "nomode" ELSE "legacy"
    /\ UNCHANGED cmode
    /\ Bystanders

-----------------------------------------------------------------------------
(* prepare_legacy_cgroup_mounts                                            *)

(* Without the devices controller only the off policy goes on.             *)
NoDevices ==
    /\ phase = "legacy"
    /\ \/ settings.usb # "off" /\ phase' = "v1failed" /\ UNCHANGED cmode
       \/ settings.usb = "off" /\ phase' = "systemd" /\ cmode' = "v1-nodev"
    /\ Kept
    /\ Bystanders

(* Mutant of PrepareDevices: the rule is set whatever the policy is.       *)
PrepareDevicesAlways ==
    /\ phase = "legacy"
    /\ Mount("devices", TRUE)
    /\ deny' = deny \cup {"devices"}
    /\ phase' = "systemd" /\ cmode' = "v1"
    /\ UNCHANGED <<probe, payload, leftover>>
    /\ Bystanders

(* prepare_devices_cgroup_mount with the rule c 189:* for the off policy.  *)
PrepareDevices ==
    /\ phase = "legacy"
    /\ \/ /\ Mount("devices", TRUE)
          /\ deny' = deny \cup IF settings.usb = "off" THEN {"devices"} ELSE {}
          /\ phase' = "systemd" /\ cmode' = "v1"
       \/ /\ Mount("devices", FALSE)
          /\ phase' = "v1failed"
          /\ UNCHANGED <<deny, cmode>>
    /\ UNCHANGED <<probe, payload, leftover>>
    /\ Bystanders

PrepareSystemd ==
    /\ phase = "systemd"
    /\ \/ Mount("systemd", TRUE) /\ phase' = "pid" /\ UNCHANGED cmode
       \/ Mount("systemd", FALSE) /\ phase' = "v1failed" /\ cmode' = "unknown"
    /\ UNCHANGED <<probe, payload, deny, leftover>>
    /\ Bystanders

LegacyFailed ==
    /\ phase = "v1failed"
    /\ Cleanup({"devices", "systemd"}, mounted)
    /\ phase' = "nomode"
    /\ UNCHANGED cmode
    /\ Bystanders

-----------------------------------------------------------------------------
(* set_systemd_parent_namespaces                                           *)

(* Mutant of FallBack: the compatibility mode keeps the cgroups.           *)
FallBackUncleaned ==
    /\ settings.fallback
    /\ phase' = "compatStart" /\ cmode' = "unknown"
    /\ Kept

FallBack ==
    /\ settings.fallback
    /\ Cleanup(Hierarchies, mounted)
    /\ phase' = "compatStart" /\ cmode' = "unknown"

NoMode ==
    /\ phase = "nomode"
    /\ \/ FallBack
       \/ ~settings.fallback /\ phase' = "failed" /\ UNCHANGED cmode /\ Kept
    /\ Bystanders

(* unshare(CLONE_NEWPID); only some errors mean that it is not supported.  *)
UnsharePid ==
    /\ phase = "pid"
    /\ \/ phase' \in {"init", "failed"} /\ UNCHANGED cmode /\ Kept
       \/ FallBack
    /\ Bystanders

(* enter_debian_systemd: move_self_to_delegated_cgroups and the views;     *)
(* start_grace.  Init is in its cgroups before it executes systemd.        *)
InitPlaces ==
    CASE cmode = "v2" -> {"payload"}
      [] cmode = "v1" -> {"systemd", "devices"}
      [] OTHER -> {"systemd"}

(* From here on only the USB policy is looked at.                          *)
UsbPolicyOnly == settings' = [NoSettings EXCEPT !.usb = settings.usb]

InitJoins ==
    /\ phase = "init"
    /\ \/ initAt' = InitPlaces /\ phase' = "up"
       \/ initAt' = {} /\ phase' = "failed"
    /\ UsbPolicyOnly
    /\ UNCHANGED <<cmode, commandAt, starts, kills>>
    /\ Kept

(* sshd of the compatibility mode joins no cgroup; if it does not come up  *)
(* supervisor_compat_loop returns without a cleanup of its own.            *)
CompatJoins ==
    /\ phase = "compatStart"
    /\ \/ phase' = "compat" /\ UsbPolicyOnly /\ UNCHANGED <<cmode, mounted>>
       \/ phase' = "idle" /\ settings' = NoSettings /\ cmode' = "unknown"
            /\ mounted' = {}
    /\ UNCHANGED <<kernelVars, leftover, initAt, commandAt, starts, kills>>

-----------------------------------------------------------------------------
(* Mutant of CommandPlaces: commands are put next to the payload.          *)
CommandPlacesBeside ==
    IF cmode = "v2" THEN {"child"} ELSE InitPlaces

(* move_self_to_delegated_command: a leaf below the payload in v2, because *)
(* systemd's payload takes no further process itself.                      *)
CommandPlaces ==
    IF cmode = "v2" THEN {"command"} ELSE InitPlaces

(* run_in_debian_namespaces: the command outlives init, being outside the  *)
(* PID namespace, and leaves on its own.                                   *)
CommandJoins ==
    /\ initAt # {} /\ commandAt = {}
    /\ commandAt' = CommandPlaces
    /\ UNCHANGED <<phase, settings, cmode, initAt, starts, kills>>
    /\ Kept

CommandLeaves ==
    /\ commandAt # {}
    /\ commandAt' = {}
    /\ UNCHANGED <<phase, settings, cmode, initAt, starts, kills>>
    /\ Kept

(* stop_requested is seen and passed on to systemd or sshd.                *)
StopSeen ==
    /\ phase \in {"up", "compat"}
    /\ phase' = "stopping"
    /\ UNCHANGED <<settings, cmode, initAt, commandAt, starts, kills>>
    /\ Kept

(* Debian's init, or sshd, ends: by itself, stopped or timed out.          *)
DebianEnds ==
    /\ phase \in {"up", "compat", "stopping"}
    /\ phase' = "down"
    /\ initAt' = {}
    /\ UNCHANGED <<settings, cmode, commandAt, starts, kills>>
    /\ Kept

(* cleanup_delegated_cgroups, and the end of the supervisor.               *)
Leave ==
    /\ Cleanup(Hierarchies, mounted)
    /\ phase' = "idle" /\ settings' = NoSettings /\ cmode' = "unknown"
    /\ UNCHANGED <<initAt, commandAt, starts, kills>>

StartFails == phase = "failed" /\ Leave

(* run_force_stop: init, the supervisor's group and every process in the   *)
(* delegated cgroups are killed.  Its cleanup_delegated_cgroups runs in the*)
(* caller's mount namespace, where no hierarchy is mounted: it finds no    *)
(* child and reports it removed.  The probe may have been under way.       *)
ForceStop ==
    /\ phase # "idle" /\ kills < MaxKills
    /\ kills' = kills + 1
    /\ initAt' = {} /\ commandAt' = {}
    /\ probe' \in IF phase = "probe" THEN {probe, TRUE} ELSE {probe}
    /\ UNCHANGED <<child, payload, deny>>
    /\ leftover' = leftover \cup child
    /\ mounted' = {}
    /\ phase' = "idle" /\ settings' = NoSettings /\ cmode' = "unknown"
    /\ UNCHANGED starts

NegotiationStep ==
    \/ EnterBase \/ MountUnified \/ ProbeBpf \/ PreparePayload \/ UnifiedFailed
    \/ NoDevices \/ PrepareDevices \/ PrepareSystemd \/ LegacyFailed
    \/ NoMode \/ UnsharePid \/ InitJoins \/ CompatJoins \/ StartFails

-----------------------------------------------------------------------------
Denied(places) == \E place \in places : Hierarchy(place) \in deny
                                        /\ place # "child"

(* What the launcher reports is enforced: with raw USB off and a device    *)
(* gate in the reported mode, init and every command are denied major 189; *)
(* a mode without a gate is reported with raw USB off only.                *)
ReportedIsEnforced ==
    initAt # {} =>
        /\ settings.usb = "off" /\ cmode \in {"v1", "v2"} =>
              Denied(initAt) /\ (commandAt # {} => Denied(commandAt))
        /\ cmode = "v1-nodev" => settings.usb = "off"

(* Direct and exclusive passthrough are not denied to init or a command in *)
(* a cgroup this instance made itself, whatever was tried and rolled back  *)
(* before: a rule that denies is on the very cgroup that a killed instance,*)
(* or one with a process still inside, left in that hierarchy.             *)
AllowedUnlessLeftover ==
    settings.usb # "off" =>
        \A place \in initAt \cup commandAt :
            Denied({place}) => Hierarchy(place) \in leftover

(* "Direct mode removes those two restrictions" (docs/security.md): with   *)
(* passthrough, which apply_host_usb_v2_policy and                         *)
(* prepare_devices_cgroup_mount log as allow_parent_policy, no process of  *)
(* Debian is denied major 189.                                             *)
PassthroughIsAllowed ==
    settings.usb # "off" => ~Denied(initAt \cup commandAt)

(* However a start ends (refused, failed half way, fallen back, stopped),  *)
(* the supervisor removes every cgroup it made; only a kill or a process   *)
(* still inside leaves one, until a later instance cleans it up.           *)
NothingLeftBehind ==
    phase \in {"idle", "compat"} =>
        /\ child \subseteq leftover
        /\ deny \subseteq child
        /\ probe \/ payload => "unified" \in child
=============================================================================
