---------------------------- MODULE SupervisorHost ----------------------------
(***************************************************************************)
(* What a supervisor does to the host besides starting Debian: the cgroups *)
(* of CgroupDelegation and the USB drivers of ExclusiveUsb, over several   *)
(* instances of which some are force-stopped (supervisor_loop,             *)
(* supervisor_compat_loop and run_force_stop in bfu_namespace_probe.c).    *)
(* There is one supervisor at a time (Launcher).                           *)
(***************************************************************************)
EXTENDS CgroupDelegation, ExclusiveUsb

vars == <<delegationVars, usbVars>>

Init == DelegationInit /\ UsbInit

Exclusive == settings.usb = "exclusive"

(* The supervisor is in its main loop; a scan runs to its end.             *)
InLoop == phase \in {"up", "compat"}

(* Debian can open the nodes below /dev/bus/usb.                           *)
RawUsb == phase \in {"up", "compat", "stopping"}
          /\ settings.usb # "off" /\ ~Denied(initAt)

-----------------------------------------------------------------------------
Starts == /\ \E s \in Settings : BeginStart(s)
          /\ UNCHANGED usbVars

Negotiates == NegotiationStep /\ UNCHANGED usbVars

Command == (CommandJoins \/ CommandLeaves) /\ UNCHANGED usbVars

(* reconcile_exclusive_usb: before "running", and every two seconds.       *)
ScanBegins ==
    /\ InLoop /\ Exclusive
    /\ ScanStarts
    /\ UNCHANGED delegationVars

ScanCannot ==
    /\ InLoop /\ Exclusive
    /\ ScanFails
    /\ UNCHANGED delegationVars

Scans(i) == ScanInterface(i) /\ UNCHANGED delegationVars

RetryDue ==
    /\ InLoop
    /\ RetryElapses
    /\ UNCHANGED delegationVars

Stops == StopSeen /\ todo = {} /\ UNCHANGED usbVars

(* The end of init ends its PID namespace; of a compatibility instance only*)
(* sshd ends, and programs of its sessions may keep their claims.          *)
Ends ==
    /\ DebianEnds /\ todo = {}
    /\ ReleaseClaims \/ (initAt = {} /\ UNCHANGED driver)
    /\ UNCHANGED <<device, records, todo, ghosts, plugs>>

(* restore_exclusive_usb, and then cleanup_delegated_cgroups.              *)
Restores ==
    /\ phase = "down"
    /\ RestoreRecord
    /\ UNCHANGED delegationVars

Leaves ==
    /\ phase = "down" /\ records = <<>>
    /\ Leave
    /\ UNCHANGED usbVars

(* The table of records is lost with the supervisor.  Outside a PID        *)
(* namespace programs may survive with their claims, as in Ends.           *)
IsForceStopped ==
    /\ ForceStop
    /\ ReleaseClaims \/ (initAt = {} /\ UNCHANGED driver)
    /\ records' = <<>> /\ todo' = {}
    /\ orphaned' = taken
    /\ UNCHANGED <<device, taken, failed, usurped, plugs>>

(* Hot-plugging that a supervisor with an allowlist can see; what happens  *)
(* at other times it sees like what happens before its first scan.         *)
Hotplugs(i) ==
    /\ phase \in {"up", "compat", "stopping", "down"} /\ Exclusive
    /\ HotPlug(i)
    /\ UNCHANGED delegationVars

Claims(i) == RawUsb /\ ClaimInterface(i) /\ UNCHANGED delegationVars

Next ==
    \/ Starts \/ Negotiates \/ Command \/ ScanBegins \/ ScanCannot
    \/ RetryDue \/ Stops \/ Ends \/ Restores \/ Leaves \/ IsForceStopped
    \/ \E i \in Interfaces : Scans(i) \/ Hotplugs(i) \/ Claims(i)

(* The supervisor's loop runs, and every now and then the directory opens. *)
Fairness ==
    /\ WF_vars(ScanBegins)
    /\ \A i \in Interfaces : WF_vars(Scans(i))
    /\ WF_vars(RetryDue)

Spec == Init /\ [][Next]_vars /\ Fairness

-----------------------------------------------------------------------------
(* The type of the host's state.                                           *)
TypeOK ==
    /\ phase \in Phases /\ settings \in Settings /\ cmode \in Modes
    /\ mounted \subseteq Hierarchies /\ child \subseteq Hierarchies
    /\ deny \subseteq {"unified", "devices"}
    /\ probe \in BOOLEAN /\ payload \in BOOLEAN
    /\ \A i \in Interfaces : driver[i] \in {"none", "usbfs", device[i]}
    /\ records \in Seq(Record) /\ Len(records) <= MaxRecords
    /\ todo \subseteq Interfaces
    /\ taken \cup failed \cup usurped \cup orphaned \subseteq Interfaces

(* "The supervisor records each detached interface and rebinds it": after  *)
(* an orderly stop no interface is left without a driver that a supervisor *)
(* took it from, unless the kernel refused to bind it or that supervisor   *)
(* was killed.                                                             *)
RebindsEach ==
    phase = "idle" =>
        {i \in taken : driver[i] = "none"} \subseteq failed \cup orphaned

(* A listed device that is plugged in, or bound again, is taken from its   *)
(* driver while Debian runs, unless the table is full or unbinding fails.  *)
HotplugIsClaimed ==
    \A i \in Interfaces :
        InLoop /\ Exclusive /\ Claimable(i)
        ~> \/ ~Claimable(i) \/ ~InLoop \/ ~Room(i)
           \/ \E k \in DOMAIN records : records[k].retry
=============================================================================
