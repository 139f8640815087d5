------------------------ MODULE SupervisorHost_proofs ------------------------
(***************************************************************************)
(* Proofs about the host of SupervisorHost, for any number of starts,      *)
(* kills, interfaces and devices: which cgroups are left behind, what is   *)
(* denied and what is allowed, and that every USB driver that was taken is *)
(* on record.                                                              *)
(***************************************************************************)
EXTENDS SupervisorHost, TLAPS

Places == {"payload", "command", "child", "devices", "systemd"}

(* The types of the delegation's state.                                    *)
DelegationTypes ==
    /\ phase \in Phases /\ settings \in Settings /\ cmode \in Modes
    /\ mounted \subseteq Hierarchies /\ child \subseteq Hierarchies
    /\ leftover \subseteq Hierarchies
    /\ deny \subseteq {"unified", "devices"}
    /\ probe \in BOOLEAN /\ payload \in BOOLEAN
    /\ initAt \subseteq Places /\ commandAt \subseteq Places

(* A cgroup that is nobody's leftover is below a mount of this supervisor, *)
(* and without a cgroup there is nothing in it.                            *)
Accounted ==
    /\ child \ leftover \subseteq mounted
    /\ deny \subseteq child
    /\ probe \/ payload => "unified" \in child
    /\ phase \in {"probe", "payload"} => "unified" \in child
    /\ phase \in {"idle", "base", "compatStart", "compat"} => mounted = {}

(* A mode is resolved only once its gate is closed.                        *)
Gated ==
    /\ phase \in {"idle", "base", "unified", "probe", "payload", "v2failed",
                  "legacy", "v1failed", "nomode", "compatStart", "compat"}
         => cmode = "unknown"
    /\ settings.usb = "off" =>
          /\ cmode = "v2" => "unified" \in deny
          /\ cmode = "v1" => "devices" \in deny
    /\ cmode = "v1-nodev" => settings.usb = "off"

(* Where init and commands are, and when there are any.                    *)
Joined ==
    /\ initAt # {} => phase \in {"up", "stopping"} /\ initAt = InitPlaces
    /\ commandAt # {} => phase \in {"idle", "up", "stopping", "down"}
    /\ initAt # {} /\ commandAt # {} => commandAt = CommandPlaces

(* With passthrough, what is denied was denied before this start.          *)
Inherited == settings.usb # "off" => deny \subseteq leftover

DelegationInv ==
    DelegationTypes /\ Accounted /\ Gated /\ Joined /\ Inherited

-----------------------------------------------------------------------------
(* What cleanup_cgroup_hierarchy leaves is a leftover, and nothing is in a *)
(* cgroup it removed.                                                      *)
LEMMA CleanupAccounts ==
    ASSUME DelegationTypes, Accounted,
           NEW hs \in SUBSET Hierarchies, Cleanup(hs, mounted)
    PROVE  /\ mounted' \subseteq Hierarchies /\ child' \subseteq Hierarchies
           /\ leftover' \subseteq Hierarchies
           /\ deny' \subseteq {"unified", "devices"}
           /\ probe' \in BOOLEAN /\ payload' \in BOOLEAN
           /\ child' \ leftover' \subseteq mounted'
           /\ deny' \subseteq child'
           /\ probe' \/ payload' => "unified" \in child'
           /\ hs = Hierarchies => mounted' = {}
           /\ deny \subseteq leftover => deny' \subseteq leftover'
<1> DEFINE gone == {h \in hs \cap mounted : ~Occupied(h)}
           held == {h \in hs \cap child : Occupied(h)}
<1>1. /\ child' = child \ gone /\ deny' = deny \ gone
      /\ probe' = (probe /\ "unified" \notin gone)
      /\ payload' = (payload /\ "unified" \notin gone)
      /\ leftover' = (leftover \ gone) \cup held
      /\ mounted' = mounted \ hs
  BY DEF Cleanup
<1>2. ASSUME NEW h \in child', h \notin leftover' PROVE h \in mounted'
  BY <1>1, <1>2 DEF Accounted
<1>3. probe' \in BOOLEAN /\ payload' \in BOOLEAN BY <1>1 DEF DelegationTypes
<1>4. probe' \/ payload' => "unified" \in child'
  BY <1>1 DEF Accounted, DelegationTypes
<1>5. held \subseteq Hierarchies OBVIOUS
<1> HIDE DEF gone, held
<1> QED BY <1>1, <1>2, <1>3, <1>4, <1>5 DEF DelegationTypes, Accounted

(* A device that booted has no delegated cgroup.                           *)
LEMMA InitDelegates == DelegationInit => DelegationInv
<1> SUFFICES ASSUME DelegationInit PROVE DelegationInv OBVIOUS
<1> USE DEF DelegationInit
<1>1. DelegationTypes
  BY DEF DelegationTypes, Phases, Settings, NoSettings, Modes, Hierarchies,
         Places
<1>2. probe = FALSE /\ payload = FALSE /\ Accounted BY DEF Accounted
<1>3. Gated /\ Joined /\ Inherited
  BY DEF Gated, Joined, Inherited, NoSettings
<1> QED BY <1>1, <1>2, <1>3 DEF DelegationInv

(* After the negotiation the policies are forgotten, except for USB.       *)
LEMMA UsbKept ==
    ASSUME settings \in Settings, UsbPolicyOnly
    PROVE  settings' \in Settings /\ settings'.usb = settings.usb
BY DEF UsbPolicyOnly, Settings, NoSettings

(* Without a supervisor the settings stand for no passthrough.             *)
LEMMA OffUnset == NoSettings \in Settings /\ NoSettings.usb = "off"
BY DEF Settings, NoSettings

(* A start, and the steps that make no cgroup and remove none.             *)
LEMMA QuietDelegates ==
    ASSUME DelegationInv,
           \/ \E s \in Settings : BeginStart(s)
           \/ EnterBase \/ NoDevices \/ CommandJoins
           \/ CommandLeaves \/ StopSeen \/ DebianEnds \/ CompatJoins
    PROVE  DelegationInv'
<1> USE DEF DelegationInv, Kept, Bystanders, kernelVars
<1>1. ASSUME NEW s \in Settings, BeginStart(s) PROVE DelegationInv'
  BY <1>1 DEF BeginStart, DelegationTypes, Accounted, Gated, Joined, Inherited,
              Phases
<1>2. CASE EnterBase
  BY <1>2 DEF EnterBase, DelegationTypes, Accounted, Gated, Joined, Inherited,
              Phases
<1>3. CASE NoDevices
  BY <1>3 DEF NoDevices, DelegationTypes, Accounted, Gated, Joined, Inherited,
              Phases, Modes
<1>4. CASE CommandJoins
  BY <1>4 DEF CommandJoins, DelegationTypes, Accounted, Gated, Joined,
              Inherited, CommandPlaces, InitPlaces, Places
<1>5. CASE CommandLeaves
  BY <1>5 DEF CommandLeaves, DelegationTypes, Accounted, Gated, Joined,
              Inherited, InitPlaces
<1>6. CASE StopSeen
  BY <1>6 DEF StopSeen, DelegationTypes, Accounted, Gated, Joined, Inherited,
              Phases, InitPlaces, CommandPlaces
<1>7. CASE DebianEnds
  BY <1>7 DEF DebianEnds, DelegationTypes, Accounted, Gated, Joined, Inherited,
              Phases
<1>8. CASE CompatJoins
  <2>1. \/ UsbPolicyOnly /\ phase' = "compat" /\ UNCHANGED <<cmode, mounted>>
        \/ /\ settings' = NoSettings /\ phase' = "idle"
           /\ cmode' = "unknown" /\ mounted' = {}
    BY <1>8 DEF CompatJoins
  <2>2. settings' \in Settings /\ settings'.usb \in {settings.usb, "off"}
    BY <2>1, UsbKept, OffUnset DEF DelegationTypes
  <2> QED
    BY <1>8, <2>1, <2>2 DEF CompatJoins, DelegationTypes, Accounted, Gated,
                            Joined, Inherited, Phases, Modes
<1> QED BY <1>1, <1>2, <1>3, <1>4, <1>5, <1>6, <1>7, <1>8

(* The steps of the negotiation that mount, make a cgroup or a rule, and   *)
(* init's move into its cgroups.                                           *)
LEMMA MakingDelegates ==
    ASSUME DelegationInv,
           \/ MountUnified \/ ProbeBpf \/ PreparePayload \/ PrepareDevices
           \/ PrepareSystemd \/ InitJoins
    PROVE  DelegationInv'
<1> USE DEF DelegationInv, Kept, Bystanders, kernelVars
<1>1. CASE MountUnified
  BY <1>1 DEF MountUnified, Mount, DelegationTypes, Accounted, Gated, Joined,
              Inherited, Phases, Hierarchies
<1>2. CASE ProbeBpf
  BY <1>2 DEF ProbeBpf, DelegationTypes, Accounted, Gated, Joined, Inherited,
              Phases
<1>3. CASE PreparePayload
  <2>1. payload' \in BOOLEAN /\ "unified" \in child' /\ probe' = probe
    BY <1>3 DEF PreparePayload, DelegationTypes, Accounted
  <2> QED
    BY <1>3, <2>1 DEF PreparePayload, DelegationTypes, Accounted, Gated, Joined,
                      Inherited, Phases, Modes
<1>4. CASE PrepareDevices
  BY <1>4 DEF PrepareDevices, Mount, DelegationTypes, Accounted, Gated, Joined,
              Inherited, Phases, Modes, Hierarchies
<1>5. CASE PrepareSystemd
  BY <1>5 DEF PrepareSystemd, Mount, DelegationTypes, Accounted, Gated, Joined,
              Inherited, Phases, Modes, Hierarchies
<1>6. CASE InitJoins
  <2>1. settings' \in Settings /\ settings'.usb = settings.usb
    BY <1>6, UsbKept DEF InitJoins, DelegationTypes
  <2>2. InitPlaces \subseteq Places /\ InitPlaces' = InitPlaces
    BY <1>6 DEF InitJoins, InitPlaces, Places
  <2> QED
    BY <1>6, <2>1, <2>2 DEF InitJoins, DelegationTypes, Accounted, Gated,
                            Joined, Inherited, Phases
<1> QED BY <1>1, <1>2, <1>3, <1>4, <1>5, <1>6

(* Giving up, falling back, leaving and being killed.                      *)
LEMMA RemovingDelegates ==
    ASSUME DelegationInv,
           \/ UnifiedFailed \/ LegacyFailed \/ NoMode \/ UnsharePid
           \/ (phase \in {"failed", "down"} /\ Leave) \/ ForceStop
    PROVE  DelegationInv'
<1> USE DEF DelegationInv, Kept, Bystanders, kernelVars
<1>1. CASE UnifiedFailed
  <2>1. Cleanup({"unified"}, mounted) BY <1>1 DEF UnifiedFailed
  <2> QED
    BY <1>1, <2>1, CleanupAccounts DEF UnifiedFailed, DelegationTypes,
       Accounted, Gated, Joined, Inherited, Phases, Hierarchies
<1>2. CASE LegacyFailed
  <2>1. Cleanup({"devices", "systemd"}, mounted) BY <1>2 DEF LegacyFailed
  <2> QED
    BY <1>2, <2>1, CleanupAccounts DEF LegacyFailed, DelegationTypes,
       Accounted, Gated, Joined, Inherited, Phases, Hierarchies
<1>3. ASSUME FallBack, Bystanders, phase \in {"nomode", "pid"}
      PROVE  DelegationInv'
  <2>1. Cleanup(Hierarchies, mounted) BY <1>3 DEF FallBack
  <2> QED
    BY <1>3, <2>1, CleanupAccounts DEF FallBack, DelegationTypes, Accounted,
       Gated, Joined, Inherited, Phases, Modes
<1>4. CASE NoMode
  <2>1. CASE FallBack BY <1>3, <1>4, <2>1 DEF NoMode
  <2>2. CASE phase' = "failed" /\ UNCHANGED cmode /\ Kept
    BY <1>4, <2>2 DEF NoMode, DelegationTypes, Accounted, Gated, Joined,
                      Inherited, Phases
  <2> QED BY <1>4, <2>1, <2>2 DEF NoMode
<1>5. CASE UnsharePid
  <2>1. CASE FallBack BY <1>3, <1>5, <2>1 DEF UnsharePid
  <2>2. CASE phase' \in {"init", "failed"} /\ UNCHANGED cmode /\ Kept
    BY <1>5, <2>2 DEF UnsharePid, DelegationTypes, Accounted, Gated, Joined,
                      Inherited, Phases
  <2> QED BY <1>5, <2>1, <2>2 DEF UnsharePid
<1>6. CASE phase \in {"failed", "down"} /\ Leave
  <2>1. Cleanup(Hierarchies, mounted) BY <1>6 DEF Leave
  <2> QED
    BY <1>6, <2>1, CleanupAccounts, OffUnset DEF Leave, DelegationTypes,
       Accounted, Gated, Joined, Inherited, Phases, Modes
<1>7. CASE ForceStop
  <2>1. probe' \in BOOLEAN /\ (probe' => probe \/ phase = "probe")
    BY <1>7 DEF ForceStop, DelegationTypes
  <2> QED
    BY <1>7, <2>1, OffUnset DEF ForceStop, DelegationTypes, Accounted, Gated,
       Joined, Inherited, Phases, Modes
<1> QED BY <1>1, <1>2, <1>4, <1>5, <1>6, <1>7

(* Every step keeps the invariant; USB touches none of it.                 *)
LEMMA StepDelegates ==
    ASSUME DelegationInv, [Next]_vars PROVE DelegationInv'
<1>1. CASE UNCHANGED delegationVars
  BY <1>1 DEF delegationVars, kernelVars, DelegationInv, DelegationTypes,
              Accounted, Gated, Joined, Inherited, InitPlaces, CommandPlaces
<1>2. CASE Starts \/ Command \/ Stops \/ Ends
  BY <1>2, QuietDelegates DEF Starts, Command, Stops, Ends
<1>3. CASE Negotiates
  <2>1. CASE StartFails BY <2>1, RemovingDelegates DEF StartFails
  <2> QED
    BY <1>3, <2>1, QuietDelegates, MakingDelegates, RemovingDelegates
    DEF Negotiates, NegotiationStep
<1>4. CASE Leaves \/ IsForceStopped
  BY <1>4, RemovingDelegates DEF Leaves, IsForceStopped
<1>5. CASE \/ ScanBegins \/ ScanCannot \/ RetryDue \/ Restores
           \/ \E i \in Interfaces : Scans(i) \/ Hotplugs(i) \/ Claims(i)
  BY <1>1, <1>5 DEF ScanBegins, ScanCannot, RetryDue, Restores, Scans, Hotplugs,
                    Claims
<1>6. CASE UNCHANGED vars BY <1>1, <1>6 DEF vars
<1> QED BY <1>2, <1>3, <1>4, <1>5, <1>6 DEF Next

(* The invariant says what the properties say, and why.                    *)
LEMMA DelegationSuffices ==
    ASSUME DelegationInv
    PROVE  ReportedIsEnforced /\ AllowedUnlessLeftover /\ NothingLeftBehind
<1> USE DEF DelegationInv
<1>1. NothingLeftBehind
  BY DEF NothingLeftBehind, Accounted, DelegationTypes
<1>2. AllowedUnlessLeftover
  BY DEF AllowedUnlessLeftover, Inherited, Denied
<1>3. ReportedIsEnforced
  BY DEF ReportedIsEnforced, Gated, Joined, Denied, Hierarchy, InitPlaces,
         CommandPlaces
<1> QED BY <1>1, <1>2, <1>3

(* The bookkeeping of cgroups is invariant, for every bound.               *)
THEOREM DelegationHolds == Spec => []DelegationInv
<1>1. Init => DelegationInv BY InitDelegates DEF Init
<1>2. DelegationInv /\ [Next]_vars => DelegationInv' BY StepDelegates
<1> QED BY <1>1, <1>2, PTL DEF Spec

(* However many supervisors are started, fail, fall back, are stopped or   *)
(* killed: when none runs, or one runs in compatibility mode, every cgroup *)
(* that exists was left by a kill or held by a process at the cleanup.     *)
THEOREM CleansUp == Spec => []NothingLeftBehind
BY DelegationHolds, DelegationSuffices, PTL

(* The USB policy the launcher reports is enforced on init and commands.   *)
THEOREM Enforces == Spec => []ReportedIsEnforced
BY DelegationHolds, DelegationSuffices, PTL

(* Passthrough is denied only by the rule on a cgroup that an earlier      *)
(* instance left in the very hierarchy the process is in.                  *)
THEOREM Allows == Spec => []AllowedUnlessLeftover
BY DelegationHolds, DelegationSuffices, PTL

-----------------------------------------------------------------------------
(* The USB drivers.                                                        *)

(* The types of the passthrough's state; the table has one record for an   *)
(* interface.                                                              *)
UsbTypes ==
    /\ device \in [Interfaces -> Devices \cup {"none"}]
    /\ driver \in [Interfaces -> Devices \cup {"none", "usbfs"}]
    /\ \A i \in Interfaces : driver[i] \in {"none", "usbfs", device[i]}
    /\ records \in Seq(Record) /\ Len(records) <= MaxRecords
    /\ \A j, k \in DOMAIN records :
          records[j].interface = records[k].interface => j = k
    /\ todo \subseteq Interfaces
    /\ taken \subseteq Interfaces /\ failed \subseteq Interfaces
    /\ usurped \subseteq Interfaces /\ orphaned \subseteq Interfaces

(* What was taken is there and without its driver.                         *)
TakenIsFree ==
    \A i \in taken : device[i] \in Devices /\ driver[i] \in {"none", "usbfs"}

UsbInv == UsbTypes /\ TakenIsFree /\ TakenIsRecorded

(* find_usb_interface_record finds the interface's record if there is one. *)
LEMMA FindsRecord ==
    ASSUME UsbTypes, NEW i \in Interfaces
    PROVE  \/ /\ Find(i) \in DOMAIN records /\ Find(i) > 0
              /\ records[Find(i)].interface = i
           \/ /\ Find(i) = 0
              /\ \A k \in DOMAIN records : records[k].interface # i
<1>1. DOMAIN records \subseteq Nat \ {0} BY DEF UsbTypes
<1>2. CASE \E k \in DOMAIN records : records[k].interface = i
  <2>1. Find(i) \in DOMAIN records /\ records[Find(i)].interface = i
    BY <1>2 DEF Find
  <2> QED BY <1>1, <2>1
<1>3. CASE ~ \E k \in DOMAIN records : records[k].interface = i
  BY <1>3 DEF Find
<1> QED BY <1>2, <1>3

(* Recording an interface leaves the others' records, and one of its own.  *)
LEMMA RecordedKeepsOthers ==
    ASSUME UsbTypes, UsbAssumption,
           NEW r \in Record, Room(r.interface), Recorded(r)
    PROVE  /\ records' \in Seq(Record) /\ Len(records') <= MaxRecords
           /\ \A j, k \in DOMAIN records' :
                 records'[j].interface = records'[k].interface => j = k
           /\ \E k \in DOMAIN records' : records'[k] = r
           /\ \A k \in DOMAIN records : records[k].interface # r.interface =>
                 k \in DOMAIN records' /\ records'[k] = records[k]
<1> DEFINE f == Find(r.interface)
<1>1. r.interface \in Interfaces BY DEF Record
<1>2. CASE f > 0
  <2>1. f \in DOMAIN records /\ records[f].interface = r.interface
    BY <1>1, <1>2, FindsRecord
  <2>2. records' = [records EXCEPT ![f] = r] BY <1>2 DEF Recorded
  <2>3. /\ records' \in Seq(Record) /\ Len(records') = Len(records)
        /\ DOMAIN records' = DOMAIN records /\ records'[f] = r
        /\ \A k \in DOMAIN records : k # f => records'[k] = records[k]
    BY <2>1, <2>2 DEF UsbTypes
  <2> HIDE DEF f
  <2> QED BY <2>1, <2>3 DEF UsbTypes
<1>3. CASE ~(f > 0)
  <2>1. \A k \in DOMAIN records : records[k].interface # r.interface
    BY <1>1, <1>3, FindsRecord
  <2>2. records' = Append(records, r) BY <1>3 DEF Recorded
  <2>3. Len(records) < MaxRecords BY <1>3 DEF Room
  <2>4. /\ records' \in Seq(Record) /\ Len(records') = Len(records) + 1
        /\ DOMAIN records' = 1..(Len(records) + 1)
        /\ DOMAIN records = 1..Len(records)
        /\ records'[Len(records) + 1] = r
        /\ \A k \in 1..Len(records) : records'[k] = records[k]
    BY <2>2 DEF UsbTypes
  <2>5. Len(records) \in Nat /\ MaxRecords \in Nat BY DEF UsbTypes, UsbAssumption
  <2>6. ASSUME NEW j \in DOMAIN records', NEW k \in DOMAIN records',
               records'[j].interface = records'[k].interface
        PROVE  j = k
    <3>1. CASE j = Len(records) + 1 BY <3>1, <2>1, <2>4, <2>5, <2>6
    <3>2. CASE k = Len(records) + 1 BY <3>2, <2>1, <2>4, <2>5, <2>6
    <3>3. CASE j \in 1..Len(records) /\ k \in 1..Len(records)
      BY <3>3, <2>4, <2>6 DEF UsbTypes
    <3> QED BY <3>1, <3>2, <3>3, <2>4, <2>5
  <2>7. Len(records') <= MaxRecords BY <2>3, <2>4, <2>5
  <2>8. \E k \in DOMAIN records' : records'[k] = r
    <3>1. Len(records) + 1 \in DOMAIN records' BY <2>4, <2>5
    <3> QED BY <3>1, <2>4
  <2>9. DOMAIN records \subseteq DOMAIN records' BY <2>4, <2>5
  <2> QED BY <2>4, <2>6, <2>7, <2>8, <2>9
<1> QED BY <1>2, <1>3

(* Pruning keeps the records of the interfaces that are there.             *)
LEMMA PruneKeepsPresent ==
    ASSUME UsbTypes, UsbAssumption, Prune
    PROVE  /\ records' \in Seq(Record) /\ Len(records') <= MaxRecords
           /\ \A j, k \in DOMAIN records' :
                 records'[j].interface = records'[k].interface => j = k
           /\ \A k \in DOMAIN records : device[records[k].interface] # "none" =>
                 \E j \in DOMAIN records' : records'[j] = records[k]
<1> DEFINE kept == {k \in DOMAIN records : device[records[k].interface] # "none"}
<1>0. PICK n \in 0..Len(records) : \E from \in [1..n -> kept] :
           /\ \A k \in kept : \E j \in 1..n : from[j] = k
           /\ \A j, k \in 1..n : j < k => from[j] < from[k]
           /\ records' = [k \in 1..n |-> records[from[k]]]
  BY DEF Prune
<1>1. PICK from \in [1..n -> kept] :
           /\ \A k \in kept : \E j \in 1..n : from[j] = k
           /\ \A j, k \in 1..n : j < k => from[j] < from[k]
           /\ records' = [k \in 1..n |-> records[from[k]]]
  BY <1>0
<1>2. Len(records) \in Nat /\ MaxRecords \in Nat /\ DOMAIN records = 1..Len(records)
  BY DEF UsbTypes, UsbAssumption
<1>3. n \in Nat /\ n <= MaxRecords BY <1>0, <1>2 DEF UsbTypes
<1>4. \A k \in 1..n : from[k] \in DOMAIN records /\ records[from[k]] \in Record
  BY <1>1 DEF UsbTypes
<1>5. /\ DOMAIN records' = 1..n
      /\ \A k \in 1..n : records'[k] = records[from[k]]
  BY <1>1
<1>6. records' \in Seq(Record) /\ Len(records') = n
  BY <1>1, <1>3, <1>4
<1>7. ASSUME NEW j \in 1..n, NEW k \in 1..n,
             records'[j].interface = records'[k].interface
      PROVE  j = k
  <2>1. from[j] = from[k] BY <1>4, <1>5, <1>7 DEF UsbTypes
  <2>2. from[j] \in Nat /\ from[k] \in Nat BY <1>2, <1>4
  <2>3. ~(j < k) /\ ~(k < j) BY <1>1, <2>1, <2>2
  <2> QED BY <1>3, <2>3
<1>8. ASSUME NEW k \in DOMAIN records, device[records[k].interface] # "none"
      PROVE  \E j \in DOMAIN records' : records'[j] = records[k]
  <2>1. PICK j \in 1..n : from[j] = k BY <1>1, <1>8
  <2> QED BY <1>5, <2>1
<1> QED BY <1>3, <1>5, <1>6, <1>7, <1>8

(* A record that still stands keeps an interface recoverable.              *)
LEMMA StaysRecoverable ==
    ASSUME NEW i, Recoverable(i), device'[i] = device[i],
           \A k \in DOMAIN records : records[k].interface = i =>
               \E j \in DOMAIN records' : records'[j] = records[k]
    PROVE  Recoverable(i)'
<1>1. PICK k \in DOMAIN records :
         /\ records[k].interface = i /\ records[k].driver = device[i]
         /\ records[k].detached
  BY DEF Recoverable
<1>2. PICK j \in DOMAIN records' : records'[j] = records[k] BY <1>1
<1> QED BY <1>1, <1>2 DEF Recoverable

(* A scan begins, or cannot.                                               *)
LEMMA ScanStartKeeps ==
    ASSUME UsbInv, UsbAssumption, Prune, todo' \in {todo, Interfaces},
           UNCHANGED <<device, driver, ghosts, plugs>>
    PROVE  UsbInv'
<1> USE DEF UsbInv, ghosts
<1>1. UsbTypes' BY PruneKeepsPresent DEF UsbTypes
<1>2. TakenIsFree' BY DEF TakenIsFree
<1>3. ASSUME NEW i \in taken', i \notin failed' \cup usurped' \cup orphaned'
      PROVE  Recoverable(i)'
  <2>1. Recoverable(i) /\ device[i] # "none"
    BY <1>3 DEF TakenIsRecorded, TakenIsFree, UsbAssumption
  <2> QED BY <2>1, PruneKeepsPresent, StaysRecoverable
<1>4. TakenIsRecorded' BY <1>3 DEF TakenIsRecorded
<1> QED BY <1>1, <1>2, <1>4

(* One turn of the scan: what is taken is recorded in the same turn, and   *)
(* what was taken before and is met again is a claim of usbfs.             *)
LEMMA ScanTurnKeeps ==
    ASSUME UsbInv, UsbAssumption, NEW i \in Interfaces, ScanInterface(i)
    PROVE  UsbInv'
<1> USE DEF UsbInv
<1>1. /\ todo' = todo \ {i}
      /\ UNCHANGED <<device, failed, orphaned, plugs>>
  BY DEF ScanInterface
<1>2. CASE UNCHANGED <<driver, records, taken, usurped>>
  <2>1. UsbTypes' BY <1>1, <1>2 DEF UsbTypes
  <2>2. TakenIsFree' BY <1>1, <1>2 DEF TakenIsFree
  <2>3. TakenIsRecorded' BY <1>1, <1>2 DEF TakenIsRecorded, Recoverable
  <2> QED BY <2>1, <2>2, <2>3
<1>3. CASE /\ Claimable(i) /\ Room(i) /\ (Unbind(i) \/ UnbindFails(i))
           /\ usurped' = IF driver[i] = "usbfs"
                         THEN usurped \cup ({i} \cap taken) ELSE usurped
  <2>1. PICK r \in Record :
          /\ r.interface = i /\ r.driver = driver[i] /\ Recorded(r)
          /\ \/ r.detached /\ driver' = [driver EXCEPT ![i] = "none"]
                /\ taken' = IF driver[i] = device[i] THEN taken \cup {i} ELSE taken
             \/ UNCHANGED <<driver, taken>>
    <3>1. driver[i] \in Devices \cup {"usbfs"}
      BY <1>3 DEF Claimable, UsbTypes
    <3>2. CASE Unbind(i)
      <4> DEFINE r == [interface |-> i, driver |-> driver[i],
                       detached |-> TRUE, retry |-> FALSE]
      <4>1. r \in Record BY <3>1 DEF Record
      <4>2. Recorded(r) BY <3>2 DEF Unbind
      <4>3. r.interface = i /\ r.driver = driver[i] /\ r.detached OBVIOUS
      <4> HIDE DEF r
      <4> QED BY <3>2, <4>1, <4>2, <4>3 DEF Unbind
    <3>3. CASE UnbindFails(i)
      <4> DEFINE r == [interface |-> i, driver |-> driver[i],
                       detached |-> FALSE, retry |-> TRUE]
      <4>1. r \in Record BY <3>1 DEF Record
      <4>2. Recorded(r) BY <3>3 DEF UnbindFails
      <4>3. r.interface = i /\ r.driver = driver[i] OBVIOUS
      <4> HIDE DEF r
      <4> QED BY <3>3, <4>1, <4>2, <4>3 DEF UnbindFails
    <3> QED BY <1>3, <3>2, <3>3
  <2>2. /\ records' \in Seq(Record) /\ Len(records') <= MaxRecords
        /\ \A j, k \in DOMAIN records' :
              records'[j].interface = records'[k].interface => j = k
        /\ \E k \in DOMAIN records' : records'[k] = r
        /\ \A k \in DOMAIN records : records[k].interface # i =>
              k \in DOMAIN records' /\ records'[k] = records[k]
    BY <1>3, <2>1, RecordedKeepsOthers
  <2>3. UsbTypes'
    <3>1. /\ driver' \in [Interfaces -> Devices \cup {"none", "usbfs"}]
          /\ \A j \in Interfaces : driver'[j] \in {"none", driver[j]}
      BY <2>1 DEF UsbTypes
    <3>2. taken' \subseteq Interfaces /\ usurped' \subseteq Interfaces
      BY <1>3, <2>1 DEF UsbTypes
    <3> QED BY <1>1, <2>2, <3>1, <3>2 DEF UsbTypes
  <2>4. device[i] \in Devices
    BY <1>3 DEF Claimable, UsbAssumption
  <2>5. TakenIsFree'
    BY <1>1, <2>1, <2>4 DEF TakenIsFree, UsbTypes
  <2>6. ASSUME NEW j \in taken', j \notin failed' \cup usurped' \cup orphaned'
        PROVE  Recoverable(j)'
    <3>1. CASE j # i
      <4>1. j \in taken /\ Recoverable(j)
        BY <1>1, <1>3, <2>1, <2>6, <3>1 DEF TakenIsRecorded
      <4> QED BY <1>1, <2>2, <3>1, <4>1, StaysRecoverable
    <3>2. CASE j = i
      <4>1. i \notin taken
        BY <1>3, <2>6, <3>2 DEF TakenIsFree, Claimable
      <4>2. r.detached /\ driver[i] = device[i]
        BY <2>1, <2>6, <3>2, <4>1
      <4>3. r.interface = i /\ r.driver = device'[i] BY <1>1, <2>1, <4>2
      <4> QED BY <2>2, <3>2, <4>2, <4>3 DEF Recoverable
    <3> QED BY <3>1, <3>2
  <2>7. TakenIsRecorded' BY <2>6 DEF TakenIsRecorded
  <2> QED BY <2>3, <2>5, <2>7
<1> QED BY <1>2, <1>3 DEF ScanInterface

(* The time to try an unbind again has come.                               *)
LEMMA RetryKeeps == ASSUME UsbInv, RetryElapses PROVE UsbInv'
<1> USE DEF UsbInv, ghosts
<1>1. PICK k \in DOMAIN records : records' = [records EXCEPT ![k].retry = FALSE]
  BY DEF RetryElapses
<1>2. UNCHANGED <<device, driver, todo, ghosts>> BY DEF RetryElapses
<1>3. /\ records' \in Seq(Record) /\ Len(records') = Len(records)
      /\ DOMAIN records' = DOMAIN records
      /\ \A j \in DOMAIN records :
            /\ records'[j].interface = records[j].interface
            /\ records'[j].driver = records[j].driver
            /\ records'[j].detached = records[j].detached
  <2>1. records[k] \in Record BY DEF UsbTypes
  <2>2. [records[k] EXCEPT !.retry = FALSE] \in Record BY <2>1 DEF Record
  <2>3. /\ [records[k] EXCEPT !.retry = FALSE].interface = records[k].interface
        /\ [records[k] EXCEPT !.retry = FALSE].driver = records[k].driver
        /\ [records[k] EXCEPT !.retry = FALSE].detached = records[k].detached
    BY <2>1 DEF Record
  <2>4. records' = [records EXCEPT ![k] = [records[k] EXCEPT !.retry = FALSE]]
    BY <1>1
  <2> QED BY <2>2, <2>3, <2>4 DEF UsbTypes
<1>4. UsbTypes' BY <1>2, <1>3 DEF UsbTypes
<1>5. TakenIsFree' BY <1>2 DEF TakenIsFree
<1>6. TakenIsRecorded' BY <1>2, <1>3 DEF TakenIsRecorded, Recoverable
<1> QED BY <1>4, <1>5, <1>6

(* A driver is given back to what the last record is about; what is not    *)
(* given back was refused, or is claimed by a program in Debian.           *)
LEMMA RestoreKeeps == ASSUME UsbInv, UsbAssumption, RestoreRecord PROVE UsbInv'
<1> USE DEF UsbInv
<1> DEFINE n == Len(records)
           r == records[n]
           i == r.interface
<1>1. n \in Nat /\ n > 0 /\ DOMAIN records = 1..n /\ n \in DOMAIN records
  BY DEF RestoreRecord, UsbTypes
<1>2. r \in Record /\ i \in Interfaces
  <2>1. records \in Seq(Record) BY DEF UsbTypes
  <2>2. \A k \in DOMAIN records : records[k] \in Record BY <2>1
  <2>3. r \in Record BY <1>1, <2>2
  <2> QED BY <2>3 DEF Record
<1>3. /\ records' \in Seq(Record) /\ Len(records') = n - 1
      /\ DOMAIN records' = 1..(n - 1)
      /\ \A k \in 1..(n - 1) : records'[k] = records[k]
  <2>1. records' = SubSeq(records, 1, n - 1) BY DEF RestoreRecord, Front
  <2> QED BY <1>1, <2>1 DEF UsbTypes
<1>4. UNCHANGED <<device, todo, orphaned>> BY DEF RestoreRecord
<1>5. \/ /\ NeedsBind(r) /\ r.driver = device[i]
         /\ driver' = [driver EXCEPT ![i] = device[i]]
         /\ taken' = taken \ {i} /\ usurped' = usurped \ {i} /\ failed' = failed
      \/ /\ UNCHANGED <<driver, taken>>
         /\ \/ /\ NeedsBind(r) /\ usurped' = usurped
               /\ failed' = IF r.driver = device[i] THEN failed \cup {i}
                                                    ELSE failed
            \/ /\ ~NeedsBind(r) /\ failed' = failed
               /\ usurped' = IF driver[i] = "usbfs"
                             THEN usurped \cup ({i} \cap taken) ELSE usurped
  BY DEF RestoreRecord, Last
<1>6. \A k \in 1..(n - 1) : records[k].interface # i
  BY <1>1 DEF UsbTypes
<1> HIDE DEF n, r, i
<1>7. UsbTypes'
  <2>1. /\ driver' \in [Interfaces -> Devices \cup {"none", "usbfs"}]
        /\ \A j \in Interfaces : driver'[j] \in {driver[j], device[j]}
    BY <1>2, <1>5 DEF UsbTypes
  <2>2. /\ taken' \subseteq Interfaces /\ usurped' \subseteq Interfaces
        /\ failed' \subseteq Interfaces
    BY <1>2, <1>5 DEF UsbTypes
  <2>3. Len(records') <= MaxRecords
    BY <1>1, <1>3 DEF UsbTypes, UsbAssumption, n
  <2>4. \A j, k \in DOMAIN records' :
          records'[j].interface = records'[k].interface => j = k
    BY <1>1, <1>3 DEF UsbTypes
  <2> QED BY <1>3, <1>4, <2>1, <2>2, <2>3, <2>4 DEF UsbTypes
<1>8. TakenIsFree'
  BY <1>2, <1>4, <1>5 DEF TakenIsFree, UsbTypes
<1>9. ASSUME NEW j \in taken', j \notin failed' \cup usurped' \cup orphaned'
      PROVE  Recoverable(j)'
  <2>1. j \in taken /\ (j # i => j \notin failed \cup usurped \cup orphaned)
    BY <1>4, <1>5, <1>9
  <2>2. CASE j # i
    <3>1. Recoverable(j) BY <2>1, <2>2 DEF TakenIsRecorded
    <3>2. \A k \in DOMAIN records : records[k].interface = j =>
             k \in DOMAIN records' /\ records'[k] = records[k]
      BY <1>1, <1>3, <2>2 DEF i, r
    <3> QED BY <1>4, <3>1, <3>2, StaysRecoverable
  <2>3. CASE j = i
    <3>1. j \notin failed \cup usurped \cup orphaned
      BY <1>4, <1>5, <1>9, <2>3
    <3>2. Recoverable(i) BY <2>1, <2>3, <3>1 DEF TakenIsRecorded
    <3>3. r.driver = device[i] /\ r.detached
      <4>1. PICK k \in DOMAIN records :
               /\ records[k].interface = i /\ records[k].driver = device[i]
               /\ records[k].detached
        BY <3>2 DEF Recoverable
      <4>2. k = n BY <1>1, <1>6, <4>1
      <4> QED BY <4>1, <4>2 DEF r
    <3>4. device[i] # "none" /\ driver[i] \in {"none", "usbfs"}
      BY <2>1, <2>3 DEF TakenIsFree, UsbAssumption
    <3>5. driver[i] = "none" => NeedsBind(r)
      BY <3>3, <3>4 DEF NeedsBind, i
    <3> QED BY <1>5, <1>9, <2>1, <2>3, <3>3, <3>4, <3>5
  <2> QED BY <2>2, <2>3
<1>10. TakenIsRecorded' BY <1>9 DEF TakenIsRecorded
<1> QED BY <1>7, <1>8, <1>10

(* The kernel and Debian: hot-plugging, claims and their release.          *)
LEMMA HotPlugKeeps ==
    ASSUME UsbInv, UsbAssumption, NEW i \in Interfaces, HotPlug(i) PROVE UsbInv'
<1> USE DEF UsbInv
<1>1. /\ taken' = taken \ {i} /\ failed' = failed \ {i}
      /\ usurped' = usurped \ {i} /\ orphaned' = orphaned \ {i}
      /\ UNCHANGED <<records, todo>>
  BY DEF HotPlug
<1>2. PICK d \in Devices \cup {"none"} :
         device' = [device EXCEPT ![i] = d] /\ driver' = [driver EXCEPT ![i] = d]
  <2>1. PICK d \in Devices \cup {"none"} : device' = [device EXCEPT ![i] = d]
    BY DEF HotPlug
  <2>2. device'[i] = d BY <2>1 DEF UsbTypes
  <2> QED BY <2>1, <2>2 DEF HotPlug
<1>3. UsbTypes' BY <1>1, <1>2 DEF UsbTypes
<1>4. TakenIsFree' BY <1>1, <1>2 DEF TakenIsFree, UsbTypes
<1>5. ASSUME NEW j \in taken', j \notin failed' \cup usurped' \cup orphaned'
      PROVE  Recoverable(j)'
  <2>1. Recoverable(j) /\ device'[j] = device[j]
    BY <1>1, <1>2, <1>5 DEF TakenIsRecorded, UsbTypes
  <2> QED BY <1>1, <2>1, StaysRecoverable
<1>6. TakenIsRecorded' BY <1>5 DEF TakenIsRecorded
<1> QED BY <1>3, <1>4, <1>6

(* A driver that only changes between none and usbfs is no driver of ours. *)
LEMMA ClaimsKeep ==
    ASSUME UsbInv, UsbAssumption,
           driver' \in [Interfaces -> Devices \cup {"none", "usbfs"}],
           \A i \in Interfaces :
               \/ driver'[i] = driver[i]
               \/ driver[i] \in {"none", "usbfs"} /\ driver'[i] \in {"none", "usbfs"},
           UNCHANGED <<device, records, todo, ghosts>>
    PROVE  UsbInv'
<1> USE DEF UsbInv, ghosts
<1>1. UsbTypes' BY DEF UsbTypes
<1>2. TakenIsFree' BY DEF TakenIsFree, UsbTypes
<1>3. TakenIsRecorded' BY DEF TakenIsRecorded, Recoverable
<1> QED BY <1>1, <1>2, <1>3

(* The supervisor is killed: its table is lost, what it took is orphaned.  *)
LEMMA KillKeeps ==
    ASSUME UsbInv, UsbAssumption, IsForceStopped PROVE UsbInv'
<1> USE DEF UsbInv
<1>1. /\ records' = <<>> /\ todo' = {} /\ orphaned' = taken
      /\ UNCHANGED <<device, taken, failed, usurped>>
      /\ ReleaseClaims \/ UNCHANGED driver
  BY DEF IsForceStopped
<1>2. /\ driver' \in [Interfaces -> Devices \cup {"none", "usbfs"}]
      /\ \A i \in Interfaces :
            \/ driver'[i] = driver[i]
            \/ driver[i] = "usbfs" /\ driver'[i] = "none"
  BY <1>1 DEF ReleaseClaims, UsbTypes
<1>3. UsbTypes' BY <1>1, <1>2 DEF UsbTypes, UsbAssumption
<1>4. TakenIsFree' BY <1>1, <1>2 DEF TakenIsFree, UsbTypes
<1>5. TakenIsRecorded' BY <1>1 DEF TakenIsRecorded
<1> QED BY <1>3, <1>4, <1>5

(* Every step keeps the records true.                                      *)
LEMMA StepRecords ==
    ASSUME UsbInv, UsbAssumption, [Next]_vars PROVE UsbInv'
<1>1. CASE UNCHANGED usbVars
  BY <1>1 DEF usbVars, ghosts, UsbInv, UsbTypes, TakenIsFree, TakenIsRecorded,
              Recoverable
<1>2. CASE Starts \/ Negotiates \/ Command \/ Stops \/ Leaves \/ UNCHANGED vars
  BY <1>1, <1>2 DEF Starts, Negotiates, Command, Stops, Leaves, vars
<1>3. CASE ScanBegins
  BY <1>3, ScanStartKeeps DEF ScanBegins, ScanStarts
<1>4. CASE ScanCannot
  BY <1>4, ScanStartKeeps DEF ScanCannot, ScanFails
<1>5. CASE RetryDue BY <1>5, RetryKeeps DEF RetryDue
<1>6. CASE Restores BY <1>6, RestoreKeeps DEF Restores
<1>7. CASE IsForceStopped BY <1>7, KillKeeps
<1>8. CASE Ends
  <2>1. /\ driver' \in [Interfaces -> Devices \cup {"none", "usbfs"}]
        /\ \A i \in Interfaces :
              \/ driver'[i] = driver[i]
              \/ driver[i] = "usbfs" /\ driver'[i] = "none"
    BY <1>8 DEF Ends, ReleaseClaims, UsbInv, UsbTypes
  <2> QED BY <1>8, <2>1, ClaimsKeep DEF Ends
<1>9. ASSUME NEW i \in Interfaces, Scans(i) \/ Hotplugs(i) \/ Claims(i)
      PROVE  UsbInv'
  <2>1. CASE Scans(i) BY <2>1, ScanTurnKeeps DEF Scans
  <2>2. CASE Hotplugs(i) BY <2>2, HotPlugKeeps DEF Hotplugs
  <2>3. CASE Claims(i)
    <3>1. /\ driver' \in [Interfaces -> Devices \cup {"none", "usbfs"}]
          /\ \A j \in Interfaces :
                \/ driver'[j] = driver[j]
                \/ /\ driver[j] \in {"none", "usbfs"}
                   /\ driver'[j] \in {"none", "usbfs"}
      BY <2>3 DEF Claims, ClaimInterface, UsbInv, UsbTypes
    <3> QED BY <2>3, <3>1, ClaimsKeep DEF Claims, ClaimInterface
  <2> QED BY <1>9, <2>1, <2>2, <2>3
<1> QED BY <1>2, <1>3, <1>4, <1>5, <1>6, <1>7, <1>8, <1>9 DEF Next

(* At first nothing is taken.                                              *)
LEMMA InitRecords == ASSUME UsbAssumption, UsbInit PROVE UsbInv
<1>1. device \in [Interfaces -> Devices \cup {"none"}]
  BY DEF UsbInit, UsbAssumption
<1> QED
  BY <1>1 DEF UsbInit, UsbAssumption, UsbInv, UsbTypes, TakenIsFree,
              TakenIsRecorded

(* The bookkeeping of drivers is invariant, for every bound.               *)
THEOREM UsbHolds == Spec => []UsbInv
<1>1. Init => UsbInv BY UsbAssumption, InitRecords DEF Init
<1>2. UsbInv /\ [Next]_vars => UsbInv' BY UsbAssumption, StepRecords
<1> QED BY <1>1, <1>2, PTL DEF Spec

(* Every driver a supervisor took is in its table, ready to be given back, *)
(* until it was given back, the kernel refused it, a program in Debian had *)
(* claimed the interface or the supervisor was killed: for any number of   *)
(* interfaces and devices, any hot-plugging and any size of the table.     *)
THEOREM TakenAlwaysRecorded == Spec => []TakenIsRecorded
<1>1. UsbInv => TakenIsRecorded BY DEF UsbInv
<1> QED BY <1>1, UsbHolds, PTL

(* Every variable of the host keeps its type; the table never overflows.   *)
THEOREM HostTypes == Spec => []TypeOK
<1>1. DelegationInv /\ UsbInv => TypeOK
  BY DEF DelegationInv, DelegationTypes, UsbInv, UsbTypes, TypeOK
<1> QED BY <1>1, DelegationHolds, UsbHolds, PTL
=============================================================================
