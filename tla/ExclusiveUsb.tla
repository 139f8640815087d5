----------------------------- MODULE ExclusiveUsb -----------------------------
(***************************************************************************)
(* Exclusive USB passthrough (reconcile_exclusive_usb and                  *)
(* restore_exclusive_usb in bfu_namespace_probe.c): while Debian runs the  *)
(* supervisor takes the kernel driver from every interface of a listed     *)
(* device, remembers it, and gives it back when Debian has ended.          *)
(*                                                                         *)
(* Interfaces are sysfs names, so another device may come to carry the name*)
(* of one that was unplugged.  One turn of the scan's loop (ID, driver,    *)
(* record, unbind) is one step; a device does not change during it.        *)
(***************************************************************************)
EXTENDS Naturals, Sequences, SequencesExt

CONSTANTS
    Interfaces,     \* names of USB interfaces in sysfs
    Devices,        \* devices that may be plugged in
    AtBoot,         \* devices that may be there from the beginning
    Filter,         \* devices whose VID:PID is in the allowlist
    MaxRecords,     \* MAX_USB_INTERFACE_RECORDS, 64 in the code
    MaxPlugs        \* bound on the hot-plug events

ASSUME UsbAssumption ==
    /\ Filter \subseteq Devices /\ AtBoot \subseteq Devices
    /\ "none" \notin Devices /\ "usbfs" \notin Devices
    /\ MaxRecords \in Nat \ {0} /\ MaxPlugs \in Nat

VARIABLES
    device,     \* the device each interface belongs to, or none
    driver,     \* the driver it is bound to: the device's own, usbfs or none
    records,    \* ExclusiveUsbState: interface, driver, detached, retry
    todo,       \* interfaces the scan under way has still to visit
    taken,      \* interfaces a supervisor took the device's own driver from
    failed,     \* of these, the ones the kernel refused to bind again
    usurped,    \* of these, the ones usbfs took the place of in the record,
                \* or was met on when the driver was to be given back
    orphaned,   \* of these, the ones whose supervisor was killed
    plugs

ghosts == <<taken, failed, usurped, orphaned>>
usbVars == <<device, driver, records, todo, ghosts, plugs>>

Record == [interface : Interfaces, driver : Devices \cup {"usbfs"},
           detached : BOOLEAN, retry : BOOLEAN]

UsbInit ==
    /\ device \in [Interfaces -> AtBoot \cup {"none"}]
    /\ driver = device
    /\ records = <<>> /\ todo = {} /\ plugs = 0
    /\ taken = {} /\ failed = {} /\ usurped = {} /\ orphaned = {}

-----------------------------------------------------------------------------
(* The kernel and Debian (external)                                        *)

(* A device appears and the kernel binds its driver, or it disappears.     *)
HotPlug(i) ==
    /\ plugs < MaxPlugs
    /\ plugs' = plugs + 1
    /\ IF device[i] = "none"
       THEN \E d \in Devices : device' = [device EXCEPT ![i] = d]
       ELSE device' = [device EXCEPT ![i] = "none"]
    /\ driver' = [driver EXCEPT ![i] = device'[i]]
    /\ taken' = taken \ {i} /\ failed' = failed \ {i}
    /\ usurped' = usurped \ {i} /\ orphaned' = orphaned \ {i}
    /\ UNCHANGED <<records, todo>>

(* A program in Debian claims a free interface through /dev/bus/usb, which *)
(* binds it to the kernel's usbfs driver, and releases it.                 *)
ClaimInterface(i) ==
    /\ device[i] # "none"
    /\ \/ driver[i] = "none" /\ driver' = [driver EXCEPT ![i] = "usbfs"]
       \/ driver[i] = "usbfs" /\ driver' = [driver EXCEPT ![i] = "none"]
    /\ UNCHANGED <<device, records, todo, ghosts, plugs>>

(* All processes of Debian are gone, and their claims with them.           *)
ReleaseClaims ==
    driver' = [i \in Interfaces |->
                  IF driver[i] = "usbfs" THEN "none" ELSE driver[i]]

-----------------------------------------------------------------------------
(* find_usb_interface_record; 0 where the code has -1.                     *)
Find(i) ==
    IF \E k \in DOMAIN records : records[k].interface = i
    THEN CHOOSE k \in DOMAIN records : records[k].interface = i
    ELSE 0

(* prune_disconnected_usb_interfaces: the records of what is still there   *)
(* move up, in their order.                                                *)
Prune ==
    LET kept == {k \in DOMAIN records : device[records[k].interface] # "none"}
    IN \E n \in 0..Len(records) : \E from \in [1..n -> kept] :
           /\ \A k \in kept : \E j \in 1..n : from[j] = k
           /\ \A j, k \in 1..n : j < k => from[j] < from[k]
           /\ records' = [k \in 1..n |-> records[from[k]]]

(* A scan, unless the directory cannot be opened.                          *)
ScanStarts ==
    /\ todo = {}
    /\ Prune
    /\ todo' = Interfaces
    /\ UNCHANGED <<device, driver, ghosts, plugs>>

ScanFails ==
    /\ todo = {}
    /\ Prune
    /\ UNCHANGED <<device, driver, todo, ghosts, plugs>>

(* Mutant of Room: one record too many.                                    *)
RoomOneMore(i) == Find(i) > 0 \/ Len(records) <= MaxRecords

(* get_or_create_usb_interface_record returns a record.                    *)
Room(i) == Find(i) > 0 \/ Len(records) < MaxRecords

(* Mutant of Recorded: a record keeps the driver it was made with.         *)
RecordedOnce(r) ==
    LET k == Find(r.interface)
    IN records' = IF k > 0 THEN [records EXCEPT ![k].detached = r.detached,
                                                ![k].retry = r.retry]
                           ELSE Append(records, r)

Recorded(r) ==
    LET k == Find(r.interface)
    IN records' = IF k > 0 THEN [records EXCEPT ![k] = r]
                           ELSE Append(records, r)

(* The outcome of the unbind, as it is recorded.                           *)
Unbind(i) ==
    /\ driver' = [driver EXCEPT ![i] = "none"]
    /\ Recorded([interface |-> i, driver |-> driver[i], detached |-> TRUE,
                 retry |-> FALSE])
    /\ taken' = IF driver[i] = device[i] THEN taken \cup {i} ELSE taken

UnbindFails(i) ==
    /\ Recorded([interface |-> i, driver |-> driver[i], detached |-> FALSE,
                 retry |-> TRUE])
    /\ UNCHANGED <<driver, taken>>

(* The device is listed and a driver is bound to the interface.            *)
Claimable(i) == device[i] \in Filter /\ driver[i] # "none"

(* Mutant of Waiting: what has a record is taken to be done.               *)
WaitingIfRecorded(i) == Find(i) > 0

(* The last unbind failed, less than 30 seconds ago.                       *)
Waiting(i) == Find(i) > 0 /\ records[Find(i)].retry

(* One turn of the loop over /sys/bus/usb/devices.                         *)
ScanInterface(i) ==
    /\ i \in todo
    /\ todo' = todo \ {i}
    /\ \/ /\ ~Claimable(i) \/ ~Room(i) \/ Waiting(i)
          /\ UNCHANGED <<driver, records, taken, usurped>>
       \/ /\ Claimable(i) /\ Room(i) /\ ~Waiting(i)
          /\ Unbind(i) \/ UnbindFails(i)
          /\ usurped' = IF driver[i] = "usbfs" THEN usurped \cup ({i} \cap taken)
                                               ELSE usurped
    /\ UNCHANGED <<device, failed, orphaned, plugs>>

RetryElapses ==
    /\ \E k \in DOMAIN records :
          records[k].retry /\ records' = [records EXCEPT ![k].retry = FALSE]
    /\ UNCHANGED <<device, driver, todo, ghosts, plugs>>

-----------------------------------------------------------------------------
(* Restored are interfaces that were detached, are there and have no other *)
(* driver by now.                                                          *)
NeedsBind(r) ==
    r.detached /\ device[r.interface] # "none" /\ driver[r.interface] = "none"

(* restore_exclusive_usb, one record, from the last to the first.  The     *)
(* kernel binds a driver only to a device it is for, and may fail to.      *)
RestoreRecord ==
    LET r == Last(records)
        i == r.interface
    IN /\ records # <<>>
       /\ records' = Front(records)
       /\ \/ /\ NeedsBind(r) /\ r.driver = device[i]
             /\ driver' = [driver EXCEPT ![i] = r.driver]
             /\ taken' = taken \ {i} /\ usurped' = usurped \ {i}
             /\ UNCHANGED failed
          \/ /\ NeedsBind(r)
             /\ failed' = IF r.driver = device[i] THEN failed \cup {i}
                                                  ELSE failed
             /\ UNCHANGED <<driver, taken, usurped>>
          \/ /\ ~NeedsBind(r)
             /\ usurped' = IF driver[i] = "usbfs" THEN usurped \cup ({i} \cap taken)
                                                  ELSE usurped
             /\ UNCHANGED <<driver, taken, failed>>
       /\ UNCHANGED <<device, todo, orphaned, plugs>>

-----------------------------------------------------------------------------
Recoverable(i) ==
    \E k \in DOMAIN records :
        /\ records[k].interface = i
        /\ records[k].driver = device[i]
        /\ records[k].detached

(* Every driver the supervisor took is in its table, ready to be given     *)
(* back, until it was given back: also when the table is full, a device was*)
(* swapped for another on the same port, or an unbind failed and is tried  *)
(* again.  What stays taken was refused by the kernel, lost with a killed  *)
(* supervisor, or is an interface a program in Debian had claimed.         *)
TakenIsRecorded ==
    \A i \in taken \ (failed \cup usurped \cup orphaned) : Recoverable(i)
=============================================================================
