------------------------ MODULE BootService_proofs ------------------------
(***************************************************************************)
(* Proofs about BootService, for any number of intents.                    *)
(***************************************************************************)
EXTENDS BootService, SequenceTheorems, TLAPS

(* The background work that waits or runs.                                 *)
Work == Range(bgQueue) \cup {bg.task}

(* No kind of background work waits twice, or waits while it runs.         *)
QueueIsSet ==
    /\ bgQueue \in Seq(BgTasks)
    /\ IsInjective(bgQueue)
    /\ bg.task \notin Range(bgQueue)

(* Every request was asked for by an intent; the one the startup checks    *)
(* make was paid for by the intent that queued them.                       *)
RequestsArePaid ==
    /\ intents \in 0..MaxIntents /\ requestId \in Nat /\ generation \in Nat
    /\ generation <= requestId
    /\ requestId + (IF "startup" \in Work THEN 1 ELSE 0) <= intents

(* Where a background task can be.                                         *)
BgShape ==
    /\ bg \in [task : BgTasks \cup {"none"}, pc : BgPcs, gen : Nat]
    /\ bg.gen <= generation
    /\ bg.task = "none" <=> bg.pc = "idle"
    /\ bg.pc \in {"checks", "autostart"} => bg.task = "startup"
    /\ bg.pc = "install" => bg.task = "install"
    /\ bg.pc \in {"presence", "verify", "rm"} => bg.task = "remove"
    /\ bg.pc \in {"configure", "start"} => bg.task = "configure"
    /\ bg.pc = "stop" => bg.task \in {"configure", "remove"}

(* A flag of the background executor is up while its work exists.          *)
WorkIsFlagged ==
    /\ flag \in [BgTasks \cup {"lifecycle", "docker"} -> BOOLEAN]
    /\ \A t \in BgTasks : t \in Work => flag[t]
    /\ \A t \in BgTasks \ {"startup"} : flag[t] => t \in Work

(* Where a lifecycle task can be.                                          *)
LcShape ==
    /\ lc \in [id : Nat, op : Operations \cup Settings \cup {"none"},
               pc : LcPcs, interrupted : BOOLEAN, was : BOOLEAN]
    /\ lc.pc = "idle" => lc = LcIdle
    /\ lc.pc # "idle" => lc.id \in 1..requestId
    /\ lc.pc # "idle" => lc.op # "none"
    /\ lc.pc = "migrate" => lc.op = "START"
    /\ lc.pc \in {"command", "health"} => lc.op \in Operations
    /\ lc.pc \in {"stop", "apply", "start"} => lc.op \in Settings
    /\ lc.was => lc.op \in Settings

(* Only the latest request can wait, and its future is the one not done.   *)
LatestIsPending ==
    /\ queued \in {NoTask} \cup [id : Nat, op : Operations \cup Settings]
    /\ futureDone \in BOOLEAN /\ active \in Operations \cup {"none"}
    /\ queued # NoTask =>
          queued.id = requestId /\ requestId # 0 /\ lc.id # requestId
    /\ ~futureDone <=> \/ queued # NoTask
                       \/ lc.id = requestId /\ lc.pc # "idle"

(* A stop that waits or runs is the active request, and nothing is queued  *)
(* behind it.                                                              *)
StopIsKept ==
    /\ queued.op \in {"STOP", "FORCE_STOP"} => active = queued.op
    /\ lc.op \in {"STOP", "FORCE_STOP"} /\ lc.pc # "return" =>
          active = lc.op /\ lc.id = requestId /\ queued = NoTask

(* What is left to do after a stop that holds: no step of it starts Debian.*)
SettledIsQuiet ==
    settled =>
        /\ debian = "down"
        /\ \A o \in orphans : o[2] \notin {"START", "RESTART"}
        /\ queued.op \notin {"START", "RESTART"}
        /\ lc.op \in {"START", "RESTART"} =>
              lc.pc \in {"health", "finally", "clear", "return"}
        /\ ~lc.was /\ lc.pc # "start"
        /\ bg.pc \notin {"autostart", "start"}
        /\ bg.task \in {"startup", "configure"} => Suppressed
        /\ Range(bgQueue) \cap {"startup", "configure"} = {}

(* The rest of the device.                                                 *)
DeviceOK ==
    /\ unlocked \in BOOLEAN /\ settled \in BOOLEAN
    /\ \A o \in orphans : o \in (0..requestId) \X Operations
    /\ debian \in {"up", "down"} /\ rootfs \in {"absent", "present"}

BootInv ==
    /\ QueueIsSet /\ RequestsArePaid /\ BgShape /\ WorkIsFlagged
    /\ LcShape /\ LatestIsPending /\ LifecycleFlagIsLatest /\ StopIsKept
    /\ SettledIsQuiet /\ DeviceOK

-----------------------------------------------------------------------------
(* The queue of `executor`.                                                *)

(* A task that does not wait yet joins the others.                         *)
LEMMA QueueGrows ==
  ASSUME NEW q \in Seq(BgTasks), IsInjective(q), NEW t \in BgTasks,
         t \notin Range(q)
  PROVE  /\ Append(q, t) \in Seq(BgTasks)
         /\ IsInjective(Append(q, t))
         /\ Range(Append(q, t)) = Range(q) \cup {t}
<1> DEFINE r == Append(q, t)
           n == Len(q)
<1>1. /\ n \in Nat /\ DOMAIN q = 1..n
      /\ r \in Seq(BgTasks) /\ DOMAIN r = 1..(n + 1)
      /\ \A i \in 1..n : r[i] = q[i]
      /\ r[n + 1] = t
  OBVIOUS
<1>2. \A i \in 1..(n + 1) : i \in 1..n \/ i = n + 1
  BY <1>1
<1>3. /\ n + 1 \in 1..(n + 1) /\ 1..n \subseteq 1..(n + 1)
  BY <1>1
<1> HIDE DEF r, n
<1>4. Range(r) = Range(q) \cup {t}
  BY <1>1, <1>2, <1>3 DEF Range
<1>5. \A i \in 1..n : q[i] # t
  BY <1>1 DEF Range
<1>6. IsInjective(r)
  BY <1>1, <1>2, <1>5 DEF IsInjective
<1> QED
  BY <1>1, <1>4, <1>6 DEF r

(* The first task leaves the others behind.                                *)
LEMMA QueueShrinks ==
  ASSUME NEW q \in Seq(BgTasks), IsInjective(q), q # <<>>
  PROVE  /\ Head(q) \in BgTasks /\ Head(q) \in Range(q)
         /\ Tail(q) \in Seq(BgTasks)
         /\ IsInjective(Tail(q))
         /\ Range(Tail(q)) = Range(q) \ {Head(q)}
<1> DEFINE r == Tail(q)
           n == Len(q)
<1>1. /\ n \in Nat /\ n >= 1 /\ DOMAIN q = 1..n /\ Head(q) = q[1]
      /\ Head(q) \in BgTasks
      /\ r \in Seq(BgTasks) /\ DOMAIN r = 1..(n - 1)
      /\ \A i \in 1..(n - 1) : r[i] = q[i + 1]
  BY HeadTailProperties, EmptySeq
<1>2. /\ 1 \in 1..n
      /\ \A i \in 1..(n - 1) : i + 1 \in 1..n /\ i + 1 # 1
      /\ \A i \in 1..n : i # 1 => i - 1 \in 1..(n - 1) /\ (i - 1) + 1 = i
      /\ \A i, j \in 1..(n - 1) : i + 1 = j + 1 => i = j
  BY <1>1
<1> HIDE DEF r, n
<1>3. IsInjective(r)
  <2>1. ASSUME NEW i \in 1..(n - 1), NEW j \in 1..(n - 1), r[i] = r[j]
        PROVE  i = j
    <3>1. q[i + 1] = q[j + 1] /\ i + 1 \in 1..n /\ j + 1 \in 1..n
      BY <1>1, <1>2, <2>1
    <3>2. i + 1 = j + 1
      BY <1>1, <3>1 DEF IsInjective
    <3> QED
      BY <1>2, <3>2
  <2> QED
    BY <1>1, <2>1 DEF IsInjective
<1>4. Head(q) \in Range(q)
  BY <1>1, <1>2 DEF Range
<1>5. ASSUME NEW x \in Range(r)
      PROVE  x \in Range(q) /\ x # Head(q)
  <2>1. PICK i \in 1..(n - 1) : x = q[i + 1]
    BY <1>1, <1>5 DEF Range
  <2> QED
    BY <1>1, <1>2, <2>1 DEF Range, IsInjective
<1>6. ASSUME NEW x \in Range(q), x # Head(q)
      PROVE  x \in Range(r)
  <2>1. PICK i \in 1..n : x = q[i]
    BY <1>1, <1>6 DEF Range
  <2>2. i # 1
    BY <1>1, <1>6, <2>1
  <2>3. i - 1 \in 1..(n - 1) /\ r[i - 1] = q[i]
    BY <1>1, <1>2, <2>2
  <2> QED
    BY <1>1, <2>1, <2>3 DEF Range
<1> QED
  BY <1>1, <1>3, <1>4, <1>5, <1>6 DEF r

(* There are four kinds of background work, so at most four tasks wait.    *)
LEMMA QueueIsShort ==
  ASSUME NEW q \in Seq(BgTasks), IsInjective(q)
  PROVE  Len(q) <= 4 /\ Range(q) \subseteq BgTasks
<1>1. Len(q) \in Nat /\ DOMAIN q = 1..Len(q) /\ \A i \in 1..Len(q) : q[i] \in BgTasks
  BY LenProperties
<1>2. ASSUME Len(q) > 4
      PROVE  FALSE
  <2>1. 1 \in DOMAIN q /\ 2 \in DOMAIN q /\ 3 \in DOMAIN q /\ 4 \in DOMAIN q
        /\ 5 \in DOMAIN q
    BY <1>1, <1>2
  <2> QED
    BY <1>1, <2>1 DEF IsInjective, BgTasks
<1> QED
  BY <1>1, <1>2 DEF Range

-----------------------------------------------------------------------------
(* What the steps do to the fields of the service.                         *)

(* A request that is not rejected.  One that preempts another is urgent,   *)
(* and preempts no stop.                                                   *)
Accepted(op) ==
    /\ op \in Operations \cup Settings
    /\ ~futureDone => op \in Urgent /\ active \notin {"STOP", "FORCE_STOP"}
    /\ requestId' = requestId + 1
    /\ generation' = generation \/ generation' = generation + 1
    /\ futureDone' = FALSE
    /\ queued' = [id |-> requestId + 1, op |-> op]
    /\ active' = IF op \in Operations THEN op ELSE "none"
    /\ \/ lc' = lc
       \/ lc.pc # "idle" /\ lc' = [lc EXCEPT !.interrupted = TRUE]
    /\ flag' \in [BgTasks \cup {"lifecycle", "docker"} -> BOOLEAN]
    /\ \A t \in BgTasks : flag'[t] = flag[t]
    /\ flag'["lifecycle"] = TRUE

(* What a submission does to the flags.                                    *)
LEMMA SubmitFlags ==
  ASSUME flag \in [BgTasks \cup {"lifecycle", "docker"} -> BOOLEAN],
         NEW b \in BOOLEAN,
         flag' = [flag EXCEPT !["lifecycle"] = TRUE, !["docker"] = @ \/ b]
  PROVE  /\ flag' \in [BgTasks \cup {"lifecycle", "docker"} -> BOOLEAN]
         /\ \A t \in BgTasks : flag'[t] = flag[t]
         /\ flag'["lifecycle"] = TRUE
BY DEF BgTasks

(* Submitting interrupts the latest task if it runs.                       *)
LEMMA SubmitEffect ==
  ASSUME BootInv, NEW op \in Operations \cup Settings, NEW urgent,
         ~futureDone => op \in Urgent /\ active \notin {"STOP", "FORCE_STOP"},
         Submit(op, IF op \in Operations THEN op ELSE "none", urgent)
  PROVE  Accepted(op)
<1>1. (op = "APPLY_DOCKER") \in BOOLEAN
  OBVIOUS
<1>2. /\ flag' \in [BgTasks \cup {"lifecycle", "docker"} -> BOOLEAN]
      /\ \A t \in BgTasks : flag'[t] = flag[t]
      /\ flag'["lifecycle"] = TRUE
  BY <1>1, SubmitFlags DEF Submit, BootInv, WorkIsFlagged
<1>3. \/ lc' = lc
      \/ lc.pc # "idle" /\ lc' = [lc EXCEPT !.interrupted = TRUE]
  BY DEF Submit, BootInv, LatestIsPending
<1>4. generation' = generation \/ generation' = generation + 1
  BY DEF Submit
<1> QED
  BY <1>2, <1>3, <1>4 DEF Submit, Accepted

(* A request of the main thread or of the startup checks is rejected or    *)
(* accepted.                                                               *)
LEMMA RequestEffect ==
  ASSUME BootInv, NEW op \in Operations, requestLifecycleOperation(op)
  PROVE  \/ Rejects(op) /\ UNCHANGED <<lifecycle, lc, flag>>
         \/ ~Rejects(op) /\ Accepted(op)
<1>1. CASE Rejects(op)
  BY <1>1 DEF requestLifecycleOperation
<1>2. CASE ~Rejects(op)
  <2>1. Submit(op, IF op \in Operations THEN op ELSE "none", op \in Urgent)
    BY <1>2 DEF requestLifecycleOperation
  <2>2. ~futureDone => op \in Urgent /\ active \notin {"STOP", "FORCE_STOP"}
    BY <1>2 DEF Rejects
  <2> QED
    BY <1>2, <2>1, <2>2, SubmitEffect
<1> QED
  BY <1>1, <1>2

(* So is a request to apply settings, which preempts nothing.              *)
LEMMA SettingsEffect ==
  ASSUME BootInv, NEW op \in Settings, requestRuntimeSettingsApplication(op)
  PROVE  UNCHANGED <<lifecycle, lc, flag>> \/ Accepted(op)
<1>1. CASE managementOperationRunning \/ ~futureDone
  BY <1>1 DEF requestRuntimeSettingsApplication
<1>2. CASE ~(managementOperationRunning \/ ~futureDone)
  <2>1. Submit(op, IF op \in Operations THEN op ELSE "none", TRUE)
    BY <1>2 DEF requestRuntimeSettingsApplication, Settings, Operations
  <2> QED
    BY <1>2, <2>1, SubmitEffect
<1> QED
  BY <1>1, <1>2

(* What the requests of the main thread have in common.                    *)
LEMMA MainRequest ==
  ASSUME BootInv, StartUnlocked \/ LifecycleButton \/ ApplySettings
  PROVE  /\ UNCHANGED <<unlocked, bgQueue, bg, orphans, device>>
         /\ intents < MaxIntents /\ intents' = intents + 1
         /\ \/ UNCHANGED <<lifecycle, lc, flag, settled>>
            \/ \E op \in Operations \cup Settings :
                  /\ Accepted(op)
                  /\ settled' \in BOOLEAN
                  /\ settled' => settled /\ op \notin {"START", "RESTART"}
<1>1. ASSUME NEW op \in Operations, UserRequests(op)
      PROVE  \/ UNCHANGED <<lifecycle, lc, flag, settled>>
             \/ /\ Accepted(op)
                /\ settled' \in BOOLEAN
                /\ settled' => settled /\ op \notin {"START", "RESTART"}
  <2>1. settled \in BOOLEAN
    BY DEF BootInv, DeviceOK
  <2>2. CASE Rejects(op)
    <3>1. settled' = settled
      BY <1>1, <2>1, <2>2 DEF UserRequests
    <3>2. requestLifecycleOperation(op)
      BY <1>1 DEF UserRequests
    <3> QED
      BY <2>2, <3>1, <3>2, RequestEffect
  <2>3. CASE ~Rejects(op)
    <3>1. Accepted(op)
      BY <1>1, <2>3, RequestEffect DEF UserRequests
    <3>2. settled' = (settled /\ op \notin {"START", "RESTART"})
      BY <1>1, <2>3 DEF UserRequests
    <3> QED
      BY <3>1, <3>2
  <2> QED
    BY <2>2, <2>3
<1>2. CASE StartUnlocked
  BY <1>1, <1>2 DEF StartUnlocked, Intent, Operations
<1>3. CASE LifecycleButton
  BY <1>1, <1>3 DEF LifecycleButton, Intent
<1>4. CASE ApplySettings
  <2>1. PICK op \in Settings : requestRuntimeSettingsApplication(op)
    BY <1>4 DEF ApplySettings
  <2>2. UNCHANGED <<lifecycle, lc, flag>> \/ Accepted(op)
    BY <2>1, SettingsEffect
  <2>3. UNCHANGED settled /\ settled \in BOOLEAN /\ op \notin {"START", "RESTART"}
    BY <1>4 DEF ApplySettings, BootInv, DeviceOK, Settings
  <2> QED
    BY <1>4, <2>2, <2>3 DEF ApplySettings, Intent
<1> QED
  BY <1>2, <1>3, <1>4

-----------------------------------------------------------------------------
(* The background executor.                                                *)
BgInv == QueueIsSet /\ RequestsArePaid /\ BgShape /\ WorkIsFlagged

(* Where bg is after a task moved on or ended.                             *)
LEMMA BgEffect ==
  ASSUME bg \in [task : BgTasks \cup {"none"}, pc : BgPcs, gen : Nat]
  PROVE  /\ \A p : BgGoto(p) =>
               /\ bg'.pc = p /\ bg'.task = bg.task /\ bg'.gen = bg.gen
               /\ p \in BgPcs => bg' \in [task : BgTasks \cup {"none"},
                                          pc : BgPcs, gen : Nat]
         /\ bg' = BgIdle =>
               /\ bg'.pc = "idle" /\ bg'.task = "none" /\ bg'.gen = 0
               /\ bg' \in [task : BgTasks \cup {"none"}, pc : BgPcs, gen : Nat]
BY DEF BgGoto, BgIdle, BgPcs

(* The flags after a finally block.                                        *)
LEMMA FinishFlags ==
  ASSUME flag \in [BgTasks \cup {"lifecycle", "docker"} -> BOOLEAN],
         bg.task \in BgTasks, BgFinish
  PROVE  /\ flag' \in [BgTasks \cup {"lifecycle", "docker"} -> BOOLEAN]
         /\ \A t \in BgTasks \ {bg.task} : flag'[t] = flag[t]
         /\ flag'[bg.task] <=> bg.task = "startup"
         /\ flag'["lifecycle"] = flag["lifecycle"]
         /\ bg' = BgIdle
<1>1. (bg.task = "startup") \in BOOLEAN
  OBVIOUS
<1>2. "lifecycle" # bg.task
  BY DEF BgTasks
<1> QED
  BY <1>1, <1>2 DEF BgFinish

(* A task ends.                                                            *)
LEMMA BgFinished ==
  ASSUME BgInv, bg.pc # "idle", BgFinish, UNCHANGED <<bgQueue, intents>>,
         UNCHANGED lifecycle
  PROVE  BgInv'
<1>1. bg.task \in BgTasks
  BY DEF BgInv, BgShape
<1>2. /\ flag' \in [BgTasks \cup {"lifecycle", "docker"} -> BOOLEAN]
      /\ \A t \in BgTasks \ {bg.task} : flag'[t] = flag[t]
      /\ flag'[bg.task] <=> bg.task = "startup"
      /\ bg' = BgIdle
  BY <1>1, FinishFlags DEF BgInv, WorkIsFlagged
<1>3. /\ bg'.pc = "idle" /\ bg'.task = "none" /\ bg'.gen = 0
      /\ bg' \in [task : BgTasks \cup {"none"}, pc : BgPcs, gen : Nat]
  BY <1>2, BgEffect DEF BgInv, BgShape
<1>4. Work' = Range(bgQueue) \cup {"none"} /\ bg.task \notin Range(bgQueue)
  BY <1>3 DEF Work, BgInv, QueueIsSet
<1>5. "none" \notin BgTasks /\ Range(bgQueue) \subseteq BgTasks
  BY QueueIsShort DEF BgTasks, BgInv, QueueIsSet
<1>6. generation \in Nat /\ UNCHANGED <<generation, requestId>>
  BY DEF BgInv, RequestsArePaid, lifecycle
<1>7. QueueIsSet'
  BY <1>3, <1>5 DEF BgInv, QueueIsSet
<1>8. RequestsArePaid'
  BY <1>4, <1>6 DEF BgInv, RequestsArePaid, Work
<1>9. BgShape'
  BY <1>3, <1>6 DEF BgShape
<1>10. WorkIsFlagged'
  BY <1>1, <1>2, <1>4, <1>5 DEF BgInv, WorkIsFlagged, Work
<1> QED
  BY <1>7, <1>8, <1>9, <1>10 DEF BgInv

(* A task moves on to where a task of its kind can be.                     *)
LEMMA BgMoved ==
  ASSUME BgInv, bg.pc # "idle", NEW p \in BgPcs \ {"idle"}, BgGoto(p),
         p \in {"checks", "autostart"} => bg.task = "startup",
         p = "install" => bg.task = "install",
         p \in {"presence", "verify", "rm"} => bg.task = "remove",
         p \in {"configure", "start"} => bg.task = "configure",
         p = "stop" => bg.task \in {"configure", "remove"},
         UNCHANGED <<bgQueue, intents, flag>>, UNCHANGED lifecycle
  PROVE  BgInv'
<1>1. /\ bg'.pc = p /\ bg'.task = bg.task /\ bg'.gen = bg.gen
      /\ bg' \in [task : BgTasks \cup {"none"}, pc : BgPcs, gen : Nat]
  BY BgEffect DEF BgInv, BgShape
<1>2. Work' = Work
  BY <1>1 DEF Work
<1>3. UNCHANGED <<generation, requestId>>
  BY DEF lifecycle
<1>4. QueueIsSet' /\ RequestsArePaid' /\ WorkIsFlagged'
  BY <1>1, <1>2, <1>3 DEF BgInv, QueueIsSet, RequestsArePaid, WorkIsFlagged
<1>5. BgShape'
  BY <1>1, <1>3 DEF BgInv, BgShape
<1> QED
  BY <1>4, <1>5 DEF BgInv

(* A task joins the queue.                                                 *)
LEMMA BgExecuted ==
  ASSUME BgInv, NEW t \in BgTasks, ~flag[t], Execute(t), Intent,
         UNCHANGED bg, UNCHANGED lifecycle
  PROVE  BgInv'
<1>1. t \notin Work
  BY DEF BgInv, WorkIsFlagged
<1>2. /\ bgQueue' \in Seq(BgTasks) /\ IsInjective(bgQueue')
      /\ Range(bgQueue') = Range(bgQueue) \cup {t}
  BY <1>1, QueueGrows DEF Execute, BgInv, QueueIsSet, Work
<1>3. Work' = Work \cup {t}
  BY <1>2 DEF Work
<1>4. UNCHANGED <<generation, requestId>>
  BY DEF lifecycle
<1>5. QueueIsSet'
  BY <1>1, <1>2 DEF QueueIsSet, BgInv, Work
<1>6. RequestsArePaid'
  BY <1>3, <1>4, BootServiceAssumption DEF RequestsArePaid, BgInv, Intent
<1>7. BgShape'
  BY <1>4 DEF BgInv, BgShape
<1>8. WorkIsFlagged'
  BY <1>3 DEF WorkIsFlagged, BgInv, Execute
<1> QED
  BY <1>5, <1>6, <1>7, <1>8 DEF BgInv

(* A request is rejected or accepted while the background work stays.      *)
LEMMA BgBystander ==
  ASSUME BgInv, UNCHANGED <<bgQueue, bg>>,
         \/ UNCHANGED <<intents, generation, requestId>>
         \/ /\ intents < MaxIntents /\ intents' = intents + 1
            /\ requestId' = requestId \/ requestId' = requestId + 1
            /\ \/ generation' = generation
               \/ /\ requestId' = requestId + 1
                  /\ generation' = generation + 1,
         flag' \in [BgTasks \cup {"lifecycle", "docker"} -> BOOLEAN],
         \A t \in BgTasks : flag'[t] = flag[t]
  PROVE  BgInv'
<1>1. Work' = Work
  BY DEF Work
<1>2. RequestsArePaid'
  BY <1>1, BootServiceAssumption DEF BgInv, RequestsArePaid
<1>3. generation' >= generation /\ generation \in Nat /\ generation' \in Nat
  BY DEF BgInv, RequestsArePaid
<1>4. BgShape'
  BY <1>3 DEF BgInv, BgShape
<1>5. QueueIsSet' /\ WorkIsFlagged'
  BY <1>1 DEF BgInv, QueueIsSet, WorkIsFlagged
<1> QED
  BY <1>2, <1>4, <1>5 DEF BgInv

(* The flags after the end of a lifecycle task.                            *)
LEMMA ClearFlags ==
  ASSUME flag \in [BgTasks \cup {"lifecycle", "docker"} -> BOOLEAN],
         ClearIfLatest
  PROVE  /\ flag' \in [BgTasks \cup {"lifecycle", "docker"} -> BOOLEAN]
         /\ \A t \in BgTasks : flag'[t] = flag[t]
         /\ flag'["lifecycle"] <=> flag["lifecycle"] /\ lc.id # requestId
         /\ active' = IF lc.id = requestId THEN "none" ELSE active
<1> DEFINE a == lc.id = requestId
           b == lc.op # "APPLY_DOCKER"
<1>1. a \in BOOLEAN /\ b \in BOOLEAN
  OBVIOUS
<1>2. /\ flag' = [flag EXCEPT !["lifecycle"] = @ /\ ~a, !["docker"] = @ /\ b]
      /\ active' = IF a THEN "none" ELSE active
  BY DEF ClearIfLatest
<1> HIDE DEF a, b
<1>3. /\ flag' \in [BgTasks \cup {"lifecycle", "docker"} -> BOOLEAN]
      /\ \A t \in BgTasks : flag'[t] = flag[t]
      /\ flag'["lifecycle"] <=> flag["lifecycle"] /\ ~a
  BY <1>1, <1>2 DEF BgTasks
<1> QED
  BY <1>2, <1>3 DEF a

(* Every step keeps the facts about the background executor.               *)
LEMMA BgInvStep ==
  ASSUME BootInv, Next
  PROVE  BgInv'
<1>1. BgInv /\ flag \in [BgTasks \cup {"lifecycle", "docker"} -> BOOLEAN]
  BY DEF BootInv, BgInv, WorkIsFlagged
<1>2. CASE StartUnlocked \/ LifecycleButton \/ ApplySettings
  <2>1. /\ UNCHANGED <<bgQueue, bg>>
        /\ intents < MaxIntents /\ intents' = intents + 1
        /\ \/ UNCHANGED <<lifecycle, flag>>
           \/ \E op \in Operations \cup Settings : Accepted(op)
    BY <1>2, MainRequest
  <2>2. CASE UNCHANGED <<lifecycle, flag>>
    BY <1>1, <2>1, <2>2, BgBystander DEF lifecycle
  <2>3. ASSUME NEW op \in Operations \cup Settings, Accepted(op)
        PROVE  BgInv'
    BY <1>1, <2>1, <2>3, BgBystander DEF Accepted
  <2> QED
    BY <2>1, <2>2, <2>3
<1>3. CASE StartLocked \/ RemoveRootfs \/ InstallRootfs \/ Configure
  <2>1. PICK t \in BgTasks : /\ ~flag[t] /\ Execute(t) /\ Intent
                             /\ UNCHANGED bg /\ UNCHANGED lifecycle
    BY <1>3 DEF StartLocked, RemoveRootfs, InstallRootfs, Configure, BgTasks
  <2> QED
    BY <1>1, <2>1, BgExecuted
<1>4. CASE BgTake
  <2>1. /\ Head(bgQueue) \in BgTasks /\ Head(bgQueue) \in Range(bgQueue)
        /\ bgQueue' \in Seq(BgTasks) /\ IsInjective(bgQueue')
        /\ Range(bgQueue') = Range(bgQueue) \ {Head(bgQueue)}
    BY <1>1, <1>4, QueueShrinks DEF BgTake, BgInv, QueueIsSet
  <2> DEFINE t == Head(bgQueue)
  <2>2. /\ bg'.task = t /\ bg'.pc = FirstPc[t] /\ bg'.gen = generation
        /\ bg' = [task |-> t, pc |-> FirstPc[t], gen |-> generation]
    BY <1>4 DEF BgTake
  <2>3. generation \in Nat /\ UNCHANGED <<intents, generation, requestId, flag>>
    BY <1>1, <1>4 DEF BgInv, RequestsArePaid, BgTake, lifecycle
  <2>4. Work' = Work \ {"none"} /\ bg.task = "none"
    <3>1. bg.task = "none" /\ "none" \notin Range(bgQueue)
      BY <1>1, <1>4, QueueIsShort DEF BgTake, BgInv, QueueIsSet, BgTasks
    <3>2. Work' = (Range(bgQueue) \ {t}) \cup {t}
      BY <2>1, <2>2 DEF Work
    <3>3. Work = Range(bgQueue) \cup {"none"}
      BY <3>1 DEF Work
    <3> HIDE DEF t
    <3> QED
      BY <2>1, <3>1, <3>2, <3>3 DEF t
  <2>5. QueueIsSet'
    BY <2>1, <2>2 DEF QueueIsSet
  <2>6. RequestsArePaid' /\ WorkIsFlagged'
    BY <1>1, <2>3, <2>4 DEF BgInv, RequestsArePaid, WorkIsFlagged, BgTasks
  <2>7. BgShape'
    <3>1. /\ FirstPc["startup"] = "checks" /\ FirstPc["install"] = "install"
          /\ FirstPc["configure"] = "stop" /\ FirstPc["remove"] = "presence"
      BY DEF FirstPc
    <3>2. t \in {"startup", "install", "configure", "remove"}
      BY <2>1 DEF BgTasks
    <3>3. bg' \in [task : BgTasks \cup {"none"}, pc : BgPcs, gen : Nat]
      BY <2>1, <2>2, <2>3, <3>1, <3>2 DEF BgPcs
    <3> HIDE DEF t
    <3> QED
      BY <2>2, <2>3, <3>1, <3>2, <3>3 DEF BgShape
  <2> QED
    BY <2>5, <2>6, <2>7 DEF BgInv
<1>5. CASE Autostart
  <2>1. bg.task = "startup" /\ bg.pc = "autostart"
    BY <1>1, <1>5 DEF BgInv, BgShape, Autostart
  <2>2. /\ bg'.pc = "idle" /\ bg'.task = "none" /\ bg'.gen = 0
        /\ bg' \in [task : BgTasks \cup {"none"}, pc : BgPcs, gen : Nat]
        /\ UNCHANGED <<bgQueue, intents>>
    BY <1>1, <1>5, BgEffect DEF BgInv, BgShape, Autostart
  <2>3. /\ requestId' = requestId \/ requestId' = requestId + 1
        /\ \/ generation' = generation
           \/ requestId' = requestId + 1 /\ generation' = generation + 1
        /\ flag' \in [BgTasks \cup {"lifecycle", "docker"} -> BOOLEAN]
        /\ \A t \in BgTasks : flag'[t] = flag[t]
    <3>1. requestLifecycleOperation("START") /\ "START" \in Operations
      BY <1>5 DEF Autostart, Operations
    <3>2. UNCHANGED <<lifecycle, lc, flag>> \/ Accepted("START")
      BY <3>1, RequestEffect
    <3> QED
      BY <1>1, <3>2 DEF Accepted, lifecycle
  <2>4. /\ Work' = Range(bgQueue) \cup {"none"}
        /\ Work = Range(bgQueue) \cup {"startup"}
        /\ "startup" \notin Range(bgQueue) /\ "none" \notin Range(bgQueue)
    BY <1>1, <2>1, <2>2, QueueIsShort DEF Work, BgInv, QueueIsSet, BgTasks
  <2>5. QueueIsSet'
    BY <1>1, <2>2, <2>4 DEF BgInv, QueueIsSet
  <2>6. RequestsArePaid'
    BY <1>1, <2>2, <2>3, <2>4 DEF BgInv, RequestsArePaid
  <2>7. BgShape'
    BY <2>2, <2>6 DEF BgShape, RequestsArePaid
  <2>8. WorkIsFlagged'
    BY <1>1, <2>3, <2>4 DEF BgInv, WorkIsFlagged, BgTasks
  <2> QED
    BY <2>5, <2>6, <2>7, <2>8 DEF BgInv
<1>6. CASE \/ StartupChecks \/ Install \/ Presence \/ BgStop
           \/ RunConfigurator \/ BgStart \/ VerifyDown \/ Remove
  <2>1. bg.pc # "idle" /\ UNCHANGED <<bgQueue, intents>> /\ UNCHANGED lifecycle
    BY <1>6 DEF StartupChecks, Install, Presence, BgStop, RunConfigurator,
       BgStart, VerifyDown, Remove
  <2>2. CASE BgFinish
    BY <1>1, <2>1, <2>2, BgFinished
  <2>3. CASE ~BgFinish
    <3>1. UNCHANGED flag
      BY <1>6, <2>3 DEF StartupChecks, Install, Presence, BgStop,
         RunConfigurator, BgStart, VerifyDown, Remove
    <3>2. \/ bg.pc = "checks" /\ BgGoto("autostart")
          \/ bg.pc = "presence" /\ BgGoto("stop")
          \/ bg.pc = "stop" /\ BgGoto(IF bg.task = "remove" THEN "verify"
                                                            ELSE "configure")
          \/ bg.pc = "configure" /\ BgGoto("start")
          \/ bg.pc = "verify" /\ BgGoto("rm")
      BY <1>6, <2>3 DEF StartupChecks, Install, Presence, BgStop,
         RunConfigurator, BgStart, VerifyDown, Remove
    <3>3. PICK p \in BgPcs \ {"idle"} :
             /\ BgGoto(p)
             /\ p \in {"checks", "autostart"} => bg.task = "startup"
             /\ p = "install" => bg.task = "install"
             /\ p \in {"presence", "verify", "rm"} => bg.task = "remove"
             /\ p \in {"configure", "start"} => bg.task = "configure"
             /\ p = "stop" => bg.task \in {"configure", "remove"}
      BY <1>1, <3>2 DEF BgInv, BgShape, BgPcs
    <3> QED
      BY <1>1, <2>1, <3>1, <3>3, BgMoved
  <2> QED
    BY <2>2, <2>3
<1>7. CASE Clear
  BY <1>1, <1>7, ClearFlags, BgBystander DEF Clear
<1>8. CASE \/ LcTake \/ Prepare \/ Command \/ CommandTimeout \/ Health
           \/ SettingsStop \/ SettingsStart \/ Finally \/ Return \/ Apply
           \/ Migrate \/ OrphanRuns \/ UserUnlocked
  <2>1. UNCHANGED <<bgQueue, bg, intents, generation, requestId, flag>>
    BY <1>8 DEF LcTake, Prepare, Command, CommandTimeout, Health,
       SettingsStop, SettingsStart, Finally, Return, Apply, Migrate,
       OrphanRuns, UserUnlocked, LcUnchanged, lifecycle
  <2> QED
    BY <1>1, <2>1, BgBystander
<1> QED
  BY <1>2, <1>3, <1>4, <1>5, <1>6, <1>7, <1>8
     DEF Next, MainThread, BgThread, BoundedLc

-----------------------------------------------------------------------------
(* The lifecycle executor.                                                 *)
LcRecord == [id : Nat, op : Operations \cup Settings \cup {"none"},
             pc : LcPcs, interrupted : BOOLEAN, was : BOOLEAN]

(* The latest request waits or runs.                                       *)
Pending == \/ queued # NoTask
           \/ lc.id = requestId /\ lc.pc \notin {"idle", "return"}

LcInv ==
    /\ requestId \in Nat
    /\ LcShape /\ LatestIsPending /\ LifecycleFlagIsLatest /\ StopIsKept

(* LifecycleFlagIsLatest in terms of Pending.                              *)
LEMMA FlagIsPending ==
  LifecycleFlagIsLatest <=>
    /\ flag["lifecycle"] <=> Pending
    /\ queued # NoTask => queued.id = requestId
    /\ active # "none" =>
          Pending /\ active = IF queued # NoTask THEN queued.op ELSE lc.op
BY DEF LifecycleFlagIsLatest, Pending

(* Where lc is after a task moved on, was interrupted or returned.         *)
LEMMA LcEffect ==
  ASSUME lc \in LcRecord
  PROVE  /\ \A p : LcGoto(p) =>
               /\ lc'.pc = p /\ lc'.id = lc.id /\ lc'.op = lc.op
               /\ lc'.was = lc.was
               /\ p \in LcPcs => lc' \in LcRecord
         /\ lc' = [lc EXCEPT !.interrupted = TRUE] =>
               /\ lc'.pc = lc.pc /\ lc'.id = lc.id /\ lc'.op = lc.op
               /\ lc'.was = lc.was /\ lc' \in LcRecord
         /\ lc' = LcIdle =>
               /\ lc'.pc = "idle" /\ lc'.id = 0 /\ lc'.op = "none"
               /\ lc'.was = FALSE /\ lc' \in LcRecord
<1>1. ASSUME NEW p, LcGoto(p)
      PROVE  /\ lc'.pc = p /\ lc'.id = lc.id /\ lc'.op = lc.op
             /\ lc'.was = lc.was
             /\ p \in LcPcs => lc' \in LcRecord
  BY <1>1 DEF LcGoto, LcRecord
<1>2. ASSUME lc' = [lc EXCEPT !.interrupted = TRUE]
      PROVE  /\ lc'.pc = lc.pc /\ lc'.id = lc.id /\ lc'.op = lc.op
             /\ lc'.was = lc.was /\ lc' \in LcRecord
  BY <1>2 DEF LcRecord
<1>3. ASSUME lc' = LcIdle
      PROVE  /\ lc'.pc = "idle" /\ lc'.id = 0 /\ lc'.op = "none"
             /\ lc'.was = FALSE /\ lc' \in LcRecord
  BY <1>3 DEF LcRecord, LcIdle, LcPcs
<1> QED
  BY <1>1, <1>2, <1>3

(* A task moves on to where a task of its kind can be.                     *)
LEMMA LcMoved ==
  ASSUME LcInv, lc.pc \notin {"idle", "return"},
         lc'.pc \notin {"idle", "return"}, lc'.id = lc.id, lc'.op = lc.op,
         lc' \in LcRecord,
         lc'.pc = "migrate" => lc.op = "START",
         lc'.pc \in {"command", "health"} => lc.op \in Operations,
         lc'.pc \in {"stop", "apply", "start"} => lc.op \in Settings,
         lc'.was => lc.op \in Settings,
         UNCHANGED lifecycle, UNCHANGED flag
  PROVE  LcInv'
<1>1. UNCHANGED <<requestId, active, futureDone, queued>>
  BY DEF lifecycle
<1>2. LcShape'
  BY <1>1 DEF LcInv, LcShape, LcRecord
<1>3. LatestIsPending'
  BY <1>1 DEF LcInv, LatestIsPending
<1>4. Pending' <=> Pending
  BY <1>1 DEF Pending
<1>5. LifecycleFlagIsLatest'
  BY <1>1, <1>4, FlagIsPending DEF LcInv, LifecycleFlagIsLatest, Pending
<1>6. StopIsKept'
  BY <1>1 DEF LcInv, StopIsKept
<1> QED
  BY <1>1, <1>2, <1>3, <1>5, <1>6 DEF LcInv

(* A step that is none of the lifecycle's.                                 *)
LEMMA LcBystander ==
  ASSUME LcInv, UNCHANGED lifecycle, UNCHANGED lc,
         flag'["lifecycle"] = flag["lifecycle"]
  PROVE  LcInv'
BY DEF LcInv, LcShape, LatestIsPending, LifecycleFlagIsLatest, StopIsKept,
   lifecycle

(* A request is accepted: it is the latest, and what it preempts is no     *)
(* stop.                                                                   *)
LEMMA LcAccepted ==
  ASSUME LcInv, NEW op \in Operations \cup Settings, Accepted(op)
  PROVE  LcInv'
<1>1. /\ lc'.pc = lc.pc /\ lc'.id = lc.id /\ lc'.op = lc.op
      /\ lc'.was = lc.was /\ lc' \in LcRecord
      /\ lc.pc = "idle" => lc' = lc
  BY LcEffect DEF Accepted, LcInv, LcShape, LcRecord
<1>2. /\ requestId \in Nat /\ requestId' = requestId + 1 /\ futureDone' = FALSE
      /\ queued' = [id |-> requestId + 1, op |-> op]
      /\ active' = IF op \in Operations THEN op ELSE "none"
      /\ flag'["lifecycle"] = TRUE
  BY DEF Accepted, LcInv
<1>3. /\ queued' # NoTask /\ queued'.id = requestId' /\ queued'.op = op
      /\ requestId' # 0
  BY <1>2 DEF NoTask
<1>4. lc.id # requestId'
  BY <1>2 DEF LcInv, LcShape, LcIdle
<1>5. LcShape'
  <2>1. lc.pc # "idle" => lc.id \in 1..requestId'
    BY <1>2 DEF LcInv, LcShape
  <2> QED
    BY <1>1, <2>1 DEF LcInv, LcShape, LcRecord
<1>6. LatestIsPending'
  <2>1. queued' \in [id : Nat, op : Operations \cup Settings]
    BY <1>2
  <2>2. active' \in Operations \cup {"none"}
    BY <1>2
  <2> QED
    BY <1>1, <1>2, <1>3, <1>4, <2>1, <2>2 DEF LatestIsPending
<1>7. LifecycleFlagIsLatest'
  <2>1. Pending'
    BY <1>3 DEF Pending
  <2>2. active' # "none" => active' = queued'.op
    BY <1>2, <1>3
  <2> QED
    BY <1>2, <1>3, <2>1, <2>2 DEF LifecycleFlagIsLatest, Pending
<1>8. StopIsKept'
  <2>1. op \in {"STOP", "FORCE_STOP"} => active' = op
    BY <1>2 DEF Operations
  <2>2. ~(lc.op \in {"STOP", "FORCE_STOP"} /\ lc.pc # "return")
    <3>1. SUFFICES ASSUME lc.op \in {"STOP", "FORCE_STOP"}, lc.pc # "return"
                   PROVE  FALSE
      OBVIOUS
    <3>2. /\ active = lc.op /\ lc.id = requestId /\ lc.pc # "idle"
      BY <3>1 DEF LcInv, StopIsKept, LcShape, LcIdle
    <3>3. ~futureDone
      BY <3>2 DEF LcInv, LatestIsPending
    <3> QED
      BY <3>1, <3>2, <3>3 DEF Accepted
  <2> QED
    BY <1>1, <1>3, <2>1, <2>2 DEF StopIsKept
<1> QED
  BY <1>2, <1>5, <1>6, <1>7, <1>8 DEF LcInv

(* Every step keeps the facts about the lifecycle executor.                *)
LEMMA LcInvStep ==
  ASSUME BootInv, Next
  PROVE  LcInv'
<1>1. /\ LcInv /\ lc \in LcRecord
      /\ flag \in [BgTasks \cup {"lifecycle", "docker"} -> BOOLEAN]
  BY DEF BootInv, LcInv, RequestsArePaid, LcShape, LcRecord, WorkIsFlagged
<1>2. CASE StartUnlocked \/ LifecycleButton \/ ApplySettings
  <2>1. \/ UNCHANGED <<lifecycle, lc, flag>>
        \/ \E op \in Operations \cup Settings : Accepted(op)
    BY <1>2, MainRequest
  <2> QED
    BY <1>1, <2>1, LcBystander, LcAccepted
<1>3. CASE Autostart
  <2>1. requestLifecycleOperation("START") /\ "START" \in Operations
    BY <1>3 DEF Autostart, Operations
  <2>2. UNCHANGED <<lifecycle, lc, flag>> \/ Accepted("START")
    BY <2>1, RequestEffect
  <2> QED
    BY <1>1, <2>1, <2>2, LcBystander, LcAccepted
<1>4. CASE StartLocked \/ RemoveRootfs \/ InstallRootfs \/ Configure
  <2>1. PICK t \in BgTasks : flag' = [flag EXCEPT ![t] = TRUE]
    BY <1>4 DEF StartLocked, RemoveRootfs, InstallRootfs, Configure, BgTasks,
       Execute
  <2>2. flag'["lifecycle"] = flag["lifecycle"]
    BY <1>1, <2>1 DEF BgTasks
  <2>3. UNCHANGED lc /\ UNCHANGED lifecycle
    BY <1>4 DEF StartLocked, RemoveRootfs, InstallRootfs, Configure
  <2> QED
    BY <1>1, <2>2, <2>3, LcBystander
<1>5. CASE \/ StartupChecks \/ Install \/ Presence \/ BgStop
           \/ RunConfigurator \/ BgStart \/ VerifyDown \/ Remove
  <2>1. /\ bg.pc # "idle" /\ UNCHANGED lc /\ UNCHANGED lifecycle
        /\ BgFinish \/ UNCHANGED flag
    BY <1>5 DEF StartupChecks, Install, Presence, BgStop, RunConfigurator,
       BgStart, VerifyDown, Remove
  <2>2. bg.task \in BgTasks
    BY <2>1 DEF BootInv, BgShape
  <2>3. flag'["lifecycle"] = flag["lifecycle"]
    BY <1>1, <2>1, <2>2, FinishFlags
  <2> QED
    BY <1>1, <2>1, <2>3, LcBystander
<1>6. CASE BgTake \/ OrphanRuns \/ UserUnlocked
  BY <1>1, <1>6, LcBystander DEF BgTake, OrphanRuns, UserUnlocked
<1>7. CASE Prepare
  <2>1. /\ lc.pc = "prepare" /\ UNCHANGED lifecycle /\ UNCHANGED flag
    BY <1>7 DEF Prepare, LcUnchanged
  <2>2. CASE \E p \in {"command", "migrate", "finally"} :
                /\ LcGoto(p)
                /\ p = "command" => lc.op \in Operations
                /\ p = "migrate" => lc.op = "START"
    BY <1>1, <2>1, <2>2, LcEffect, LcMoved DEF LcPcs, LcInv, LcShape
  <2>3. CASE /\ lc.op \in Settings
             /\ \E running \in IsRunning :
                   lc' = [lc EXCEPT !.pc = IF running THEN "stop" ELSE "apply",
                                    !.was = running]
    <3>1. PICK running \in BOOLEAN :
             lc' = [lc EXCEPT !.pc = IF running THEN "stop" ELSE "apply",
                              !.was = running]
      BY <2>3 DEF IsRunning
    <3>2. /\ lc'.pc \in {"stop", "apply"} /\ lc'.id = lc.id /\ lc'.op = lc.op
          /\ lc' \in LcRecord
      BY <1>1, <3>1 DEF LcRecord, LcPcs
    <3> QED
      BY <1>1, <2>1, <2>3, <3>2, LcMoved
  <2> QED
    BY <1>7, <2>2, <2>3 DEF Prepare
<1>8. CASE \/ Command \/ CommandTimeout \/ Health \/ SettingsStop \/ Apply
           \/ SettingsStart \/ Finally \/ Migrate
  <2>1. UNCHANGED lifecycle /\ UNCHANGED flag
    BY <1>8 DEF Command, CommandTimeout, Health, SettingsStop, Apply,
       SettingsStart, Finally, Migrate, LcUnchanged
  <2>2. \E p \in {"command", "health", "finally", "apply", "clear", "start"} :
           /\ LcGoto(p)
           /\ p \in {"command", "health"} => lc.pc \in {"migrate", "command"}
           /\ p = "apply" => lc.pc = "stop"
           /\ p = "start" => lc.was
    BY <1>8 DEF Command, CommandTimeout, Health, SettingsStop, Apply,
       SettingsStart, Finally, Migrate
  <2>3. lc.pc \notin {"idle", "return"}
    BY <1>8 DEF Command, CommandTimeout, Health, SettingsStop, Apply,
       SettingsStart, Finally, Migrate
  <2>4. PICK p \in {"command", "health", "finally", "apply", "clear", "start"} :
           /\ LcGoto(p)
           /\ p \in {"command", "health"} => lc.op \in Operations
           /\ p \in {"apply", "start"} => lc.op \in Settings
    BY <1>1, <2>2 DEF LcInv, LcShape, Operations
  <2>5. /\ lc'.pc = p /\ lc'.id = lc.id /\ lc'.op = lc.op /\ lc' \in LcRecord
        /\ lc'.was => lc.op \in Settings
    BY <1>1, <2>4, LcEffect DEF LcPcs, LcInv, LcShape
  <2> QED
    BY <1>1, <2>1, <2>3, <2>4, <2>5, LcMoved
<1>9. CASE LcTake
  <2>1. /\ lc.pc = "idle" /\ queued # NoTask /\ queued' = NoTask
        /\ lc' = [LcIdle EXCEPT !.id = queued.id, !.op = queued.op,
                                !.pc = "prepare"]
        /\ UNCHANGED <<flag, requestId, active, futureDone>>
    BY <1>9 DEF LcTake
  <2>2. /\ queued \in [id : Nat, op : Operations \cup Settings]
        /\ queued.id = requestId /\ requestId # 0 /\ requestId \in Nat
    BY <1>1, <2>1 DEF LcInv, LatestIsPending
  <2>3. /\ lc'.pc = "prepare" /\ lc'.id = requestId /\ lc'.op = queued.op
        /\ lc'.was = FALSE /\ lc' \in LcRecord
    BY <2>1, <2>2 DEF LcIdle, LcRecord, LcPcs
  <2>4. LcShape'
    BY <2>1, <2>2, <2>3 DEF LcShape, LcRecord, Operations, Settings
  <2>5. LatestIsPending'
    BY <1>1, <2>1, <2>2, <2>3 DEF LcInv, LatestIsPending
  <2>6. Pending /\ Pending'
    BY <2>1, <2>2, <2>3 DEF Pending
  <2>7. LifecycleFlagIsLatest'
    BY <1>1, <2>1, <2>2, <2>3, <2>6, FlagIsPending
       DEF LcInv, LifecycleFlagIsLatest, Pending
  <2>8. StopIsKept'
    BY <1>1, <2>1, <2>2, <2>3 DEF LcInv, StopIsKept, NoTask
  <2> QED
    BY <2>1, <2>2, <2>4, <2>5, <2>7, <2>8 DEF LcInv
<1>10. CASE Clear
  <2>1. /\ lc.pc = "clear" /\ LcGoto("return") /\ ClearIfLatest
        /\ UNCHANGED <<requestId, futureDone, queued>>
    BY <1>10 DEF Clear
  <2>2. /\ lc'.pc = "return" /\ lc'.id = lc.id /\ lc'.op = lc.op
        /\ lc'.was = lc.was /\ lc' \in LcRecord
    BY <1>1, <2>1, LcEffect DEF LcPcs
  <2>3. /\ flag'["lifecycle"] <=> flag["lifecycle"] /\ lc.id # requestId
        /\ active' = IF lc.id = requestId THEN "none" ELSE active
    BY <1>1, <2>1, ClearFlags
  <2>4. LcShape'
    BY <1>1, <2>1, <2>2 DEF LcInv, LcShape, LcRecord
  <2>5. LatestIsPending'
    BY <1>1, <2>1, <2>2, <2>3 DEF LcInv, LatestIsPending
  <2>6. LifecycleFlagIsLatest'
    <3>1. CASE lc.id = requestId
      <4>1. queued = NoTask
        BY <1>1, <3>1 DEF LcInv, LatestIsPending
      <4> QED
        BY <2>1, <2>2, <2>3, <3>1, <4>1 DEF LifecycleFlagIsLatest
    <3>2. CASE lc.id # requestId
      BY <1>1, <2>1, <2>2, <2>3, <3>2 DEF LcInv, LifecycleFlagIsLatest
    <3> QED
      BY <3>1, <3>2
  <2>7. StopIsKept'
    <3>1. queued # NoTask => lc.id # requestId
      BY <1>1 DEF LcInv, LatestIsPending
    <3> QED
      BY <1>1, <2>1, <2>2, <2>3, <3>1 DEF LcInv, StopIsKept, NoTask
  <2> QED
    BY <1>1, <2>1, <2>4, <2>5, <2>6, <2>7 DEF LcInv
<1>11. CASE Return
  <2>1. /\ lc.pc = "return" /\ lc' = LcIdle
        /\ futureDone' = (futureDone \/ lc.id = requestId)
        /\ UNCHANGED <<flag, requestId, active, queued>>
    BY <1>11 DEF Return
  <2>2. /\ lc'.pc = "idle" /\ lc'.id = 0 /\ lc'.op = "none"
        /\ lc'.was = FALSE /\ lc' \in LcRecord
    BY <1>1, <2>1, LcEffect
  <2>3. LcShape'
    BY <1>1, <2>1, <2>2 DEF LcInv, LcShape, LcRecord
  <2>4. futureDone \in BOOLEAN /\ futureDone' \in BOOLEAN
    BY <1>1, <2>1 DEF LcInv, LatestIsPending
  <2>5. LatestIsPending'
    <3>1. ~futureDone' <=> queued' # NoTask
      BY <1>1, <2>1, <2>2 DEF LcInv, LatestIsPending
    <3> QED
      BY <1>1, <2>1, <2>2, <2>4, <3>1 DEF LcInv, LatestIsPending
  <2>6. LifecycleFlagIsLatest'
    BY <1>1, <2>1, <2>2 DEF LcInv, LifecycleFlagIsLatest
  <2>7. StopIsKept'
    BY <1>1, <2>1, <2>2 DEF LcInv, StopIsKept
  <2> QED
    BY <1>1, <2>1, <2>3, <2>5, <2>6, <2>7 DEF LcInv
<1> QED
  BY <1>2, <1>3, <1>4, <1>5, <1>6, <1>7, <1>8, <1>9, <1>10, <1>11
     DEF Next, MainThread, BgThread, BoundedLc

-----------------------------------------------------------------------------
(* Debian.                                                                 *)

(* What a failed and what a successful command report.                     *)
LEMMA ResultParts ==
  ASSUME NEW d, NEW r
  PROVE  /\ r = <<d, FALSE>> => r[1] = d /\ ~r[2]
         /\ r = <<d, TRUE>> => r[1] = d
<1>1. ASSUME r = <<d, FALSE>> PROVE r[1] = d
  BY <1>1
<1>2. ASSUME r = <<d, FALSE>> PROVE ~r[2]
  BY <1>2
<1>3. ASSUME r = <<d, TRUE>> PROVE r[1] = d
  BY <1>3
<1> QED
  BY <1>1, <1>2, <1>3

(* Only a start or a restart brings Debian up, and a stop that succeeds    *)
(* takes it down.                                                          *)
LEMMA OutcomeFacts ==
  ASSUME NEW op \in Operations, debian \in {"up", "down"},
         NEW r \in Outcomes(op)
  PROVE  /\ r[1] \in {"up", "down"}
         /\ op \notin {"START", "RESTART"} /\ debian = "down" => r[1] = "down"
         /\ op \in {"STOP", "FORCE_STOP"} /\ r[2] => r[1] = "down"
<1>1. CASE op \in {"STOP", "FORCE_STOP"}
  <2>1. r = <<debian, FALSE>> \/ r = <<"down", TRUE>>
    BY <1>1 DEF Outcomes
  <2> QED
    BY <1>1, <2>1, ResultParts
<1>2. CASE op = "START"
  <2>1. r = <<debian, FALSE>> \/ r = <<"up", TRUE>>
    BY <1>2 DEF Outcomes
  <2> QED
    BY <1>2, <2>1, ResultParts
<1>3. CASE op = "RESTART"
  <2>1. r = <<debian, FALSE>> \/ r = <<"down", FALSE>> \/ r = <<"up", TRUE>>
    BY <1>3 DEF Outcomes
  <2> QED
    BY <1>3, <2>1, ResultParts
<1>4. CASE op = "STATUS"
  <2>1. r = <<debian, FALSE>> \/ r = <<debian, TRUE>>
    BY <1>4 DEF Outcomes
  <2> QED
    BY <1>4, <2>1, ResultParts
<1> QED
  BY <1>1, <1>2, <1>3, <1>4 DEF Operations

(* The orphans after Java gave up on a command.                            *)
LEMMA GiveUpEffect ==
  ASSUME NEW id, NEW op, GiveUp(id, op), NEW S, NEW T,
         \A o \in orphans : o \in S \X T, id \in S, op \in T
  PROVE  \A o \in orphans' : o \in S \X T
BY DEF GiveUp

(* The same for orphans that start nothing.                                *)
LEMMA GiveUpQuiet ==
  ASSUME NEW id, NEW op, GiveUp(id, op), op \notin {"START", "RESTART"},
         \A o \in orphans : o[2] \notin {"START", "RESTART"}
  PROVE  \A o \in orphans' : o[2] \notin {"START", "RESTART"}
BY DEF GiveUp

(* Every step keeps the device's state well formed.                        *)
LEMMA DeviceStep ==
  ASSUME BootInv, Next
  PROVE  DeviceOK'
<1>1. /\ DeviceOK /\ requestId \in Nat /\ debian \in {"up", "down"}
      /\ lc.pc = "command" => lc.op \in Operations
      /\ lc.pc # "idle" => lc.id \in 0..requestId
  BY DEF BootInv, DeviceOK, RequestsArePaid, LcShape
<1>2. {"STOP", "START"} \subseteq Operations
  BY DEF Operations
<1>3. CASE StartUnlocked \/ LifecycleButton \/ ApplySettings
  <2>1. /\ UNCHANGED <<unlocked, orphans, device>> /\ settled' \in BOOLEAN
        /\ requestId' = requestId \/ requestId' = requestId + 1
    BY <1>1, <1>3, MainRequest DEF Accepted, lifecycle, DeviceOK
  <2>2. \A o \in orphans : o \in (0..requestId') \X Operations
    BY <1>1, <2>1 DEF DeviceOK
  <2> QED
    BY <1>1, <2>1, <2>2 DEF DeviceOK, device
<1>4. CASE Autostart
  <2>1. requestLifecycleOperation("START") /\ "START" \in Operations
    BY <1>4 DEF Autostart, Operations
  <2>2. requestId' = requestId \/ requestId' = requestId + 1
    BY <2>1, RequestEffect DEF Accepted, lifecycle
  <2>3. \A o \in orphans : o \in (0..requestId') \X Operations
    BY <1>1, <2>2 DEF DeviceOK
  <2> QED
    BY <1>1, <1>4, <2>3 DEF DeviceOK, device, Autostart
<1>5. CASE \/ StartLocked \/ RemoveRootfs \/ InstallRootfs \/ Configure
           \/ UserUnlocked \/ BgTake \/ StartupChecks \/ Install \/ Presence
           \/ RunConfigurator \/ VerifyDown \/ Remove
  BY <1>1, <1>5 DEF DeviceOK, device, lifecycle, StartLocked, RemoveRootfs,
     InstallRootfs, Configure, UserUnlocked, BgTake, StartupChecks, Install,
     Presence, RunConfigurator, VerifyDown, Remove
<1>6. CASE \/ LcTake \/ Prepare \/ Health \/ Apply \/ Finally \/ Migrate
           \/ Clear \/ Return
  BY <1>1, <1>6 DEF DeviceOK, device, lifecycle, LcTake, Prepare, Health,
     Apply, Finally, Migrate, Clear, Return, LcUnchanged
<1>7. CASE BgStop \/ BgStart
  <2>1. UNCHANGED <<unlocked, settled, rootfs, requestId>>
    BY <1>7 DEF BgStop, BgStart, lifecycle
  <2>2. PICK op \in {"STOP", "START"} :
           \/ UNCHANGED orphans /\ \E r \in Outcomes(op) : debian' = r[1]
           \/ GiveUp(0, op) /\ UNCHANGED debian
    BY <1>7 DEF BgStop, BgStart
  <2>3. 0 \in 0..requestId
    BY <1>1
  <2>4. \A o \in orphans' : o \in (0..requestId) \X Operations
    BY <1>1, <1>2, <2>2, <2>3, GiveUpEffect DEF DeviceOK
  <2>5. debian' \in {"up", "down"}
    BY <1>1, <1>2, <2>2, OutcomeFacts
  <2> QED
    BY <1>1, <2>1, <2>4, <2>5 DEF DeviceOK
<1>8. CASE Command \/ CommandTimeout \/ SettingsStop \/ SettingsStart
  <2>1. UNCHANGED <<unlocked, rootfs, requestId>> /\ lc.pc # "idle"
    BY <1>8 DEF Command, CommandTimeout, SettingsStop, SettingsStart,
       LcUnchanged, lifecycle
  <2>2. settled' \in BOOLEAN
    BY <1>1, <1>8 DEF Command, CommandTimeout, SettingsStop, SettingsStart,
       DeviceOK
  <2>3. PICK op \in Operations :
           \/ UNCHANGED orphans /\ \E r \in Outcomes(op) : debian' = r[1]
           \/ GiveUp(lc.id, op) /\ UNCHANGED debian
    BY <1>1, <1>2, <1>8 DEF Command, CommandTimeout, SettingsStop,
       SettingsStart
  <2>4. \A o \in orphans' : o \in (0..requestId) \X Operations
    BY <1>1, <2>1, <2>3, GiveUpEffect DEF DeviceOK
  <2>5. debian' \in {"up", "down"}
    BY <1>1, <2>3, OutcomeFacts
  <2> QED
    BY <1>1, <2>1, <2>2, <2>4, <2>5 DEF DeviceOK
<1>9. CASE OrphanRuns
  <2>1. PICK o \in orphans : /\ \E r \in Outcomes(o[2]) : debian' = r[1]
                             /\ orphans' = orphans \ {o}
    BY <1>9 DEF OrphanRuns
  <2>2. o[2] \in Operations
    BY <1>1 DEF DeviceOK
  <2>3. debian' \in {"up", "down"}
    BY <1>1, <2>1, <2>2, OutcomeFacts
  <2> QED
    BY <1>1, <1>9, <2>1, <2>3 DEF DeviceOK, OrphanRuns, lifecycle
<1> QED
  BY <1>3, <1>4, <1>5, <1>6, <1>7, <1>8, <1>9
     DEF Next, MainThread, BgThread, BoundedLc

(* What settled promises of the lifecycle executor.                        *)
QuietLc ==
    /\ queued.op \notin {"START", "RESTART"}
    /\ lc.op \in {"START", "RESTART"} =>
          lc.pc \in {"health", "finally", "clear", "return"}
    /\ ~lc.was /\ lc.pc # "start"

(* What settled promises of the background executor.                       *)
QuietBg ==
    /\ bg.pc \notin {"autostart", "start"}
    /\ bg.task \in {"startup", "configure"} => Suppressed
    /\ Range(bgQueue) \cap {"startup", "configure"} = {}

(* What settled promises of Debian and of the commands Java gave up on.    *)
QuietDevice ==
    /\ debian = "down"
    /\ \A o \in orphans : o[2] \notin {"START", "RESTART"}

(* SettledIsQuiet by the parts of the system it is about.                  *)
LEMMA QuietParts ==
  SettledIsQuiet <=> (settled => QuietDevice /\ QuietLc /\ QuietBg)
BY DEF SettledIsQuiet, QuietLc, QuietBg, QuietDevice

(* Later requests leave a suppressed start suppressed.                     *)
LEMMA StaysSuppressed ==
  ASSUME BootInv, BgInv', UNCHANGED <<bgQueue, bg>>, QuietBg,
         generation' = generation \/ generation' = generation + 1
  PROVE  QuietBg'
<1>1. /\ bg.gen \in Nat /\ generation \in Nat /\ bg.gen <= generation
  BY DEF BootInv, BgShape, RequestsArePaid
<1>2. Suppressed => Suppressed'
  BY <1>1 DEF Suppressed
<1> QED
  BY <1>2 DEF QuietBg

(* The steps of the main thread keep the promises of settled.              *)
LEMMA QuietMain ==
  ASSUME BootInv, BgInv', MainThread
  PROVE  SettledIsQuiet'
<1> SUFFICES ASSUME settled' PROVE QuietDevice' /\ QuietLc' /\ QuietBg'
  BY QuietParts DEF SettledIsQuiet, QuietLc, QuietBg, QuietDevice
<1>1. /\ lc \in LcRecord /\ settled \in BOOLEAN
      /\ settled => QuietDevice /\ QuietLc /\ QuietBg
  BY QuietParts DEF BootInv, LcShape, LcRecord, DeviceOK
<1>2. CASE StartUnlocked \/ LifecycleButton \/ ApplySettings
  <2>1. /\ UNCHANGED <<bgQueue, bg, orphans, device>>
        /\ \/ UNCHANGED <<lifecycle, lc, settled>>
           \/ \E op \in Operations \cup Settings :
                 /\ Accepted(op)
                 /\ settled /\ op \notin {"START", "RESTART"}
    BY <1>2, MainRequest
  <2>2. QuietDevice /\ QuietLc /\ QuietBg
    BY <1>1, <2>1
  <2>3. QuietDevice'
    BY <2>1, <2>2 DEF QuietDevice, device
  <2>4. generation' = generation \/ generation' = generation + 1
    BY <2>1 DEF Accepted, lifecycle
  <2>5. QuietBg'
    BY <2>1, <2>2, <2>4, StaysSuppressed
  <2>6. CASE UNCHANGED <<lifecycle, lc, settled>>
    BY <2>2, <2>3, <2>5, <2>6 DEF QuietLc, lifecycle
  <2>7. ASSUME NEW op \in Operations \cup Settings, Accepted(op),
               op \notin {"START", "RESTART"}
        PROVE  QuietLc'
    <3>1. lc'.pc = lc.pc /\ lc'.op = lc.op /\ lc'.was = lc.was
      BY <1>1, <2>7, LcEffect DEF Accepted
    <3>2. queued'.op = op
      BY <2>7 DEF Accepted
    <3> QED
      BY <2>2, <2>7, <3>1, <3>2 DEF QuietLc
  <2> QED
    BY <2>1, <2>3, <2>5, <2>6, <2>7
<1>3. CASE StartLocked \/ Configure
  BY <1>3 DEF StartLocked, Configure
<1>4. CASE RemoveRootfs \/ InstallRootfs
  <2>1. /\ settled /\ UNCHANGED <<lc, bg, orphans, device>>
        /\ UNCHANGED lifecycle
    BY <1>4 DEF RemoveRootfs, InstallRootfs
  <2>2. PICK t \in {"remove", "install"} : ~flag[t] /\ Execute(t)
    BY <1>4 DEF RemoveRootfs, InstallRootfs
  <2>3. Range(bgQueue') = Range(bgQueue) \cup {t}
    <3>1. t \in BgTasks /\ t \notin Range(bgQueue)
      BY <2>2 DEF BootInv, WorkIsFlagged, Work, BgTasks
    <3> QED
      BY <2>2, <3>1, QueueGrows DEF Execute, BootInv, QueueIsSet
  <2>4. QuietDevice' /\ QuietLc'
    BY <1>1, <2>1 DEF QuietDevice, QuietLc, device, lifecycle
  <2>5. QuietBg'
    BY <1>1, <2>1, <2>3 DEF QuietBg, Suppressed, lifecycle
  <2> QED
    BY <2>4, <2>5
<1>5. CASE UserUnlocked
  BY <1>1, <1>5 DEF UserUnlocked, QuietDevice, QuietLc, QuietBg, device,
     lifecycle, Suppressed
<1> QED
  BY <1>2, <1>3, <1>4, <1>5 DEF MainThread

(* The steps of the background executor do: its starts were suppressed.    *)
LEMMA QuietBackground ==
  ASSUME BootInv, BgThread
  PROVE  SettledIsQuiet'
<1> SUFFICES ASSUME settled' PROVE QuietDevice' /\ QuietLc' /\ QuietBg'
  BY QuietParts DEF SettledIsQuiet, QuietLc, QuietBg, QuietDevice
<1>1. settled' = settled
  BY DEF BgThread, BgTake, StartupChecks, Autostart, Install, Presence,
     BgStop, RunConfigurator, BgStart, VerifyDown, Remove
<1>2. /\ QuietDevice /\ QuietLc /\ QuietBg
      /\ bg \in [task : BgTasks \cup {"none"}, pc : BgPcs, gen : Nat]
      /\ BgShape /\ debian \in {"up", "down"}
  BY <1>1, QuietParts DEF BootInv, BgShape, DeviceOK
<1>3. CASE BgTake
  <2>1. /\ Head(bgQueue) \in BgTasks /\ Head(bgQueue) \in Range(bgQueue)
        /\ Range(bgQueue') = Range(bgQueue) \ {Head(bgQueue)}
    BY <1>3, QueueShrinks DEF BgTake, BootInv, QueueIsSet
  <2>2. Head(bgQueue) \in {"install", "remove"}
    BY <1>2, <2>1 DEF QuietBg, BgTasks
  <2>3. bg'.task = Head(bgQueue) /\ bg'.pc = FirstPc[Head(bgQueue)]
    BY <1>3 DEF BgTake
  <2>4. bg'.task \in {"install", "remove"} /\ bg'.pc \in {"install", "presence"}
    BY <2>2, <2>3 DEF FirstPc
  <2>5. QuietBg'
    BY <1>2, <2>1, <2>4 DEF QuietBg
  <2> QED
    BY <1>2, <1>3, <2>5 DEF BgTake, QuietDevice, QuietLc, device, lifecycle
<1>4. CASE Autostart \/ BgStart
  BY <1>2, <1>4 DEF Autostart, BgStart, QuietBg
<1>5. CASE \/ StartupChecks \/ Install \/ Presence \/ BgStop
           \/ RunConfigurator \/ VerifyDown \/ Remove
  <2>1. /\ UNCHANGED <<bgQueue, lc>> /\ UNCHANGED lifecycle
    BY <1>5 DEF StartupChecks, Install, Presence, BgStop, RunConfigurator,
       VerifyDown, Remove
  <2>2. QuietLc'
    BY <1>2, <2>1 DEF QuietLc, lifecycle
  <2>3. \/ bg' = BgIdle
        \/ \E p \in {"stop", "verify", "configure", "rm"} : BgGoto(p)
    BY <1>2, <1>5 DEF StartupChecks, Install, Presence, BgStop,
       RunConfigurator, VerifyDown, Remove, BgFinish, QuietBg, BgShape
  <2>4. \/ bg'.task = "none" /\ bg'.pc = "idle"
        \/ /\ bg'.task = bg.task /\ bg'.gen = bg.gen
           /\ bg'.pc \notin {"autostart", "start"}
    BY <1>2, <2>3, BgEffect
  <2>5. QuietBg'
    BY <1>2, <2>1, <2>4 DEF QuietBg, Suppressed, lifecycle
  <2>6. QuietDevice'
    <3>1. CASE BgStop
      <4>1. \/ UNCHANGED orphans /\ \E r \in Outcomes("STOP") : debian' = r[1]
            \/ GiveUp(0, "STOP") /\ UNCHANGED debian
        BY <3>1 DEF BgStop
      <4>2. "STOP" \in Operations
        BY DEF Operations
      <4>3. debian' = "down"
        BY <1>2, <4>1, <4>2, OutcomeFacts DEF QuietDevice
      <4>4. \A o \in orphans' : o[2] \notin {"START", "RESTART"}
        BY <1>2, <4>1, GiveUpQuiet DEF QuietDevice
      <4> QED
        BY <4>3, <4>4 DEF QuietDevice
    <3>2. CASE \/ StartupChecks \/ Install \/ Presence \/ RunConfigurator
               \/ VerifyDown \/ Remove
      BY <1>2, <3>2 DEF StartupChecks, Install, Presence, RunConfigurator,
         VerifyDown, Remove, QuietDevice, device
    <3> QED
      BY <1>5, <3>1, <3>2
  <2> QED
    BY <2>2, <2>5, <2>6
<1> QED
  BY <1>3, <1>4, <1>5 DEF BgThread

(* The steps of the lifecycle executor and of the orphans do.              *)
LEMMA QuietLifecycle ==
  ASSUME BootInv, BoundedLc \/ Migrate \/ Apply \/ OrphanRuns
  PROVE  SettledIsQuiet'
<1> SUFFICES ASSUME settled' PROVE QuietDevice' /\ QuietLc' /\ QuietBg'
  BY QuietParts DEF SettledIsQuiet, QuietLc, QuietBg, QuietDevice
<1>1. /\ lc \in LcRecord /\ settled \in BOOLEAN /\ LcShape /\ StopIsKept
      /\ settled => QuietDevice /\ QuietLc /\ QuietBg
      /\ debian \in {"up", "down"}
      /\ \A o \in orphans : o[2] \in Operations
  BY QuietParts DEF BootInv, LcShape, LcRecord, DeviceOK
<1>2. UNCHANGED <<bgQueue, bg, generation>>
  BY DEF BoundedLc, LcTake, Prepare, Command, CommandTimeout, Health,
     SettingsStop, SettingsStart, Finally, Clear, Return, Apply, Migrate,
     OrphanRuns, LcUnchanged, lifecycle
<1>3. QuietBg => QuietBg'
  BY <1>2 DEF QuietBg, Suppressed
<1>4. CASE Command
  <2>1. /\ lc.pc = "command" /\ lc.op \in Operations
    BY <1>1, <1>4 DEF Command, LcShape
  <2>2. PICK r \in Outcomes(lc.op) :
           /\ debian' = r[1]
           /\ \E p \in {"health", "finally"} : LcGoto(p)
           /\ settled \/ /\ r[2] /\ lc.op \in {"STOP", "FORCE_STOP"}
                         /\ ~StartInFlight
    BY <1>1, <1>4 DEF Command
  <2>3. /\ lc'.pc \in {"health", "finally"} /\ lc'.op = lc.op
        /\ lc'.was = lc.was
    BY <1>1, <2>2, LcEffect
  <2>4. UNCHANGED <<queued, orphans>>
    BY <1>4 DEF Command, LcUnchanged, lifecycle
  <2>5. CASE settled
    <3>1. lc.op \notin {"START", "RESTART"} /\ debian = "down"
      BY <1>1, <2>1, <2>5 DEF QuietLc, QuietDevice
    <3>2. debian' = "down"
      BY <2>1, <2>2, <3>1, OutcomeFacts
    <3> QED
      BY <1>1, <1>3, <2>3, <2>4, <2>5, <3>2 DEF QuietLc, QuietDevice
  <2>6. CASE r[2] /\ lc.op \in {"STOP", "FORCE_STOP"} /\ ~StartInFlight
    <3>1. debian' = "down"
      BY <1>1, <2>1, <2>2, <2>6, OutcomeFacts
    <3>2. queued = NoTask /\ ~lc.was
      BY <1>1, <2>1, <2>6 DEF StopIsKept, LcShape, Settings
    <3>3. QuietLc'
      BY <2>3, <2>4, <2>6, <3>2 DEF QuietLc, NoTask
    <3>4. orphans = {} /\ QuietBg
      BY <2>6 DEF StartInFlight, QuietBg, Range
    <3> QED
      BY <1>3, <2>4, <3>1, <3>3, <3>4 DEF QuietDevice
  <2> QED
    BY <2>2, <2>5, <2>6
<1>5. CASE \/ LcTake \/ Prepare \/ CommandTimeout \/ Health \/ SettingsStop
           \/ SettingsStart \/ Finally \/ Clear \/ Return \/ Apply \/ Migrate
           \/ OrphanRuns
  <2>1. settled' = settled
    BY <1>5 DEF LcTake, Prepare, CommandTimeout, Health, SettingsStop,
       SettingsStart, Finally, Clear, Return, Apply, Migrate, OrphanRuns
  <2>2. QuietDevice /\ QuietLc /\ QuietBg
    BY <1>1, <2>1
  <2>3. QuietBg'
    BY <1>3, <2>2
  <2>4. CASE LcTake
    <3>1. /\ lc' = [LcIdle EXCEPT !.id = queued.id, !.op = queued.op,
                                  !.pc = "prepare"]
          /\ queued' = NoTask /\ UNCHANGED <<orphans, device>>
      BY <2>4 DEF LcTake
    <3>2. lc'.op = queued.op /\ ~lc'.was /\ lc'.pc = "prepare"
      BY <3>1 DEF LcIdle
    <3> QED
      BY <2>2, <2>3, <3>1, <3>2 DEF QuietDevice, QuietLc, NoTask, device
  <2>5. CASE Prepare
    <3>1. lc.op \notin {"START", "RESTART"} /\ lc.pc = "prepare"
      BY <2>2, <2>5 DEF Prepare, QuietLc
    <3>2. \A running \in IsRunning : running = FALSE
      BY <2>2 DEF IsRunning, QuietDevice
    <3>3. \/ \E p \in {"command", "finally"} : LcGoto(p)
          \/ lc' = [lc EXCEPT !.pc = "apply", !.was = FALSE]
      BY <2>5, <3>1, <3>2 DEF Prepare
    <3>4. /\ lc'.op = lc.op /\ lc'.pc # "start" /\ ~lc'.was
      BY <1>1, <2>2, <3>3, LcEffect DEF LcRecord, QuietLc
    <3>5. UNCHANGED <<queued, orphans, debian>>
      BY <2>5 DEF Prepare, LcUnchanged, lifecycle
    <3> QED
      BY <2>2, <2>3, <3>1, <3>4, <3>5 DEF QuietDevice, QuietLc
  <2>6. CASE CommandTimeout
    <3>1. lc.op \notin {"START", "RESTART"} /\ GiveUp(lc.id, lc.op)
      BY <2>2, <2>6 DEF CommandTimeout, QuietLc
    <3>2. /\ lc'.op = lc.op /\ lc'.pc = "finally" /\ lc'.was = lc.was
      BY <1>1, <2>6, LcEffect DEF CommandTimeout
    <3>3. \A o \in orphans' : o[2] \notin {"START", "RESTART"}
      BY <2>2, <3>1, GiveUpQuiet DEF QuietDevice
    <3> QED
      BY <2>2, <2>3, <2>6, <3>2, <3>3
         DEF CommandTimeout, QuietDevice, QuietLc, LcUnchanged, lifecycle
  <2>7. CASE SettingsStop
    <3>1. /\ \E p \in {"apply", "finally"} : LcGoto(p)
          /\ lc.pc = "stop" /\ UNCHANGED queued
          /\ \/ UNCHANGED orphans /\ \E r \in Outcomes("STOP") : debian' = r[1]
             \/ GiveUp(lc.id, "STOP") /\ UNCHANGED debian
      BY <2>7 DEF SettingsStop, LcUnchanged, lifecycle
    <3>2. /\ lc'.op = lc.op /\ lc'.pc \in {"apply", "finally"}
          /\ lc'.was = lc.was
      BY <1>1, <3>1, LcEffect
    <3>3. "STOP" \in Operations
      BY DEF Operations
    <3>4. debian' = "down"
      BY <1>1, <2>2, <3>1, <3>3, OutcomeFacts DEF QuietDevice
    <3>5. \A o \in orphans' : o[2] \notin {"START", "RESTART"}
      BY <2>2, <3>1, GiveUpQuiet DEF QuietDevice
    <3>6. lc.op \notin {"START", "RESTART"}
      BY <1>1, <3>1 DEF LcShape, Settings
    <3> QED
      BY <2>2, <2>3, <3>1, <3>2, <3>4, <3>5, <3>6 DEF QuietDevice, QuietLc
  <2>8. CASE SettingsStart \/ Migrate
    BY <1>1, <2>2, <2>8 DEF SettingsStart, Migrate, QuietLc, LcShape
  <2>9. CASE Health \/ Finally \/ Clear \/ Apply
    <3>1. /\ \E p \in {"finally", "clear", "return"} : LcGoto(p)
          /\ UNCHANGED <<queued, orphans, debian>>
      BY <2>2, <2>9 DEF Health, Finally, Clear, Apply, LcUnchanged, lifecycle,
         device, QuietLc
    <3>2. /\ lc'.op = lc.op /\ lc'.pc \in {"finally", "clear", "return"}
          /\ lc'.was = lc.was
      BY <1>1, <3>1, LcEffect
    <3> QED
      BY <2>2, <2>3, <3>1, <3>2 DEF QuietDevice, QuietLc
  <2>10. CASE Return
    <3>1. lc'.op = "none" /\ lc'.was = FALSE /\ lc'.pc = "idle"
      BY <1>1, <2>10, LcEffect DEF Return
    <3> QED
      BY <2>2, <2>3, <2>10, <3>1 DEF Return, QuietDevice, QuietLc, device
  <2>11. CASE OrphanRuns
    <3>1. PICK o \in orphans : /\ \E r \in Outcomes(o[2]) : debian' = r[1]
                               /\ orphans' = orphans \ {o}
      BY <2>11 DEF OrphanRuns
    <3>2. o[2] \in Operations /\ o[2] \notin {"START", "RESTART"}
      BY <1>1, <2>2 DEF QuietDevice
    <3>3. debian' = "down"
      BY <1>1, <2>2, <3>1, <3>2, OutcomeFacts DEF QuietDevice
    <3> QED
      BY <2>2, <2>3, <2>11, <3>1, <3>3
         DEF OrphanRuns, QuietDevice, QuietLc, lifecycle
  <2> QED
    BY <1>5, <2>4, <2>5, <2>6, <2>7, <2>8, <2>9, <2>10, <2>11
<1> QED
  BY <1>4, <1>5 DEF BoundedLc

-----------------------------------------------------------------------------
(* BootInv is inductive, for any number of intents.                        *)
THEOREM BootInvariant == Spec => []BootInv
<1>1. Init => BootInv
  <2> SUFFICES ASSUME Init PROVE BootInv
    OBVIOUS
  <2>1. bgQueue = <<>> /\ Range(bgQueue) = {} /\ bg.task = "none"
    BY DEF Init, Range, BgIdle
  <2>2. QueueIsSet /\ Work = {"none"}
    BY <2>1 DEF QueueIsSet, Work, IsInjective
  <2>3. RequestsArePaid
    BY <2>2, BootServiceAssumption DEF Init, RequestsArePaid
  <2>4. BgShape
    BY DEF Init, BgShape, BgIdle, BgPcs
  <2>5. WorkIsFlagged
    BY <2>2 DEF Init, WorkIsFlagged, BgTasks
  <2>6. LcShape
    BY DEF Init, LcShape, LcIdle, LcPcs
  <2>7. LatestIsPending /\ LifecycleFlagIsLatest /\ StopIsKept
    BY DEF Init, LatestIsPending, LifecycleFlagIsLatest, StopIsKept, NoTask,
       LcIdle
  <2>8. SettledIsQuiet /\ DeviceOK
    BY DEF Init, SettledIsQuiet, DeviceOK
  <2> QED
    BY <2>2, <2>3, <2>4, <2>5, <2>6, <2>7, <2>8 DEF BootInv
<1>2. BootInv /\ [Next]_vars => BootInv'
  <2> SUFFICES ASSUME BootInv, [Next]_vars PROVE BootInv'
    OBVIOUS
  <2>1. CASE Next
    <3>1. BgInv' /\ LcInv' /\ DeviceOK'
      BY <2>1, BgInvStep, LcInvStep, DeviceStep
    <3>2. SettledIsQuiet'
      BY <2>1, <3>1, QuietMain, QuietBackground, QuietLifecycle DEF Next
    <3> QED
      BY <3>1, <3>2 DEF BootInv, BgInv, LcInv
  <2>2. CASE UNCHANGED vars
    <3>1. /\ BgInv' /\ LcInv'
      BY <2>2, BgBystander, LcBystander
         DEF BootInv, BgInv, LcInv, vars, lifecycle, RequestsArePaid,
             WorkIsFlagged
    <3>2. DeviceOK' /\ SettledIsQuiet'
      BY <2>2 DEF BootInv, DeviceOK, SettledIsQuiet, Suppressed, vars,
         lifecycle, device
    <3> QED
      BY <3>1, <3>2 DEF BootInv, BgInv, LcInv
  <2> QED
    BY <2>1, <2>2
<1> QED
  BY <1>1, <1>2, PTL DEF Spec

(* The fields of the service keep their types; in particular no kind of    *)
(* background work is queued twice and the request ids stay within the     *)
(* number of intents.                                                      *)
THEOREM BootTypes == Spec => []TypeOK
<1>1. BootInv => TypeOK
  <2> SUFFICES ASSUME BootInv PROVE TypeOK
    OBVIOUS
  <2>1. Len(bgQueue) <= 4 /\ Range(bgQueue) \subseteq BgTasks
    BY QueueIsShort DEF BootInv, QueueIsSet
  <2>2. /\ 0..requestId \subseteq Ids /\ generation \in 0..requestId
        /\ bg.gen \in 0..requestId /\ requestId \in 0..requestId
    BY BootServiceAssumption DEF BootInv, RequestsArePaid, BgShape, Ids
  <2>3. lc.id \in 0..requestId
    BY DEF BootInv, LcShape, RequestsArePaid, LcIdle
  <2>4. lc \in [id : Ids, op : Operations \cup Settings \cup {"none"},
                pc : LcPcs, interrupted : BOOLEAN, was : BOOLEAN]
    BY <2>2, <2>3 DEF BootInv, LcShape
  <2>5. bg \in [task : BgTasks \cup {"none"}, pc : BgPcs, gen : Ids]
    BY <2>2 DEF BootInv, BgShape
  <2>6. queued \in {NoTask} \cup [id : Ids, op : Operations \cup Settings]
    BY <2>2 DEF BootInv, LatestIsPending
  <2>7. \A o \in orphans : o \in Ids \X Operations
    BY <2>2 DEF BootInv, DeviceOK
  <2> QED
    BY <2>1, <2>2, <2>4, <2>5, <2>6, <2>7
       DEF BootInv, TypeOK, QueueIsSet, RequestsArePaid, WorkIsFlagged,
           LatestIsPending, DeviceOK
<1> QED
  BY <1>1, BootInvariant, PTL

(* The flags of the background executor are set exactly while their work   *)
(* waits or runs.                                                          *)
THEOREM FlagsAlwaysMeanWork == Spec => []FlagsMeanWork
<1>1. BootInv => FlagsMeanWork
  BY DEF BootInv, WorkIsFlagged, Work, FlagsMeanWork, BgTasks
<1> QED
  BY <1>1, BootInvariant, PTL

(* The lifecycle flag and the active operation are those of the latest     *)
(* request, whatever preempted what.                                       *)
THEOREM FlagAlwaysLatest == Spec => []LifecycleFlagIsLatest
<1>1. BootInv => LifecycleFlagIsLatest
  BY DEF BootInv
<1> QED
  BY <1>1, BootInvariant, PTL

(* After a stop that succeeded with no start in flight, Debian stays down  *)
(* until somebody asks for a start.                                        *)
THEOREM StopAlwaysHolds == Spec => []StopHolds
<1>1. BootInv => StopHolds
  BY DEF BootInv, SettledIsQuiet, StopHolds
<1> QED
  BY <1>1, BootInvariant, PTL

=============================================================================
