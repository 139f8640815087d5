--------------------------- MODULE CodecTransport ---------------------------
(***************************************************************************)
(* The transport between dawnshell-codec (the client) and the worker it    *)
(* forks: one memfd with a control page, a request slot and a response     *)
(* slot, and two eventfds.  Client: start_worker, rpc, stop_worker in      *)
(* dawnshell_codec_client.c; worker: main in dawnshell_codec_worker.c.     *)
(*                                                                         *)
(* Requests are numbered 1, 2, ... in the order rpc() is called; the number*)
(* stands for the request's content.  What travels is its request ID and   *)
(* its sequence, both words that wrap at Word (2^32 in the code).  A slot  *)
(* is written and read in two parts, header and payload, because the other *)
(* side may be writing it meanwhile.  An eventfd is one bit: a read takes  *)
(* the whole counter.                                                      *)
(***************************************************************************)
EXTENDS Naturals

CONSTANTS
    Word,           \* modulus of uint32_t, 2^32 in the code
    MaxWork,        \* bound on the requests between CREATE and the clean-up
    CodecMayHang    \* may a call into the platform codec never return?

ASSUME TransportAssumption ==
    /\ Word \in Nat /\ Word >= 5
    /\ MaxWork \in Nat
    /\ CodecMayHang \in BOOLEAN

(* HELLO, CREATE, the session's requests, SESSION_STATS and CLOSE.         *)
MaxReq == MaxWork + 4
Reqs == 1..MaxReq

VARIABLES
    client,     \* control point of the client
    phase,      \* which request the command issues next, or has issued
    n,          \* number of the request last issued
    failed,     \* some rpc() returned -1
    slot,       \* the request slot: request in its header, in its payload
    answer,     \* the response slot: likewise
    reqSeq, respSeq, reqEvent, respEvent, shutdown,
    worker,     \* control point of the worker process
    term,       \* the worker's stop_requested
    wSeq, wHdr, \* the worker's copies of the sequence and the header
    runs        \* times each request was dispatched (2 means more than once)

clientVars == <<client, phase, n, failed>>
workerVars == <<worker, term, wSeq, wHdr, runs>>
control == <<reqSeq, respSeq, reqEvent, respEvent, shutdown>>
vars == <<clientVars, slot, answer, control, workerVars>>

ClientPcs == {"starting", "idle", "header", "payload", "published", "waiting",
              "woken", "parse", "copy", "stop", "reap500", "reap1000", "done",
              "dead"}
WorkerPcs == {"forked", "armed", "boot", "poll", "woken", "sequenced",
              "dispatch", "hung", "ran", "answered", "stored", "closing",
              "gone"}
Phases == {"hello", "create", "work", "stats", "close", "exit"}

-----------------------------------------------------------------------------
(* next_request_id++ wraps to 0; ++worker.sequence steps over 0.           *)
RequestId(r) == r % Word

(* Mutant of Sequence: a counter that is wider than its field.             *)
SequenceUnwrapped(r) == r

Sequence(r) == ((r - 1) % (Word - 1)) + 1

ParentGone == client = "dead"

(* SIGTERM to the worker: fatal before its handlers are installed.         *)
Terminate ==
    /\ worker' = IF worker \in {"forked", "armed"} THEN "gone" ELSE worker
    /\ term' = TRUE

Init ==
    /\ client = "starting" /\ phase = "hello" /\ n = 0
    /\ failed = FALSE
    /\ slot = [header |-> 0, payload |-> 0]
    /\ answer = [header |-> 0, payload |-> 0]
    /\ reqSeq = 0 /\ respSeq = 0
    /\ reqEvent = FALSE /\ respEvent = FALSE /\ shutdown = FALSE
    /\ worker = "forked" /\ term = FALSE
    /\ wSeq = 0 /\ wHdr = 0
    /\ runs = [r \in Reqs |-> 0]

-----------------------------------------------------------------------------
(* The client                                                              *)

(* The worker's first eventfd signal, within ten seconds.                  *)
WorkerReady ==
    /\ client = "starting"
    /\ respEvent
    /\ respEvent' = FALSE
    /\ client' = "idle"
    /\ UNCHANGED <<phase, n, failed, slot, answer, reqSeq, respSeq,
                   reqEvent, shutdown, workerVars>>

(* The worker exited, or the ten seconds are over.                         *)
StartFails ==
    /\ client = "starting"
    /\ ~respEvent
    /\ client' = "stop"
    /\ phase' = "exit"
    /\ UNCHANGED <<n, failed, slot, answer, control, workerVars>>

(* rpc(): the header, then the payload, then the sequence, then the signal.*)
WriteHeader ==
    /\ client = "idle"
    /\ phase # "exit"
    /\ phase = "work" => n < MaxWork + 2
    /\ n' = n + 1
    /\ slot' = [slot EXCEPT !.header = n + 1]
    /\ client' = "header"
    /\ UNCHANGED <<phase, failed, answer, control, workerVars>>

WritePayload ==
    /\ client = "header"
    /\ slot' = [slot EXCEPT !.payload = n]
    /\ client' = "payload"
    /\ UNCHANGED <<phase, n, failed, answer, control, workerVars>>

PublishRequest ==
    /\ client = "payload"
    /\ reqSeq' = Sequence(n)
    /\ client' = "published"
    /\ UNCHANGED <<phase, n, failed, slot, answer, respSeq, reqEvent,
                   respEvent, shutdown, workerVars>>

SignalRequest ==
    /\ client = "published"
    /\ reqEvent' = TRUE
    /\ client' = "waiting"
    /\ UNCHANGED <<phase, n, failed, slot, answer, reqSeq, respSeq,
                   respEvent, shutdown, workerVars>>

WaitResponse ==
    /\ client = "waiting"
    /\ respEvent
    /\ respEvent' = FALSE
    /\ client' = "woken"
    /\ UNCHANGED <<phase, n, failed, slot, answer, reqSeq, respSeq,
                   reqEvent, shutdown, workerVars>>

(* What the command issues after a request that failed: nothing after HELLO*)
(* or CREATE; statistics and CLOSE after a failed session (a failed        *)
(* key-frame request goes straight to CLOSE).                              *)
AfterFailure == CASE phase \in {"hello", "create", "close"} -> {"exit"}
                  [] phase = "work" -> {"stats", "close"}
                  [] phase = "stats" -> {"close"}
                  [] OTHER -> {phase}

AfterSuccess == CASE phase = "hello" -> {"create", "exit"}
                  [] phase = "create" -> {"work"}
                  [] phase = "work" -> {"work", "stats"}
                  [] phase = "stats" -> {"close"}
                  [] OTHER -> {"exit"}

RpcFails ==
    /\ client' = "idle"
    /\ failed' = TRUE
    /\ phase' \in AfterFailure

(* Mutant of RpcTimeout: wait_eventfd without a deadline.                  *)
RpcTimeoutNever ==
    /\ client = "waiting"
    /\ worker = "gone"
    /\ RpcFails
    /\ UNCHANGED <<n, slot, answer, control, workerVars>>

(* DSCB_WORKER_RPC_TIMEOUT_MS, 35 seconds.                                 *)
RpcTimeout ==
    /\ client = "waiting"
    /\ ~respEvent
    /\ RpcFails
    /\ UNCHANGED <<n, slot, answer, control, workerVars>>

CheckSequence ==
    /\ client = "woken"
    /\ \/ /\ respSeq = Sequence(n)
          /\ client' = "parse"
          /\ UNCHANGED <<failed, phase>>
       \/ /\ respSeq # Sequence(n)
          /\ RpcFails
    /\ UNCHANGED <<n, slot, answer, control, workerVars>>

(* parse_response: the header must carry this request's ID.                *)
ParseHeader ==
    /\ client = "parse"
    /\ \/ /\ RequestId(answer.header) = RequestId(n)
          /\ client' = "copy"
          /\ UNCHANGED <<failed, phase>>
       \/ /\ RequestId(answer.header) # RequestId(n)
          /\ RpcFails
    /\ UNCHANGED <<n, slot, answer, control, workerVars>>

(* parse_response copies the payload; the status in it may be an error,    *)
(* which ends the session like a failure.  A request ID of 0 is rejected.  *)
CopyPayload ==
    /\ client = "copy"
    /\ client' = "idle"
    /\ phase' \in IF RequestId(n) = 0 THEN AfterFailure
                  ELSE AfterSuccess \cup AfterFailure
    /\ UNCHANGED <<n, failed, slot, answer, control, workerVars>>

(* The session's input may end without another request.                    *)
EndOfWork ==
    /\ client = "idle"
    /\ phase = "work"
    /\ phase' = "stats"
    /\ UNCHANGED <<client, n, failed, slot, answer, control, workerVars>>

(* exit runs stop_worker.                                                  *)
Exit ==
    /\ client = "idle"
    /\ phase = "exit"
    /\ client' = "stop"
    /\ UNCHANGED <<phase, n, failed, slot, answer, control, workerVars>>

StopWorker ==
    /\ client = "stop"
    /\ shutdown' = TRUE
    /\ reqEvent' = TRUE
    /\ client' = "reap500"
    /\ UNCHANGED <<phase, n, failed, slot, answer, reqSeq, respSeq,
                   respEvent, workerVars>>

Reap ==
    /\ client \in {"reap500", "reap1000"}
    /\ worker = "gone"
    /\ client' = "done"
    /\ UNCHANGED <<phase, n, failed, slot, answer, control, workerVars>>

ReapTimeout ==
    /\ client = "reap500"
    /\ worker # "gone"
    /\ Terminate
    /\ client' = "reap1000"
    /\ UNCHANGED <<phase, n, failed, slot, answer, control, wSeq, wHdr,
                   runs>>

(* Mutant of KillWorker: the client does not insist.                       *)
KillWorkerNever ==
    /\ client = "reap1000"
    /\ worker # "gone"
    /\ client' = "done"
    /\ UNCHANGED <<phase, n, failed, slot, answer, control, workerVars>>

(* SIGKILL and a blocking waitpid.                                         *)
KillWorker ==
    /\ client = "reap1000"
    /\ worker # "gone"
    /\ worker' = "gone"
    /\ client' = "done"
    /\ UNCHANGED <<phase, n, failed, slot, answer, control, term, wSeq,
                   wHdr, runs>>

ClientStep ==
    \/ WorkerReady \/ StartFails
    \/ WriteHeader \/ WritePayload \/ PublishRequest \/ SignalRequest
    \/ WaitResponse \/ RpcTimeout \/ CheckSequence \/ ParseHeader
    \/ CopyPayload \/ EndOfWork \/ Exit
    \/ StopWorker \/ Reap \/ ReapTimeout \/ KillWorker

(* The client is killed: the kernel sends the parent-death signal, unless  *)
(* the child has not asked for it yet.                                     *)
ClientKilled ==
    /\ client \notin {"done", "dead"}
    /\ client' = "dead"
    /\ IF worker = "forked" THEN UNCHANGED <<worker, term>> ELSE Terminate
    /\ UNCHANGED <<phase, n, failed, slot, answer, control, wSeq, wHdr,
                   runs>>

-----------------------------------------------------------------------------
(* The worker                                                              *)

(* The child of start_worker: parent-death signal, then is the parent gone?*)
ArmParentDeath ==
    /\ worker = "forked"
    /\ worker' = IF ParentGone THEN "gone" ELSE "armed"
    /\ UNCHANGED <<clientVars, slot, answer, control, term, wSeq, wHdr, runs>>

(* Descriptors, linker set-up, execl; or one of them fails.                *)
ExecWorker ==
    /\ worker = "armed"
    /\ worker' \in {"boot", "gone"}
    /\ UNCHANGED <<clientVars, slot, answer, control, term, wSeq, wHdr, runs>>

(* main: mapping, parent check, WORKER_READY and the first signal.         *)
AnnounceReady ==
    /\ worker = "boot"
    /\ \/ /\ ~ParentGone
          /\ respEvent' = TRUE
          /\ worker' = "poll"
       \/ /\ UNCHANGED respEvent
          /\ worker' = "gone"
    /\ UNCHANGED <<clientVars, slot, answer, reqSeq, respSeq, reqEvent,
                   shutdown, term, wSeq, wHdr, runs>>

(* Mutant of PollRequest: the event is noticed but not consumed.           *)
PollRequestKeepsEvent ==
    /\ worker = "poll"
    /\ ~term
    /\ reqEvent
    /\ worker' = "woken"
    /\ UNCHANGED <<clientVars, slot, answer, control, term, wSeq, wHdr, runs>>

PollRequest ==
    /\ worker = "poll"
    /\ ~term
    /\ reqEvent
    /\ reqEvent' = FALSE
    /\ worker' = "woken"
    /\ UNCHANGED <<clientVars, slot, answer, reqSeq, respSeq, respEvent,
                   shutdown, term, wSeq, wHdr, runs>>

(* Mutant of LeaveLoop: neither the signal nor the parent is looked at.    *)
LeaveLoopNever ==
    /\ worker = "poll"
    /\ term \/ (~reqEvent /\ ParentGone)
    /\ UNCHANGED vars

(* stop_requested, or a second without a request and the parent is gone.   *)
LeaveLoop ==
    /\ worker = "poll"
    /\ term \/ (~reqEvent /\ ParentGone)
    /\ worker' = "closing"
    /\ UNCHANGED <<clientVars, slot, answer, control, term, wSeq, wHdr, runs>>

ReadSequence ==
    /\ worker = "woken"
    /\ wSeq' = reqSeq
    /\ worker' = IF shutdown THEN "closing" ELSE "sequenced"
    /\ UNCHANGED <<clientVars, slot, answer, control, term, wHdr, runs>>

ReadHeader ==
    /\ worker = "sequenced"
    /\ wHdr' = slot.header
    /\ worker' = "dispatch"
    /\ UNCHANGED <<clientVars, slot, answer, control, term, wSeq, runs>>

(* dispatch_request works on the payload in place and leaves its output in *)
(* the response slot.                                                      *)
Dispatch ==
    /\ worker = "dispatch"
    /\ runs' = [r \in Reqs |-> IF r = wHdr /\ runs[r] < 2 THEN runs[r] + 1
                               ELSE runs[r]]
    /\ answer' = [answer EXCEPT !.payload = slot.payload]
    /\ worker' = "ran"
    /\ UNCHANGED <<clientVars, slot, control, term, wSeq, wHdr>>

(* External: a call into the platform codec that never returns.            *)
CodecHangs ==
    /\ CodecMayHang
    /\ worker = "dispatch"
    /\ worker' = "hung"
    /\ UNCHANGED <<clientVars, slot, answer, control, term, wSeq, wHdr, runs>>

WriteResponseHeader ==
    /\ worker = "ran"
    /\ answer' = [answer EXCEPT !.header = wHdr]
    /\ worker' = "answered"
    /\ UNCHANGED <<clientVars, slot, control, term, wSeq, wHdr, runs>>

(* Mutant of PublishResponse: stores the sequence of the request slot.     *)
PublishResponseReread ==
    /\ worker = "answered"
    /\ respSeq' = reqSeq
    /\ worker' = "stored"
    /\ UNCHANGED <<clientVars, slot, answer, reqSeq, reqEvent, respEvent,
                   shutdown, term, wSeq, wHdr, runs>>

PublishResponse ==
    /\ worker = "answered"
    /\ respSeq' = wSeq
    /\ worker' = "stored"
    /\ UNCHANGED <<clientVars, slot, answer, reqSeq, reqEvent, respEvent,
                   shutdown, term, wSeq, wHdr, runs>>

SignalResponse ==
    /\ worker = "stored"
    /\ respEvent' = TRUE
    /\ worker' = "poll"
    /\ UNCHANGED <<clientVars, slot, answer, reqSeq, respSeq, reqEvent,
                   shutdown, term, wSeq, wHdr, runs>>

(* Every session is closed, then the process exits.                        *)
CloseSessions ==
    /\ worker = "closing"
    /\ worker' = "gone"
    /\ UNCHANGED <<clientVars, slot, answer, control, term, wSeq, wHdr, runs>>

WorkerStep ==
    \/ ArmParentDeath \/ ExecWorker \/ AnnounceReady
    \/ PollRequest \/ LeaveLoop \/ ReadSequence \/ ReadHeader \/ Dispatch
    \/ WriteResponseHeader \/ PublishResponse \/ SignalResponse
    \/ CloseSessions

-----------------------------------------------------------------------------
(* The command is over and its worker is gone, or hung beyond its reach.   *)
Over ==
    /\ client \in {"done", "dead"}
    /\ worker \in {"gone", "hung"}
    /\ UNCHANGED vars

Next == ClientStep \/ ClientKilled \/ WorkerStep \/ CodecHangs \/ Over

Spec == Init /\ [][Next]_vars

(* Every wait of the client has a deadline and every process gets the CPU. *)
FairSpec == Spec /\ WF_vars(ClientStep) /\ WF_vars(WorkerStep)

-----------------------------------------------------------------------------
(* Sequences stay words of the control page; slots hold requests issued.   *)
TypeOK ==
    /\ client \in ClientPcs /\ phase \in Phases
    /\ n \in 0..MaxReq
    /\ failed \in BOOLEAN
    /\ slot \in [header : 0..MaxReq, payload : 0..MaxReq]
    /\ answer \in [header : 0..MaxReq, payload : 0..MaxReq]
    /\ reqSeq \in 0..(Word - 1) /\ respSeq \in 0..(Word - 1)
    /\ reqEvent \in BOOLEAN /\ respEvent \in BOOLEAN /\ shutdown \in BOOLEAN
    /\ worker \in WorkerPcs /\ term \in BOOLEAN
    /\ wSeq \in 0..(Word - 1) /\ wHdr \in 0..MaxReq
    /\ runs \in [Reqs -> 0..2]

(* rpc() never hands its caller another request's answer: whatever timed   *)
(* out before and however late the worker answers, a payload that passed   *)
(* the sequence and the header check was computed from the payload of the  *)
(* request just sent, and that request has been dispatched.                *)
AcceptedIsOwn ==
    client = "copy" => /\ answer.payload = n
                       /\ answer.header = n
                       /\ runs[n] > 0

(* Until an rpc() fails, the worker dispatches every request once, and it  *)
(* is asleep whenever the client is free to reuse the slots.               *)
OnceUntilFailure ==
    ~failed => /\ \A r \in Reqs : runs[r] <= 1
               /\ client \in {"idle", "header", "payload"} =>
                     worker \in {"poll", "closing", "gone"}

(* stop_worker returns only after the worker has been reaped, even when it *)
(* is stuck in the platform codec.                                         *)
StopReaps == client = "done" => worker = "gone"

(* Every command ends: no rpc() and no step of stop_worker waits for ever, *)
(* whatever the worker does.                                               *)
CommandEnds == <>(client \in {"done", "dead"})

(* A worker that comes back from the platform codec notices that its client*)
(* was killed, wherever the two were: by the signal, by its own look at the*)
(* parent or, before either works, by being killed.                        *)
WorkerFollowsClient == client = "dead" ~> worker \in {"gone", "hung"}

(* "Parent death terminates the child and releases its sessions"           *)
(* (docs/architecture.md).  The worker's SIGTERM handler only sets a flag, *)
(* which a worker inside the platform codec does not get to look at.       *)
ParentDeathEndsWorker == client = "dead" ~> worker = "gone"

(* Each rpc() is a call of the abstract synchronous service.               *)
Rpc == INSTANCE SyncRpc WITH
    current <- n,
    pending <- client \in {"header", "payload", "published", "waiting",
                           "woken", "parse", "copy"},
    served <- [r \in 1..n |-> runs[r]],
    failed <- failed \/ client = "dead"

(* The transport implements SyncRpc.                                       *)
ImplementsRpc == Rpc!Spec
=============================================================================
