----------------------- MODULE CodecTransport_proofs -----------------------
(***************************************************************************)
(* Proofs about CodecTransport, for every width of the sequence word from  *)
(* three bits up, any number of requests and any hang of the codec: rpc()  *)
(* returns its own answer, the worker runs a request once until an rpc()   *)
(* fails, stop_worker reaps, and the transport implements SyncRpc.         *)
(***************************************************************************)
EXTENDS CodecTransport, Integers, TLAPS

(* The request n has been stored in the control page.                      *)
Published == client \in {"published", "waiting", "woken", "parse", "copy"}

(* rpc() runs.                                                             *)
Pending == client \in {"header", "payload"} \/ Published

(* The client still issues requests.                                       *)
Issuing == client = "idle" \/ Pending

(* How far the control page may lag behind the request last issued: after  *)
(* the first failure at most statistics and CLOSE are still sent.          *)
Lag ==
    IF ~failed THEN IF Pending THEN 1 ELSE 0
    ELSE IF phase = "exit" THEN 3
    ELSE IF phase = "close" THEN IF Pending THEN 3 ELSE 2
    ELSE IF Pending THEN 2 ELSE 1

(* The request last stored in the control page.                            *)
Sent == IF client \in {"header", "payload"} THEN n - 1 ELSE n

(* A word that is fresh, or the sequence of a request from oldest to       *)
(* newest.                                                                 *)
Between(word, oldest, newest) ==
    word = 0 \/ \E r \in 1..newest : oldest <= r /\ word = Sequence(r)

(* How many requests each phase may have issued.                           *)
Counted ==
    /\ client \in {"starting", "idle"} =>
          /\ phase \in {"hello", "create"} => n <= 1
          /\ phase \in {"work", "stats"} => n <= MaxWork + 2
          /\ phase = "close" => n <= MaxWork + 3
    /\ Pending =>
          /\ n >= 1 /\ phase # "exit"
          /\ phase \in {"hello", "create"} => n <= 2
          /\ phase = "work" => n <= MaxWork + 2
          /\ phase = "stats" => n <= MaxWork + 3
    /\ client = "starting" => n = 0 /\ ~failed /\ phase = "hello"
    /\ phase = "hello" => (client = "idle" => n = 0) /\ (Pending => n = 1)
    /\ failed /\ Issuing => phase \in {"stats", "close", "exit"}

(* No request is known to the worker before it was issued.                 *)
Causal ==
    /\ slot.header <= n /\ slot.payload <= n /\ wHdr <= n
    /\ \A r \in Reqs : r > n => runs[r] = 0

(* The words of the control page and the worker's copy of one.             *)
Words ==
    Issuing \/ client = "starting" =>
      /\ Between(reqSeq, n - Lag, Sent)
      /\ Between(respSeq, n - Lag, Sent)
      /\ Between(wSeq, n - Lag, Sent)

(* The request slot holds the request that rpc() is about.                 *)
SlotIsOwn ==
    /\ Pending => slot.header = n
    /\ client = "payload" \/ Published => slot.payload = n
    /\ Published => reqSeq = Sequence(n)

(* A worker that has read the sequence of request n works for request n,   *)
(* and a published answer to request n is the answer to request n.         *)
AnswerIsOwn ==
    Published =>
      /\ wSeq = Sequence(n) =>
           /\ worker \in {"dispatch", "hung", "ran", "answered"} => wHdr = n
           /\ worker \in {"ran", "answered", "stored"} =>
                 answer.payload = n /\ runs[n] > 0
           /\ worker \in {"answered", "stored"} => answer.header = n
      /\ respSeq = Sequence(n) =>
           wSeq = Sequence(n) /\ answer.payload = n /\ answer.header = n
           /\ runs[n] > 0
      /\ client \in {"parse", "copy"} => respSeq = Sequence(n)

(* The worker is between a request's event and its answer's event.         *)
Busy == {"woken", "sequenced", "dispatch", "hung", "ran", "answered",
         "stored"}

(* How the client ends and what that does to the worker.                   *)
Ending ==
    /\ shutdown => client \in {"reap500", "reap1000", "done", "dead"}
    /\ client \in {"reap500", "reap1000", "done"} => shutdown
    /\ term => client \in {"reap1000", "done", "dead"}
    /\ client = "dead" => term \/ worker \in {"forked", "gone"}
    /\ client = "done" => worker = "gone"

(* Until the first failure client and worker take turns.                   *)
Turns ==
    ~failed =>
      /\ client = "starting" =>
           /\ ~reqEvent
           /\ worker \in {"forked", "armed", "boot", "poll", "gone"}
           /\ respEvent => worker = "poll"
      /\ Issuing /\ client # "waiting" =>
           worker = "poll" /\ ~reqEvent /\ ~respEvent
      /\ client \in {"header", "payload", "published"} => runs[n] = 0
      /\ client \in {"woken", "parse", "copy"} => respSeq = Sequence(n)
      /\ client = "waiting" =>
           \/ worker = "poll" /\ reqEvent /\ ~respEvent /\ runs[n] = 0
           \/ worker \in Busy /\ ~reqEvent /\ ~respEvent
           \/ worker = "poll" /\ ~reqEvent /\ respEvent
              /\ respSeq = Sequence(n)
      /\ client = "waiting"
           /\ worker \in {"sequenced", "dispatch", "hung", "ran", "answered",
                          "stored"} => wSeq = Sequence(n)
      /\ worker = "stored" /\ client = "waiting" => respSeq = Sequence(n)
      /\ client = "stop" => worker \notin Busy /\ ~reqEvent
      /\ client = "dead" /\ worker \in Busy /\ ~shutdown =>
           n >= 1 /\ slot.header = n
      /\ worker \in {"woken", "sequenced", "dispatch"} /\ ~shutdown =>
           client \in {"waiting", "dead"} /\ runs[n] = 0
      /\ worker = "dispatch" => wHdr = n
      /\ shutdown => worker \notin Busy \ {"woken"}
      /\ \A r \in Reqs : runs[r] <= 1

TransportInv ==
    /\ TypeOK
    /\ Counted
    /\ Causal
    /\ Words
    /\ SlotIsOwn
    /\ AnswerIsOwn
    /\ Ending
    /\ Turns
-----------------------------------------------------------------------------
(* Arithmetic of the sequence word.                                        *)

(* Division with remainder.                                                *)
LEMMA DivisionFacts ==
    ASSUME NEW x \in Nat, NEW m \in Nat, m > 0
    PROVE  /\ x % m \in 0..(m - 1)
           /\ x \div m \in Int
           /\ x = m * (x \div m) + (x % m)
OBVIOUS

(* Two numbers with the same remainder differ by a multiple.               *)
LEMMA SameRemainder ==
    ASSUME NEW m \in Nat, NEW x \in Int, NEW y \in Int, NEW a \in Int,
           NEW b \in Int, NEW c \in Int, x = m * a + c, y = m * b + c
    PROVE  y - x = m * (b - a)
OBVIOUS

(* ++worker.sequence steps over 0: a published sequence is a word and is   *)
(* never the 0 of a fresh control page.                                    *)
LEMMA SequenceIsWord ==
    ASSUME NEW r \in Nat, r >= 1
    PROVE  Sequence(r) \in 1..(Word - 1)
<1>1. r - 1 \in Nat /\ Word - 1 \in Nat /\ Word - 1 > 0
  BY TransportAssumption
<1>2. (r - 1) % (Word - 1) \in 0..((Word - 1) - 1)
  BY <1>1, DivisionFacts
<1> QED
  BY <1>1, <1>2, TransportAssumption DEF Sequence

(* A number below m that is m times an integer is 0.                       *)
LEMMA NoMultipleBelow ==
    ASSUME NEW m \in Nat, m > 0, NEW k \in Int, NEW d \in Nat,
           d < m, d = m * k
    PROVE  d = 0
<1>1. k <= 0 \/ k >= 1
  OBVIOUS
<1>2. CASE k >= 1
  <2>1. m * k >= m
    BY <1>2
  <2> QED
    BY <2>1
<1>3. CASE k <= 0
  <2>1. m * k <= 0
    BY <1>3
  <2> QED
    BY <2>1
<1> QED
  BY <1>1, <1>2, <1>3

(* Two requests fewer than Word - 1 apart have different sequences, even   *)
(* when the counter wraps between them.                                    *)
LEMMA SequencesDiffer ==
    ASSUME NEW r \in Nat, NEW s \in Nat, r >= 1, r < s, s - r < Word - 1
    PROVE  Sequence(r) # Sequence(s)
<1> DEFINE m == Word - 1
<1> DEFINE c == (r - 1) % m
<1>1. r - 1 \in Nat /\ s - 1 \in Nat /\ m \in Nat /\ m > 0
      /\ s - r \in Nat /\ s - r < m /\ s - r # 0
  BY TransportAssumption
<1>2. Sequence(r) = c + 1 /\ Sequence(s) = ((s - 1) % m) + 1
  BY DEF Sequence
<1> HIDE DEF m
<1>3. /\ c \in 0..(m - 1) /\ (r - 1) \div m \in Int
      /\ r - 1 = m * ((r - 1) \div m) + c
  BY <1>1, DivisionFacts
<1>4. /\ (s - 1) % m \in 0..(m - 1) /\ (s - 1) \div m \in Int
      /\ s - 1 = m * ((s - 1) \div m) + ((s - 1) % m)
  BY <1>1, DivisionFacts
<1> HIDE DEF c
<1>5. ASSUME c = (s - 1) % m
      PROVE  FALSE
  <2> DEFINE a == (r - 1) \div m
  <2> DEFINE b == (s - 1) \div m
  <2>1. /\ a \in Int /\ b \in Int /\ c \in Int
        /\ r - 1 = m * a + c /\ s - 1 = m * b + c
    BY <1>3, <1>4, <1>5
  <2> HIDE DEF a, b
  <2>2. (s - 1) - (r - 1) = m * (b - a)
    BY <1>1, <2>1, SameRemainder
  <2>3. s - r = m * (b - a) /\ b - a \in Int
    BY <2>1, <2>2
  <2> QED
    BY <1>1, <2>3, NoMultipleBelow
<1> QED
  BY <1>2, <1>3, <1>4, <1>5

(* No phase issues more requests than the table of requests has.           *)
LEMMA IssueInBounds ==
    ASSUME TypeOK, Counted, WriteHeader
    PROVE  n + 1 \in Reqs
<1>1. n \in Nat /\ phase \in Phases \ {"exit"} /\ client = "idle"
  BY DEF TypeOK, WriteHeader
<1>2. n + 1 <= MaxWork + 4
  BY <1>1, TransportAssumption DEF Counted, WriteHeader, Phases
<1> QED
  BY <1>1, <1>2, TransportAssumption DEF Reqs, MaxReq

(* Every step keeps the types; the sequence stays a word of the page.      *)
LEMMA TypeOKStep ==
    ASSUME TransportInv, Next
    PROVE  TypeOK'
<1> USE TransportAssumption DEF TransportInv, clientVars, workerVars, control
<1>1. CASE WriteHeader
  <2>1. n' \in 0..MaxReq
    BY <1>1, IssueInBounds DEF WriteHeader, Reqs
  <2>2. slot' \in [header : 0..MaxReq, payload : 0..MaxReq]
    BY <1>1, <2>1 DEF WriteHeader, TypeOK
  <2> QED
    BY <1>1, <2>1, <2>2 DEF WriteHeader, TypeOK, ClientPcs
<1>2. CASE PublishRequest
  <2>1. Sequence(n) \in 0..(Word - 1)
    <3>1. n \in Nat /\ n >= 1
      BY <1>2 DEF PublishRequest, TypeOK, MaxReq, Counted, Pending
    <3>2. Sequence(n) \in 1..(Word - 1)
      BY <3>1, SequenceIsWord
    <3> QED
      BY <3>2
  <2> QED
    BY <1>2, <2>1 DEF PublishRequest, TypeOK, ClientPcs
<1>3. CASE CheckSequence
  <2>1. failed' \in BOOLEAN
    BY <1>3 DEF CheckSequence, RpcFails, TypeOK
  <2>2. client' \in ClientPcs /\ phase' \in Phases
    BY <1>3 DEF CheckSequence, RpcFails, AfterFailure, TypeOK, ClientPcs, Phases
  <2> QED
    BY <1>3, <2>1, <2>2 DEF CheckSequence, TypeOK
<1>4. CASE ParseHeader
  <2>1. failed' \in BOOLEAN
    BY <1>4 DEF ParseHeader, RpcFails, TypeOK
  <2>2. client' \in ClientPcs /\ phase' \in Phases
    BY <1>4 DEF ParseHeader, RpcFails, AfterFailure, TypeOK, ClientPcs, Phases
  <2> QED
    BY <1>4, <2>1, <2>2 DEF ParseHeader, TypeOK
<1>5. CASE CopyPayload
  BY <1>5 DEF CopyPayload, AfterSuccess, AfterFailure, TypeOK, ClientPcs,
      WorkerPcs, Phases, MaxReq, Reqs, Counted, Pending, Published
<1>6. CASE AnnounceReady
  <2>1. respEvent' \in BOOLEAN
    BY <1>6 DEF AnnounceReady, TypeOK
  <2> QED
    BY <1>6, <2>1 DEF AnnounceReady, TypeOK, WorkerPcs
<1>7. CASE Dispatch
  <2>1. runs' \in [Reqs -> 0..2]
    BY <1>7 DEF Dispatch, TypeOK
  <2>2. answer' \in [header : 0..MaxReq, payload : 0..MaxReq]
    BY <1>7 DEF Dispatch, TypeOK
  <2> QED
    BY <1>7, <2>1, <2>2 DEF Dispatch, TypeOK, WorkerPcs
<1>8. CASE WriteResponseHeader
  <2>1. answer' \in [header : 0..MaxReq, payload : 0..MaxReq]
    BY <1>8 DEF WriteResponseHeader, TypeOK
  <2> QED
    BY <1>8, <2>1 DEF WriteResponseHeader, TypeOK, WorkerPcs
<1>9. CASE WorkerReady
  BY <1>9 DEF WorkerReady, TypeOK, ClientPcs
<1>10. CASE StartFails
  BY <1>10 DEF StartFails, TypeOK, ClientPcs, WorkerPcs, Phases
<1>11. CASE WritePayload
  <2>1. slot' \in [header : 0..MaxReq, payload : 0..MaxReq]
    BY <1>11 DEF WritePayload, TypeOK
  <2> QED
    BY <1>11, <2>1 DEF WritePayload, TypeOK, ClientPcs
<1>12. CASE SignalRequest
  BY <1>12 DEF SignalRequest, TypeOK, ClientPcs, WorkerPcs, Phases
<1>13. CASE WaitResponse
  BY <1>13 DEF WaitResponse, TypeOK, ClientPcs
<1>14. CASE RpcTimeout
  BY <1>14 DEF RpcTimeout, RpcFails, AfterFailure, TypeOK, ClientPcs,
      WorkerPcs, Phases
<1>15. CASE EndOfWork
  BY <1>15 DEF EndOfWork, TypeOK, ClientPcs, WorkerPcs, Phases
<1>16. CASE Exit
  BY <1>16 DEF Exit, TypeOK, ClientPcs, WorkerPcs, Phases
<1>17. CASE StopWorker
  BY <1>17 DEF StopWorker, TypeOK, ClientPcs, WorkerPcs, Phases
<1>18. CASE Reap
  BY <1>18 DEF Reap, TypeOK, ClientPcs, WorkerPcs, Phases
<1>19. CASE ReapTimeout
  BY <1>19 DEF ReapTimeout, Terminate, TypeOK, ClientPcs, WorkerPcs, Phases
<1>20. CASE KillWorker
  BY <1>20 DEF KillWorker, TypeOK, ClientPcs, WorkerPcs, Phases
<1>21. CASE ClientKilled
  <2>1. worker' \in WorkerPcs /\ term' \in BOOLEAN
    BY <1>21 DEF ClientKilled, Terminate, TypeOK, WorkerPcs
  <2> QED
    BY <1>21, <2>1 DEF ClientKilled, TypeOK, ClientPcs
<1>22. CASE ArmParentDeath
  BY <1>22 DEF ArmParentDeath, ParentGone, TypeOK, ClientPcs, WorkerPcs,
      Phases
<1>23. CASE ExecWorker
  BY <1>23 DEF ExecWorker, TypeOK, ClientPcs, WorkerPcs, Phases
<1>24. CASE PollRequest
  BY <1>24 DEF PollRequest, TypeOK, ClientPcs, WorkerPcs, Phases
<1>25. CASE LeaveLoop
  BY <1>25 DEF LeaveLoop, ParentGone, TypeOK, ClientPcs, WorkerPcs, Phases
<1>26. CASE ReadSequence
  BY <1>26 DEF ReadSequence, TypeOK, ClientPcs, WorkerPcs, Phases
<1>27. CASE ReadHeader
  BY <1>27 DEF ReadHeader, TypeOK, ClientPcs, WorkerPcs, Phases
<1>28. CASE PublishResponse
  BY <1>28 DEF PublishResponse, TypeOK, ClientPcs, WorkerPcs, Phases
<1>29. CASE SignalResponse
  BY <1>29 DEF SignalResponse, TypeOK, ClientPcs, WorkerPcs, Phases
<1>30. CASE CloseSessions
  BY <1>30 DEF CloseSessions, TypeOK, ClientPcs, WorkerPcs, Phases
<1>31. CASE CodecHangs
  BY <1>31 DEF CodecHangs, TypeOK, ClientPcs, WorkerPcs, Phases
<1>32. CASE Over
  BY <1>32 DEF Over, vars, TypeOK, ClientPcs, WorkerPcs, Phases
<1> QED
  BY <1>1, <1>2, <1>3, <1>4, <1>5, <1>6, <1>7, <1>8, <1>9, <1>10, <1>11,
     <1>12, <1>13, <1>14, <1>15, <1>16, <1>17, <1>18, <1>19, <1>20, <1>21,
     <1>22, <1>23, <1>24, <1>25, <1>26, <1>27, <1>28, <1>29, <1>30, <1>31,
     <1>32
  DEF Next, ClientStep, WorkerStep

(* Every step keeps the request count of the phases.                       *)
LEMMA CountedStep ==
    ASSUME TransportInv, Next
    PROVE  Counted'
<1> USE TransportAssumption DEF TransportInv, clientVars, workerVars, control
<1>1. CASE WriteHeader
  BY <1>1 DEF WriteHeader, TypeOK, ClientPcs, Phases, MaxReq, Counted,
      Pending, Published, Issuing
<1>2. CASE RpcTimeout
  BY <1>2 DEF RpcTimeout, RpcFails, AfterFailure, TypeOK, ClientPcs, Phases,
      MaxReq, Counted, Pending, Published, Issuing
<1>3. CASE CheckSequence
  BY <1>3 DEF CheckSequence, RpcFails, AfterFailure, TypeOK, ClientPcs,
      Phases, MaxReq, Counted, Pending, Published, Issuing
<1>4. CASE ParseHeader
  BY <1>4 DEF ParseHeader, RpcFails, AfterFailure, TypeOK, ClientPcs, Phases,
      MaxReq, Counted, Pending, Published, Issuing
<1>5. CASE CopyPayload
  BY <1>5 DEF CopyPayload, AfterSuccess, AfterFailure, TypeOK, ClientPcs,
      Phases, MaxReq, Counted, Pending, Published, Issuing
<1>6. CASE EndOfWork
  BY <1>6 DEF EndOfWork, TypeOK, ClientPcs, Phases, MaxReq, Counted, Pending,
      Published, Issuing
<1>7. CASE WorkerReady \/ StartFails \/ WritePayload \/ PublishRequest
           \/ SignalRequest \/ WaitResponse
  BY <1>7 DEF WorkerReady, StartFails, WritePayload, PublishRequest,
      SignalRequest, WaitResponse, TypeOK, ClientPcs, Phases, MaxReq,
      Counted, Pending, Published, Issuing
<1>8. CASE Exit \/ StopWorker \/ Reap \/ ReapTimeout \/ KillWorker
  BY <1>8 DEF Exit, StopWorker, Reap, ReapTimeout, Terminate, KillWorker,
      TypeOK, ClientPcs, Phases, MaxReq, Counted, Pending, Published, Issuing
<1>9. CASE ClientKilled \/ ArmParentDeath \/ ExecWorker \/ AnnounceReady
           \/ PollRequest \/ LeaveLoop
  BY <1>9 DEF ClientKilled, Terminate, ArmParentDeath, ParentGone,
      ExecWorker, AnnounceReady, PollRequest, LeaveLoop, TypeOK, ClientPcs,
      Phases, MaxReq, Counted, Pending, Published, Issuing
<1>10. CASE ReadSequence \/ ReadHeader \/ Dispatch \/ WriteResponseHeader
            \/ PublishResponse \/ SignalResponse
  BY <1>10 DEF ReadSequence, ReadHeader, Dispatch, WriteResponseHeader,
      PublishResponse, SignalResponse, TypeOK, ClientPcs, Phases, MaxReq,
      Counted, Pending, Published, Issuing
<1>11. CASE CloseSessions \/ CodecHangs \/ Over
  BY <1>11 DEF CloseSessions, CodecHangs, Over, vars, TypeOK, ClientPcs,
      Phases, MaxReq, Counted, Pending, Published, Issuing
<1> QED
  BY <1>1, <1>2, <1>3, <1>4, <1>5, <1>6, <1>7, <1>8, <1>9, <1>10, <1>11
  DEF Next, ClientStep, WorkerStep

(* Nothing reaches the slots, the worker or its counts before it is issued.*)
LEMMA CausalStep ==
    ASSUME TransportInv, Next
    PROVE  Causal'
<1> USE TransportAssumption DEF TransportInv, clientVars, workerVars, control
<1>1. CASE WriteHeader
  <2>1. slot'.header = n + 1 /\ slot'.payload = slot.payload
        /\ n' = n + 1 /\ n \in Nat /\ slot.payload \in Nat /\ wHdr \in Nat
    BY <1>1 DEF WriteHeader, TypeOK, MaxReq
  <2>2. wHdr' = wHdr /\ runs' = runs
    BY <1>1 DEF WriteHeader
  <2> QED
    BY <2>1, <2>2 DEF Causal, Reqs
<1>2. CASE WritePayload
  <2>1. slot'.header = slot.header /\ slot'.payload = n /\ n \in Nat
    BY <1>2 DEF WritePayload, TypeOK, MaxReq
  <2> QED
    BY <1>2, <2>1 DEF WritePayload, Causal
<1>3. CASE ReadHeader
  BY <1>3 DEF ReadHeader, TypeOK, MaxReq, Reqs, Causal
<1>4. CASE Dispatch
  <2>1. n' = n /\ slot' = slot /\ wHdr' = wHdr /\ wHdr <= n
    BY <1>4 DEF Dispatch, Causal
  <2>2. ASSUME NEW r \in Reqs, r > n PROVE runs'[r] = 0
    <3>1. r # wHdr /\ runs[r] = 0
      BY <2>1, <2>2 DEF TypeOK, Causal, Reqs, MaxReq
    <3> QED
      BY <1>4, <2>2, <3>1 DEF Dispatch
  <2> QED
    BY <2>1, <2>2 DEF Causal
<1>5. CASE WorkerReady \/ StartFails \/ PublishRequest \/ SignalRequest
           \/ WaitResponse \/ RpcTimeout
  BY <1>5 DEF WorkerReady, StartFails, PublishRequest, SignalRequest,
      WaitResponse, RpcTimeout, RpcFails, AfterFailure, TypeOK, MaxReq, Reqs,
      Causal
<1>6. CASE CheckSequence \/ ParseHeader \/ CopyPayload \/ EndOfWork \/ Exit
           \/ StopWorker
  BY <1>6 DEF CheckSequence, RpcFails, AfterFailure, ParseHeader,
      CopyPayload, AfterSuccess, EndOfWork, Exit, StopWorker, TypeOK, MaxReq,
      Reqs, Causal
<1>7. CASE Reap \/ ReapTimeout \/ KillWorker
  BY <1>7 DEF Reap, ReapTimeout, Terminate, KillWorker, TypeOK, MaxReq, Reqs,
      Causal
<1>8. CASE ClientKilled \/ ArmParentDeath \/ ExecWorker \/ AnnounceReady
           \/ PollRequest \/ LeaveLoop
  BY <1>8 DEF ClientKilled, Terminate, ArmParentDeath, ParentGone,
      ExecWorker, AnnounceReady, PollRequest, LeaveLoop, TypeOK, MaxReq,
      Reqs, Causal
<1>9. CASE ReadSequence \/ WriteResponseHeader \/ PublishResponse
           \/ SignalResponse \/ CloseSessions \/ CodecHangs
  BY <1>9 DEF ReadSequence, WriteResponseHeader, PublishResponse,
      SignalResponse, CloseSessions, CodecHangs, TypeOK, MaxReq, Reqs, Causal
<1>10. CASE Over
  BY <1>10 DEF Over, vars, TypeOK, MaxReq, Reqs, Causal
<1> QED
  BY <1>1, <1>2, <1>3, <1>4, <1>5, <1>6, <1>7, <1>8, <1>9, <1>10
  DEF Next, ClientStep, WorkerStep

(* Every step keeps what shutdown, SIGTERM and reaping mean.               *)
LEMMA EndingStep ==
    ASSUME TransportInv, Next
    PROVE  Ending'
<1> USE TransportAssumption DEF TransportInv, clientVars, workerVars, control
<1>1. CASE ReapTimeout
  BY <1>1 DEF ReapTimeout, Terminate, TypeOK, Ending, WorkerPcs, ClientPcs
<1>2. CASE ClientKilled
  BY <1>2 DEF ClientKilled, Terminate, TypeOK, Ending, WorkerPcs, ClientPcs
<1>3. CASE StopWorker
  BY <1>3 DEF StopWorker, TypeOK, Ending, WorkerPcs, ClientPcs
<1>4. CASE WorkerReady \/ StartFails \/ WriteHeader \/ WritePayload
           \/ PublishRequest \/ SignalRequest
  BY <1>4 DEF WorkerReady, StartFails, WriteHeader, WritePayload,
      PublishRequest, SignalRequest, TypeOK, Ending, WorkerPcs, ClientPcs
<1>5. CASE WaitResponse \/ RpcTimeout \/ CheckSequence \/ ParseHeader
           \/ CopyPayload \/ EndOfWork
  BY <1>5 DEF WaitResponse, RpcTimeout, RpcFails, AfterFailure,
      CheckSequence, ParseHeader, CopyPayload, AfterSuccess, EndOfWork,
      TypeOK, Ending, WorkerPcs, ClientPcs
<1>6. CASE Exit \/ Reap \/ KillWorker
  BY <1>6 DEF Exit, Reap, KillWorker, TypeOK, Ending, WorkerPcs, ClientPcs
<1>7. CASE ArmParentDeath \/ ExecWorker \/ AnnounceReady \/ PollRequest
           \/ LeaveLoop \/ ReadSequence
  BY <1>7 DEF ArmParentDeath, ParentGone, ExecWorker, AnnounceReady,
      PollRequest, LeaveLoop, ReadSequence, TypeOK, Ending, WorkerPcs,
      ClientPcs
<1>8. CASE ReadHeader \/ Dispatch \/ WriteResponseHeader \/ PublishResponse
           \/ SignalResponse \/ CloseSessions
  BY <1>8 DEF ReadHeader, Dispatch, WriteResponseHeader, PublishResponse,
      SignalResponse, CloseSessions, TypeOK, Ending, WorkerPcs, ClientPcs
<1>9. CASE CodecHangs \/ Over
  BY <1>9 DEF CodecHangs, Over, vars, TypeOK, Ending, WorkerPcs, ClientPcs
<1> QED
  BY <1>1, <1>2, <1>3, <1>4, <1>5, <1>6, <1>7, <1>8, <1>9
  DEF Next, ClientStep, WorkerStep

(* rpc() alone writes the request slot, and in its order.                  *)
LEMMA SlotIsOwnStep ==
    ASSUME TransportInv, Next
    PROVE  SlotIsOwn'
<1> USE TransportAssumption DEF TransportInv, clientVars, workerVars, control
<1>1. CASE WriteHeader
  BY <1>1 DEF WriteHeader, TypeOK, SlotIsOwn, Pending, Published, ClientPcs
<1>2. CASE WritePayload
  BY <1>2 DEF WritePayload, TypeOK, SlotIsOwn, Pending, Published, ClientPcs
<1>3. CASE PublishRequest
  BY <1>3 DEF PublishRequest, TypeOK, SlotIsOwn, Pending, Published,
      ClientPcs
<1>4. CASE WorkerReady \/ StartFails \/ SignalRequest \/ WaitResponse
           \/ RpcTimeout \/ CheckSequence
  BY <1>4 DEF WorkerReady, StartFails, SignalRequest, WaitResponse,
      RpcTimeout, RpcFails, AfterFailure, CheckSequence, TypeOK, SlotIsOwn,
      Pending, Published, ClientPcs
<1>5. CASE ParseHeader \/ CopyPayload \/ EndOfWork \/ Exit \/ StopWorker
           \/ Reap
  BY <1>5 DEF ParseHeader, RpcFails, AfterFailure, CopyPayload, AfterSuccess,
      EndOfWork, Exit, StopWorker, Reap, TypeOK, SlotIsOwn, Pending,
      Published, ClientPcs
<1>6. CASE ReapTimeout \/ KillWorker
  BY <1>6 DEF ReapTimeout, Terminate, KillWorker, TypeOK, SlotIsOwn, Pending,
      Published, ClientPcs
<1>7. CASE ClientKilled \/ ArmParentDeath \/ ExecWorker \/ AnnounceReady
           \/ PollRequest \/ LeaveLoop
  BY <1>7 DEF ClientKilled, Terminate, ArmParentDeath, ParentGone,
      ExecWorker, AnnounceReady, PollRequest, LeaveLoop, TypeOK, SlotIsOwn,
      Pending, Published, ClientPcs
<1>8. CASE ReadSequence \/ ReadHeader \/ Dispatch \/ WriteResponseHeader
           \/ PublishResponse \/ SignalResponse
  BY <1>8 DEF ReadSequence, ReadHeader, Dispatch, WriteResponseHeader,
      PublishResponse, SignalResponse, TypeOK, SlotIsOwn, Pending, Published,
      ClientPcs
<1>9. CASE CloseSessions \/ CodecHangs \/ Over
  BY <1>9 DEF CloseSessions, CodecHangs, Over, vars, TypeOK, SlotIsOwn,
      Pending, Published, ClientPcs
<1> QED
  BY <1>1, <1>2, <1>3, <1>4, <1>5, <1>6, <1>7, <1>8, <1>9
  DEF Next, ClientStep, WorkerStep

(* A late cycle of the worker can not make another request's answer look  *)
(* like request n's: its sequence is at most three requests old, and the  *)
(* word is wide enough to tell them apart.                                 *)
LEMMA AnswerIsOwnStep ==
    ASSUME TransportInv, Next
    PROVE  AnswerIsOwn'
<1> USE TransportAssumption DEF TransportInv, clientVars, workerVars, control
<1>1. CASE PublishRequest
  <2>1. ASSUME NEW word, Between(word, n - Lag, n - 1)
        PROVE  word # Sequence(n)
    <3>1. n \in Nat /\ n >= 1 /\ Lag \in 0..3
      BY <1>1 DEF PublishRequest, TypeOK, MaxReq, Counted, Pending, Lag
    <3>2. Sequence(n) # 0
      BY <3>1, SequenceIsWord
    <3>3. ASSUME NEW r \in 1..(n - 1), n - Lag <= r
          PROVE  Sequence(r) # Sequence(n)
      <4>1. r \in Nat /\ r >= 1 /\ r < n /\ n - r < Word - 1
        BY <3>1, <3>3
      <4> QED
        BY <3>1, <4>1, SequencesDiffer
    <3> QED
      BY <2>1, <3>2, <3>3 DEF Between
  <2>2. respSeq # Sequence(n) /\ wSeq # Sequence(n)
    BY <1>1, <2>1 DEF PublishRequest, Words, Issuing, Pending, Sent
  <2> QED
    BY <1>1, <2>2 DEF PublishRequest, AnswerIsOwn, Published
<1>2. CASE CheckSequence
  BY <1>2 DEF CheckSequence, RpcFails, AfterFailure, TypeOK, SlotIsOwn,
      AnswerIsOwn, Pending, Published, ClientPcs, Reqs, MaxReq, Counted
<1>3. CASE ReadSequence
  BY <1>3 DEF ReadSequence, TypeOK, SlotIsOwn, AnswerIsOwn, Pending,
      Published, ClientPcs, Reqs, MaxReq, Counted
<1>4. CASE ReadHeader
  BY <1>4 DEF ReadHeader, TypeOK, SlotIsOwn, AnswerIsOwn, Pending, Published,
      ClientPcs, Reqs, MaxReq, Counted
<1>5. CASE Dispatch
  <2>1. ASSUME Published, wSeq = Sequence(n)
        PROVE  runs'[n] > 0 /\ answer'.payload = n
    <3>1. n \in Reqs /\ wHdr = n /\ slot.payload = n
      BY <1>5, <2>1
      DEF Dispatch, TypeOK, SlotIsOwn, AnswerIsOwn, Counted, Pending, Reqs
    <3> QED
      BY <1>5, <3>1 DEF Dispatch, TypeOK
  <2>2. answer'.header = answer.header
    BY <1>5 DEF Dispatch, TypeOK
  <2> QED
    BY <1>5, <2>1, <2>2 DEF Dispatch, TypeOK, AnswerIsOwn, Published
<1>6. CASE WriteResponseHeader
  BY <1>6 DEF WriteResponseHeader, TypeOK, SlotIsOwn, AnswerIsOwn, Pending,
      Published, ClientPcs, Reqs, MaxReq, Counted
<1>7. CASE PublishResponse
  BY <1>7 DEF PublishResponse, TypeOK, SlotIsOwn, AnswerIsOwn, Pending,
      Published, ClientPcs, Reqs, MaxReq, Counted
<1>8. CASE WorkerReady \/ StartFails \/ WriteHeader \/ WritePayload
           \/ SignalRequest \/ WaitResponse
  BY <1>8 DEF WorkerReady, StartFails, WriteHeader, WritePayload,
      SignalRequest, WaitResponse, TypeOK, SlotIsOwn, AnswerIsOwn, Pending,
      Published, ClientPcs, Reqs, MaxReq, Counted
<1>9. CASE RpcTimeout \/ ParseHeader \/ CopyPayload \/ EndOfWork \/ Exit
           \/ StopWorker
  BY <1>9 DEF RpcTimeout, RpcFails, AfterFailure, ParseHeader, CopyPayload,
      AfterSuccess, EndOfWork, Exit, StopWorker, TypeOK, SlotIsOwn,
      AnswerIsOwn, Pending, Published, ClientPcs, Reqs, MaxReq, Counted
<1>10. CASE Reap \/ ReapTimeout \/ KillWorker
  BY <1>10 DEF Reap, ReapTimeout, Terminate, KillWorker, TypeOK, SlotIsOwn,
      AnswerIsOwn, Pending, Published, ClientPcs, Reqs, MaxReq, Counted
<1>11. CASE ClientKilled \/ ArmParentDeath \/ ExecWorker \/ AnnounceReady
            \/ PollRequest \/ LeaveLoop
  BY <1>11 DEF ClientKilled, Terminate, ArmParentDeath, ParentGone,
      ExecWorker, AnnounceReady, PollRequest, LeaveLoop, TypeOK, SlotIsOwn,
      AnswerIsOwn, Pending, Published, ClientPcs, Reqs, MaxReq, Counted
<1>12. CASE SignalResponse \/ CloseSessions \/ CodecHangs \/ Over
  BY <1>12 DEF SignalResponse, CloseSessions, CodecHangs, Over, vars, TypeOK,
      SlotIsOwn, AnswerIsOwn, Pending, Published, ClientPcs, Reqs, MaxReq,
      Counted
<1> QED
  BY <1>1, <1>2, <1>3, <1>4, <1>5, <1>6, <1>7, <1>8, <1>9, <1>10, <1>11,
     <1>12
  DEF Next, ClientStep, WorkerStep

(* Until a failure no step breaks the alternation of client and worker.    *)
LEMMA TurnsStep ==
    ASSUME TransportInv, Next
    PROVE  Turns'
<1> USE TransportAssumption DEF TransportInv, clientVars, workerVars, control
<1>1. CASE WorkerReady
  BY <1>1 DEF WorkerReady, TypeOK, SlotIsOwn, AnswerIsOwn, Turns, Busy,
      Ending, Counted, Causal, Pending, Published, Issuing, ClientPcs,
      WorkerPcs, Reqs, MaxReq
<1>2. CASE WriteHeader
  <2>1. n' \in Reqs /\ n' > n
    BY <1>2, IssueInBounds DEF WriteHeader, TypeOK, Reqs
  <2>2. runs[n'] = 0
    BY <2>1 DEF Causal
  <2> QED
    BY <1>2, <2>1, <2>2 DEF WriteHeader, TypeOK, Turns, Busy, Ending, Pending,
       Published, Issuing
<1>3. CASE SignalRequest
  BY <1>3 DEF SignalRequest, TypeOK, SlotIsOwn, AnswerIsOwn, Turns, Busy,
      Ending, Counted, Causal, Pending, Published, Issuing, ClientPcs,
      WorkerPcs, Reqs, MaxReq
<1>4. CASE WaitResponse
  BY <1>4 DEF WaitResponse, TypeOK, SlotIsOwn, AnswerIsOwn, Turns, Busy,
      Ending, Counted, Causal, Pending, Published, Issuing, ClientPcs,
      WorkerPcs, Reqs, MaxReq
<1>5. CASE CheckSequence
  BY <1>5 DEF CheckSequence, RpcFails, AfterFailure, TypeOK, SlotIsOwn,
      AnswerIsOwn, Turns, Busy, Ending, Counted, Causal, Pending, Published,
      Issuing, ClientPcs, WorkerPcs, Reqs, MaxReq
<1>6. CASE CopyPayload
  BY <1>6 DEF CopyPayload, AfterSuccess, AfterFailure, TypeOK, SlotIsOwn,
      AnswerIsOwn, Turns, Busy, Ending, Counted, Causal, Pending, Published,
      Issuing, ClientPcs, WorkerPcs, Reqs, MaxReq
<1>7. CASE StopWorker
  BY <1>7 DEF StopWorker, TypeOK, SlotIsOwn, AnswerIsOwn, Turns, Busy,
      Ending, Counted, Causal, Pending, Published, Issuing, ClientPcs,
      WorkerPcs, Reqs, MaxReq
<1>8. CASE ClientKilled
  BY <1>8 DEF ClientKilled, Terminate, TypeOK, SlotIsOwn, AnswerIsOwn, Turns,
      Busy, Ending, Counted, Causal, Pending, Published, Issuing, ClientPcs,
      WorkerPcs, Reqs, MaxReq
<1>9. CASE AnnounceReady
  BY <1>9 DEF AnnounceReady, ParentGone, TypeOK, SlotIsOwn, AnswerIsOwn,
      Turns, Busy, Ending, Counted, Causal, Pending, Published, Issuing,
      ClientPcs, WorkerPcs, Reqs, MaxReq
<1>10. CASE PollRequest
  BY <1>10 DEF PollRequest, TypeOK, SlotIsOwn, AnswerIsOwn, Turns, Busy,
      Ending, Counted, Causal, Pending, Published, Issuing, ClientPcs,
      WorkerPcs, Reqs, MaxReq
<1>11. CASE ReadSequence
  BY <1>11 DEF ReadSequence, TypeOK, SlotIsOwn, AnswerIsOwn, Turns, Busy,
      Ending, Counted, Causal, Pending, Published, Issuing, ClientPcs,
      WorkerPcs, Reqs, MaxReq
<1>12. CASE ReadHeader
  BY <1>12 DEF ReadHeader, TypeOK, SlotIsOwn, AnswerIsOwn, Turns, Busy,
      Ending, Counted, Causal, Pending, Published, Issuing, ClientPcs,
      WorkerPcs, Reqs, MaxReq
<1>13. CASE Dispatch
  BY <1>13 DEF Dispatch, TypeOK, SlotIsOwn, AnswerIsOwn, Turns, Busy, Ending,
      Counted, Causal, Pending, Published, Issuing, ClientPcs, WorkerPcs,
      Reqs, MaxReq
<1>14. CASE PublishResponse
  BY <1>14 DEF PublishResponse, TypeOK, SlotIsOwn, AnswerIsOwn, Turns, Busy,
      Ending, Counted, Causal, Pending, Published, Issuing, ClientPcs,
      WorkerPcs, Reqs, MaxReq
<1>15. CASE SignalResponse
  BY <1>15 DEF SignalResponse, TypeOK, SlotIsOwn, AnswerIsOwn, Turns, Busy,
      Ending, Counted, Causal, Pending, Published, Issuing, ClientPcs,
      WorkerPcs, Reqs, MaxReq
<1>16. CASE StartFails
  BY <1>16 DEF StartFails,
      TypeOK, SlotIsOwn, AnswerIsOwn, Turns, Busy,
      Ending, Counted, Causal, Pending, Published, Issuing, Reqs, MaxReq
<1>17. CASE WritePayload
  BY <1>17 DEF WritePayload,
      TypeOK, SlotIsOwn, AnswerIsOwn, Turns, Busy,
      Ending, Counted, Causal, Pending, Published, Issuing, Reqs, MaxReq
<1>18. CASE PublishRequest
  BY <1>18 DEF PublishRequest,
      TypeOK, SlotIsOwn, AnswerIsOwn, Turns, Busy,
      Ending, Counted, Causal, Pending, Published, Issuing, Reqs, MaxReq
<1>19. CASE RpcTimeout
  BY <1>19 DEF RpcTimeout, RpcFails, AfterFailure,
      TypeOK, SlotIsOwn, AnswerIsOwn, Turns, Busy,
      Ending, Counted, Causal, Pending, Published, Issuing, Reqs, MaxReq
<1>20. CASE ParseHeader
  BY <1>20 DEF ParseHeader, RpcFails, AfterFailure,
      TypeOK, SlotIsOwn, AnswerIsOwn, Turns, Busy,
      Ending, Counted, Causal, Pending, Published, Issuing, Reqs, MaxReq
<1>21. CASE EndOfWork
  BY <1>21 DEF EndOfWork,
      TypeOK, SlotIsOwn, AnswerIsOwn, Turns, Busy,
      Ending, Counted, Causal, Pending, Published, Issuing, Reqs, MaxReq
<1>22. CASE Exit
  BY <1>22 DEF Exit,
      TypeOK, SlotIsOwn, AnswerIsOwn, Turns, Busy,
      Ending, Counted, Causal, Pending, Published, Issuing, Reqs, MaxReq
<1>23. CASE Reap
  BY <1>23 DEF Reap,
      TypeOK, SlotIsOwn, AnswerIsOwn, Turns, Busy,
      Ending, Counted, Causal, Pending, Published, Issuing, Reqs, MaxReq
<1>24. CASE ReapTimeout
  BY <1>24 DEF ReapTimeout, Terminate,
      TypeOK, SlotIsOwn, AnswerIsOwn, Turns, Busy,
      Ending, Counted, Causal, Pending, Published, Issuing, Reqs, MaxReq
<1>25. CASE KillWorker
  BY <1>25 DEF KillWorker,
      TypeOK, SlotIsOwn, AnswerIsOwn, Turns, Busy,
      Ending, Counted, Causal, Pending, Published, Issuing, Reqs, MaxReq
<1>26. CASE ArmParentDeath
  BY <1>26 DEF ArmParentDeath, ParentGone,
      TypeOK, SlotIsOwn, AnswerIsOwn, Turns, Busy,
      Ending, Counted, Causal, Pending, Published, Issuing, Reqs, MaxReq
<1>27. CASE ExecWorker
  BY <1>27 DEF ExecWorker,
      TypeOK, SlotIsOwn, AnswerIsOwn, Turns, Busy,
      Ending, Counted, Causal, Pending, Published, Issuing, Reqs, MaxReq
<1>28. CASE LeaveLoop
  BY <1>28 DEF LeaveLoop, ParentGone,
      TypeOK, SlotIsOwn, AnswerIsOwn, Turns, Busy,
      Ending, Counted, Causal, Pending, Published, Issuing, Reqs, MaxReq
<1>29. CASE WriteResponseHeader
  BY <1>29 DEF WriteResponseHeader,
      TypeOK, SlotIsOwn, AnswerIsOwn, Turns, Busy,
      Ending, Counted, Causal, Pending, Published, Issuing, Reqs, MaxReq
<1>30. CASE CloseSessions
  BY <1>30 DEF CloseSessions,
      TypeOK, SlotIsOwn, AnswerIsOwn, Turns, Busy,
      Ending, Counted, Causal, Pending, Published, Issuing, Reqs, MaxReq
<1>31. CASE CodecHangs
  BY <1>31 DEF CodecHangs,
      TypeOK, SlotIsOwn, AnswerIsOwn, Turns, Busy,
      Ending, Counted, Causal, Pending, Published, Issuing, Reqs, MaxReq
<1>32. CASE Over
  BY <1>32 DEF Over, vars, TypeOK, SlotIsOwn, AnswerIsOwn, Turns, Busy,
      Ending, Counted, Causal, Pending, Published, Issuing, Reqs, MaxReq
<1> QED
  BY <1>1, <1>2, <1>3, <1>4, <1>5, <1>6, <1>7, <1>8, <1>9, <1>10, <1>11,
     <1>12, <1>13, <1>14, <1>15, <1>16, <1>17, <1>18, <1>19, <1>20, <1>21,
     <1>22, <1>23, <1>24, <1>25, <1>26, <1>27, <1>28, <1>29, <1>30, <1>31,
     <1>32
  DEF Next, ClientStep, WorkerStep

(* A wider window holds what a narrower one holds.                         *)
LEMMA BetweenGrows ==
    ASSUME NEW word, NEW old \in Int, NEW new \in Int,
           NEW older \in Int, NEW newer \in Int,
           Between(word, old, new), older <= old, new <= newer
    PROVE  Between(word, older, newer)
BY DEF Between

(* The window of sequences never loses a word the page still holds.        *)
LEMMA WordsStep ==
    ASSUME TransportInv, Next
    PROVE  Words'
<1> USE TransportAssumption DEF TransportInv, clientVars, workerVars, control
<1>t. n \in Nat /\ n' \in Nat /\ Lag \in 0..3 /\ Lag' \in 0..3
      /\ Sent \in Int /\ Sent' \in Int
  BY TypeOKStep DEF TypeOK, MaxReq, Lag, Sent
<1>a. ASSUME Issuing' \/ client' = "starting",
             Issuing \/ client = "starting",
             n' - Lag' <= n - Lag, Sent <= Sent'
      PROVE  /\ Between(reqSeq, n' - Lag', Sent')
             /\ Between(respSeq, n' - Lag', Sent')
             /\ Between(wSeq, n' - Lag', Sent')
  <2>1. /\ n - Lag \in Int /\ n' - Lag' \in Int
        /\ Between(reqSeq, n - Lag, Sent)
        /\ Between(respSeq, n - Lag, Sent)
        /\ Between(wSeq, n - Lag, Sent)
    BY <1>t, <1>a DEF Words
  <2> QED
    BY <1>t, <1>a, <2>1, BetweenGrows
<1>1. CASE WriteHeader \/ WritePayload \/ SignalRequest \/ WaitResponse
           \/ WorkerReady \/ EndOfWork
  BY <1>1, <1>a, <1>t DEF WriteHeader, WritePayload, SignalRequest,
     WaitResponse, WorkerReady, EndOfWork, Words, Lag, Sent, Counted,
     Issuing, Pending, Published
<1>2. CASE RpcTimeout \/ CheckSequence \/ ParseHeader
  BY <1>2, <1>a, <1>t DEF RpcTimeout, CheckSequence, ParseHeader, RpcFails,
     AfterFailure, Words, Lag, Sent, Counted, Issuing, Pending, Published
<1>3. CASE PublishRequest
  <2>1. Between(Sequence(n), n' - Lag', Sent')
    BY <1>3, <1>t DEF PublishRequest, Between, Lag, Sent, Counted, Pending,
       Published
  <2> QED
    BY <1>3, <1>a, <1>t, <2>1 DEF PublishRequest, Words, Lag, Sent, Issuing,
       Pending, Published
<1>4. CASE CopyPayload
  <2>1. CASE failed
    BY <1>4, <1>a, <1>t, <2>1 DEF CopyPayload, AfterSuccess, AfterFailure,
       Words, Lag, Sent, Counted, Issuing, Pending, Published
  <2>2. CASE ~failed
    <3>1. /\ reqSeq = Sequence(n) /\ respSeq = Sequence(n)
          /\ wSeq = Sequence(n) /\ n >= 1
      BY <1>4 DEF CopyPayload, SlotIsOwn, AnswerIsOwn, Counted, Pending,
         Published
    <3>2. Between(Sequence(n), n' - Lag', Sent')
      BY <1>4, <1>t, <2>2, <3>1 DEF CopyPayload, Between, Lag, Sent, Pending,
         Published
    <3> QED
      BY <1>4, <3>1, <3>2 DEF CopyPayload, Words
  <2> QED
    BY <2>1, <2>2 DEF TypeOK
<1>5. CASE ReadSequence \/ PublishResponse
  BY <1>5, <1>a, <1>t DEF ReadSequence, PublishResponse, Words, Lag, Sent,
     Issuing, Pending, Published
<1>6. CASE StartFails \/ Exit \/ StopWorker \/ Reap \/ ReapTimeout
           \/ KillWorker \/ ClientKilled
  BY <1>6 DEF StartFails, Exit, StopWorker, Reap, ReapTimeout, KillWorker,
     ClientKilled, Words, Issuing, Pending, Published
<1>7. CASE ArmParentDeath \/ ExecWorker \/ AnnounceReady \/ PollRequest
           \/ LeaveLoop \/ ReadHeader \/ Dispatch \/ WriteResponseHeader
           \/ SignalResponse \/ CloseSessions \/ CodecHangs \/ Over
  BY <1>7, <1>a, <1>t DEF ArmParentDeath, ExecWorker, AnnounceReady,
     PollRequest, LeaveLoop, ReadHeader, Dispatch, WriteResponseHeader,
     SignalResponse, CloseSessions, CodecHangs, Over, vars, Words, Lag, Sent,
     Issuing, Pending, Published
<1> QED
  BY <1>1, <1>2, <1>3, <1>4, <1>5, <1>6, <1>7 DEF Next, ClientStep, WorkerStep

(* TransportInv is inductive.                                              *)
THEOREM TransportInvariant == Spec => []TransportInv
<1>1. Init => TransportInv
  <2> SUFFICES ASSUME Init PROVE TransportInv
    OBVIOUS
  <2>1. TypeOK
    <3>1. 0 \in 0..MaxReq /\ 0 \in 0..(Word - 1)
      BY TransportAssumption DEF MaxReq
    <3>2. runs \in [Reqs -> 0..2]
      BY DEF Init
    <3> QED
      BY <3>1, <3>2 DEF Init, TypeOK, ClientPcs, WorkerPcs, Phases
  <2>2. Counted /\ Causal /\ SlotIsOwn /\ AnswerIsOwn /\ Ending
    BY TransportAssumption DEF Init, Counted, Causal, SlotIsOwn, AnswerIsOwn,
       Ending, Issuing, Pending, Published, Reqs
  <2>3. Words
    BY DEF Init, Words, Between
  <2>4. Turns
    BY DEF Init, Turns, Busy, Issuing, Pending, Published
  <2> QED
    BY <2>1, <2>2, <2>3, <2>4 DEF TransportInv
<1>2. TransportInv /\ [Next]_vars => TransportInv'
  <2>1. ASSUME TransportInv, Next PROVE TransportInv'
    BY <2>1, TypeOKStep, CountedStep, CausalStep, EndingStep, SlotIsOwnStep,
       AnswerIsOwnStep, TurnsStep, WordsStep DEF TransportInv
  <2>2. ASSUME TransportInv, UNCHANGED vars PROVE TransportInv'
    BY <2>2 DEF TransportInv, vars, clientVars, workerVars, control, TypeOK,
       Counted, Causal, Words, SlotIsOwn, AnswerIsOwn, Ending, Turns, Lag,
       Sent, Issuing, Pending, Published
  <2> QED
    BY <2>1, <2>2
<1> QED
  BY <1>1, <1>2, PTL DEF Spec

(* The control page and the slots keep their types, for every word size.   *)
THEOREM TransportTypes == Spec => []TypeOK
BY TransportInvariant, PTL DEF TransportInv

(* rpc() returns only the answer computed for its own request, whatever    *)
(* timed out before and wherever the sequence wraps.                       *)
THEOREM AnswersAreOwn == Spec => []AcceptedIsOwn
<1>1. TransportInv => AcceptedIsOwn
  BY DEF TransportInv, AnswerIsOwn, Published, AcceptedIsOwn
<1> QED
  BY <1>1, TransportInvariant, PTL

(* Until an rpc() fails every request is dispatched once, and the slots    *)
(* are the client's whenever it writes them.                               *)
THEOREM DispatchedOnce == Spec => []OnceUntilFailure
<1>1. TransportInv => OnceUntilFailure
  BY DEF TransportInv, Turns, Issuing, Pending, Published, OnceUntilFailure
<1> QED
  BY <1>1, TransportInvariant, PTL

(* stop_worker returns only after the worker is gone.                      *)
THEOREM StopAlwaysReaps == Spec => []StopReaps
<1>1. TransportInv => StopReaps
  BY DEF TransportInv, Ending, StopReaps
<1> QED
  BY <1>1, TransportInvariant, PTL

-----------------------------------------------------------------------------
(* The refinement.                                                         *)

(* A step that leaves the request number, the counts, the failure flag and *)
(* the caller's state alone is invisible above rpc().                      *)
LEMMA InvisibleStep ==
    ASSUME UNCHANGED <<n, runs, failed>>, Pending' = Pending,
           (client' = "dead") = (client = "dead")
    PROVE  UNCHANGED Rpc!rpcVars
BY DEF Rpc!rpcVars, Pending, Published

(* A failing rpc() is a failure of the service.                            *)
LEMMA FailingStep ==
    ASSUME UNCHANGED <<n, runs>>, failed' \/ client' = "dead", ~Pending',
           failed' \in BOOLEAN
    PROVE  Rpc!Fail
BY DEF Rpc!Fail, Pending, Published

(* A step that touches neither the client nor the counts is invisible.     *)
LEMMA WorkerStepInvisible ==
    ASSUME UNCHANGED <<clientVars, runs>>
    PROVE  UNCHANGED Rpc!rpcVars
BY InvisibleStep DEF clientVars, Pending, Published

(* WriteHeader issues a request that has not been served.                  *)
LEMMA HeaderIssues ==
    ASSUME TransportInv, WriteHeader
    PROVE  Rpc!Issue
<1>1. n \in Nat /\ n + 1 \in Reqs
  BY IssueInBounds DEF TransportInv, TypeOK, MaxReq
<1>2. runs[n + 1] = 0
  BY <1>1 DEF TransportInv, Causal
<1>3. [r \in 1..(n + 1) |-> runs[r]]
        = [r \in 1..(n + 1) |-> IF r \in DOMAIN [q \in 1..n |-> runs[q]]
                                THEN [q \in 1..n |-> runs[q]][r] ELSE 0]
  BY <1>1, <1>2
<1> QED
  BY <1>3 DEF WriteHeader, Rpc!Issue, workerVars

(* Dispatch serves the request whose header the worker read.               *)
LEMMA DispatchServes ==
    ASSUME TransportInv, Dispatch
    PROVE  (\E r \in 1..n : Rpc!Serve(r)) \/ UNCHANGED Rpc!rpcVars
<1> USE DEF TransportInv, clientVars
<1>1. n \in 0..MaxReq /\ wHdr \in 0..n /\ runs \in [Reqs -> 0..2]
  BY DEF TypeOK, Causal
<1>2. CASE wHdr = 0
  <2>1. runs' = runs
    BY <1>1, <1>2 DEF Dispatch, Reqs
  <2> QED
    BY <2>1, WorkerStepInvisible DEF Dispatch
<1>3. CASE wHdr \in 1..n
  <2>1. PICK q \in 1..n : q = wHdr
    BY <1>3
  <2>2. ~(failed \/ client = "dead") =>
          client = "waiting" /\ q = n /\ runs[q] = 0
    BY <2>1 DEF Dispatch, Turns, Ending, Busy
  <2>3. q \in Reqs /\ 1..n \subseteq Reqs
    BY <1>1, <2>1, TransportAssumption DEF Reqs, MaxReq
  <2>4. [r \in 1..n |-> runs'[r]]
          = [[r \in 1..n |-> runs[r]] EXCEPT ![q] =
               IF runs[q] < 2 THEN runs[q] + 1 ELSE runs[q]]
    BY <1>1, <2>1, <2>3 DEF Dispatch
  <2>5. Rpc!Serve(q)
    BY <2>2, <2>4 DEF Dispatch, Rpc!Serve
  <2> QED
    BY <2>5
<1> QED
  BY <1>1, <1>2, <1>3

(* CopyPayload returns a request that has been served.                     *)
LEMMA CopyReturns ==
    ASSUME TransportInv, CopyPayload
    PROVE  Rpc!Return
<1>1. n \in 1..n /\ runs[n] > 0 /\ runs[n] \in Nat
  BY DEF TransportInv, TypeOK, MaxReq, Reqs, Counted, Pending, AnswerIsOwn,
     Published, CopyPayload
<1> QED
  BY <1>1 DEF CopyPayload, Rpc!Return, workerVars

(* Every run of the transport is a run of the synchronous service.         *)
THEOREM TransportImplementsRpc == Spec => ImplementsRpc
<1>1. Init => Rpc!Init
  BY DEF Init, Rpc!Init
<1>2. TransportInv /\ [Next]_vars => [Rpc!Next]_(Rpc!rpcVars)
  <2> SUFFICES ASSUME TransportInv, [Next]_vars
               PROVE  Rpc!Next \/ UNCHANGED Rpc!rpcVars
    OBVIOUS
  <2>1. CASE WriteHeader
    BY <2>1, HeaderIssues DEF Rpc!Next
  <2>2. CASE Dispatch
    BY <2>2, DispatchServes DEF Rpc!Next
  <2>3. CASE CopyPayload
    BY <2>3, CopyReturns DEF Rpc!Next
  <2>4. CASE RpcTimeout
    BY <2>4, FailingStep DEF RpcTimeout, RpcFails, workerVars, Pending,
       Published, Rpc!Next
  <2>5. CASE CheckSequence \/ ParseHeader
    <3>1. CASE RpcFails
      BY <2>5, <3>1, FailingStep DEF CheckSequence, ParseHeader, RpcFails,
         workerVars, Pending, Published, Rpc!Next
    <3>2. CASE client' \in {"parse", "copy"} /\ UNCHANGED failed
      BY <2>5, <3>2, InvisibleStep DEF CheckSequence, ParseHeader,
         workerVars, Pending, Published
    <3> QED
      BY <2>5, <3>1, <3>2 DEF CheckSequence, ParseHeader
  <2>6. CASE ClientKilled
    <3>1. failed' \in BOOLEAN
      BY <2>6 DEF ClientKilled, TransportInv, TypeOK
    <3> QED
      BY <2>6, <3>1, FailingStep DEF ClientKilled, Pending, Published, Rpc!Next
  <2>7. CASE WorkerReady \/ StartFails \/ WritePayload \/ PublishRequest
             \/ SignalRequest \/ WaitResponse \/ EndOfWork \/ Exit
             \/ StopWorker \/ Reap \/ ReapTimeout \/ KillWorker
    BY <2>7, InvisibleStep DEF WorkerReady, StartFails, WritePayload,
       PublishRequest, SignalRequest, WaitResponse, EndOfWork, Exit,
       StopWorker, Reap, ReapTimeout, KillWorker, workerVars, Pending,
       Published
  <2>8. CASE ArmParentDeath \/ ExecWorker \/ AnnounceReady \/ PollRequest
             \/ LeaveLoop \/ ReadSequence \/ ReadHeader
             \/ WriteResponseHeader \/ PublishResponse \/ SignalResponse
             \/ CloseSessions \/ CodecHangs \/ Over \/ UNCHANGED vars
    BY <2>8, WorkerStepInvisible DEF ArmParentDeath, ExecWorker,
       AnnounceReady, PollRequest, LeaveLoop, ReadSequence, ReadHeader,
       WriteResponseHeader, PublishResponse, SignalResponse, CloseSessions,
       CodecHangs, Over, vars, workerVars, clientVars
  <2> QED
    BY <2>1, <2>2, <2>3, <2>4, <2>5, <2>6, <2>7, <2>8
    DEF Next, ClientStep, WorkerStep
<1> QED
  BY <1>1, <1>2, TransportInvariant, PTL DEF Spec, ImplementsRpc, Rpc!Spec
=============================================================================
