-------------------------- MODULE CodecPipe_proofs --------------------------
(***************************************************************************)
(* A whole codec command is an implementation of the creation protocol of  *)
(* CodecCreate: what client, worker and codec do between two creations     *)
(* touches no object of a session.  What is proved of the creation holds   *)
(* of the command.                                                         *)
(***************************************************************************)
EXTENDS CodecPipe, CodecCreate_proofs

(* A request of the client changes no session.                             *)
LEMMA ClientIsQuiet == PipeStep \/ ProtocolStep => UNCHANGED createVars
BY DEF PipeStep, PipeStart, PipeCreated, PipeKeyframe, PipeRead, PipeInput,
       PipeEos, PipeDrain, PipeFinal, PipeStats, PipeClosed, ProtocolStep,
       ProtocolRequest, ProtocolReply, ProtocolClose, Quiet

(* The worker changes a session's objects only where CodecCreate does.     *)
LEMMA WorkerCreates ==
    ASSUME Shape, WorkerStep PROVE [CreateNext]_createVars
<1>1. CASE DispatchCreate
  BY <1>1 DEF DispatchCreate, Shape, CreateNext
<1>2. CASE RunCreate BY <1>2 DEF RunCreate, CreateNext
<1>3. CASE Close BY <1>3 DEF Close, CreateNext
<1>4. CASE \/ CreateReplies \/ UnknownSession \/ QueueStarts \/ QueueAgain
           \/ QueueFails \/ QueueTakes \/ QueueEnds
  BY <1>4 DEF CreateReplies, UnknownSession, QueueStarts, QueueAgain,
              QueueFails, QueueTakes, QueueEnds
<1>5. CASE \/ OutputStarts \/ OutputAgain \/ OutputRecord \/ OutputFrame
           \/ OutputImage \/ ImageMissing \/ Flush \/ FlushFails
           \/ KeyframeOrStats
  BY <1>5 DEF OutputStarts, OutputAgain, OutputRecord, OutputFrame,
              OutputImage, ImageMissing, Flush, FlushFails, KeyframeOrStats
<1> QED BY <1>1, <1>2, <1>3, <1>4, <1>5 DEF WorkerStep

(* Every step of the command is a step of the creation protocol, or none.  *)
LEMMA CommandStepCreates ==
    ASSUME Shape, [Next]_vars PROVE [CreateNext]_createVars
<1>1. CASE PipeStep \/ ProtocolStep BY <1>1, ClientIsQuiet
<1>2. CASE WorkerStep BY <1>2, WorkerCreates
<1>3. CASE PlatformStep \/ CodecBreaks
  BY <1>3 DEF PlatformStep, AnnounceFormat, ProcessInput, ProcessSurface,
              CodecBreaks
<1>4. CASE WorkerCloses BY <1>4 DEF WorkerCloses, CreateNext
<1>5. CASE Over \/ UNCHANGED vars BY <1>5 DEF Over, vars
<1> QED BY <1>1, <1>2, <1>3, <1>4, <1>5 DEF Next

(* The command implements the creation protocol.                           *)
THEOREM CommandCreates == Spec => CreateSpec
<1>1. Init => CreateInit BY DEF Init
<1>2. CreateInv => Shape BY DEF CreateInv
<1>3. CreateInv /\ [Next]_vars => [CreateNext]_createVars
  BY <1>2, CommandStepCreates
<1>4. CreateInv /\ [Next]_vars => CreateInv' BY <1>3, StepAccounts
<1> QED BY <1>1, <1>3, <1>4, InitAccounts, PTL DEF Spec, CreateSpec

(* Whatever a client asks and whatever the codec refuses, a codec command  *)
(* leaks no session, codec, reader, surface or format, for every stream and*)
(* every size of the queues.                                               *)
THEOREM CommandLeaksNothing == Spec => []NoLeak
BY CommandCreates, NothingLeaks, PTL
=============================================================================
