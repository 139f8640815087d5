------------------------------ MODULE CodecPipe ------------------------------
(***************************************************************************)
(* A dawnshell-codec command and its private worker: run_pipe,             *)
(* run_transcode and run_pipe_session in dawnshell_codec_client.c on top of*)
(* the sessions of CodecSession.  Each rpc() is the synchronous call that  *)
(* CodecTransport implements; the answer may also be lost, which rpc()     *)
(* reports as a failure.                                                   *)
(*                                                                         *)
(* Besides the pipe there is the client of the protocol itself (mode       *)
(* "protocol"): it sends session requests in any order and goes on after   *)
(* errors, as negative-test, probe and the hold and orphan tests do.       *)
(***************************************************************************)
EXTENDS CodecSession

CONSTANTS
    Streams,    \* what standard input may hold: sequences of record tags
    IdleLimit,  \* empty OUTPUTs after EOS before the pipe gives up, 50
    MaxOps,     \* bound on the requests of a protocol client
    MaxPts      \* bound on the PTS a protocol client sends

ASSUME PipeAssumption ==
    /\ \A s \in Streams :
          s \in Seq({"frame", "config", "invalid", "eos", "truncated"})
    /\ IdleLimit \in Nat \ {0}
    /\ MaxOps \in Nat /\ MaxPts \in Nat

VARIABLES
    mode, stream,
    pc,         \* what the client waits for, or does next
    pos,        \* records read from standard input
    frames,     \* input_frames
    out,        \* records written to standard output: PTS and picture
    saw_eos, idle, result,
    ops         \* requests a protocol client has sent

clientVars == <<mode, stream, pc, pos, frames, out, saw_eos, idle, result, ops>>
vars == <<createVars, sessionVars, clientVars>>

ClientPcs == {"start", "create", "keyframe", "read", "input", "drain", "eos",
              "final", "stats", "close", "any", "anyReply", "done"}

Init ==
    /\ CreateInit
    /\ SessionInit
    /\ mode \in {"pipe", "protocol"}
    /\ stream \in IF mode = "pipe" THEN Streams ELSE {<<>>}
    /\ pc = "start"
    /\ pos = 0 /\ frames = 0 /\ out = <<>> /\ saw_eos = FALSE /\ idle = 0
    /\ result = 0 /\ ops = 0

-----------------------------------------------------------------------------
(* A request leaves and the client waits at p for its answer.              *)
Send(p, op, rec) ==
    /\ req' = [op |-> op, rec |-> rec]
    /\ reply' = NoReply
    /\ pc' = p

(* The client goes on at p without a request.                              *)
Proceed(p) == req' = NoRequest /\ reply' = NoReply /\ pc' = p

(* The outcomes of rpc(): the answer, or a failure of the transport.       *)
Answers(status) == reply.status = status
Fails == reply.status # "none"

(* After an error the session's statistics are still asked for.            *)
Abandon == result' = 1 /\ Send("stats", "stats", None)

Quiet == UNCHANGED <<createVars, wpc, sessionFlags, platform, stray, mode, stream>>

PipeStart ==
    /\ pc = "start"
    /\ Send("create", "create", None)
    /\ UNCHANGED <<pos, frames, out, saw_eos, idle, result, ops>>
    /\ Quiet

(* create_session, create_transcode_session; encoders and transcoders are  *)
(* asked for a key frame first.                                            *)
PipeCreated ==
    /\ pc = "create"
    /\ \/ /\ Answers("ok")
          /\ IF mode = "protocol" THEN Proceed("any")
             ELSE IF kind = "decoder" THEN Proceed("read")
             ELSE Send("keyframe", "keyframe", None)
          /\ UNCHANGED result
       \/ Fails /\ Proceed("done") /\ result' = 1
    /\ UNCHANGED <<pos, frames, out, saw_eos, idle, ops>>
    /\ Quiet

(* Without its key frame the pipe closes the session, without statistics.  *)
PipeKeyframe ==
    /\ pc = "keyframe"
    /\ \/ Answers("ok") /\ Proceed("read") /\ UNCHANGED result
       \/ Fails /\ Send("close", "close", None) /\ result' = 1
    /\ UNCHANGED <<pos, frames, out, saw_eos, idle, ops>>
    /\ Quiet

(* The next record of standard input.  What is cut off or too long, or is  *)
(* not a whole picture for an encoder, ends the pipe before it is sent.    *)
PipeRead ==
    LET tag == IF pos = Len(stream) THEN "eos" ELSE stream[pos + 1]
        fed == frames + IF tag = "frame" THEN 1 ELSE 0
        unfit == tag = "truncated"
                 \/ (kind = "encoder" /\ tag \in {"config", "invalid"})
    IN /\ pc = "read"
       /\ \/ /\ tag = "eos"
             /\ Send("eos", "eos", Eos)
             /\ UNCHANGED <<pos, frames, result>>
          \/ /\ unfit
             /\ Abandon
             /\ UNCHANGED <<pos, frames>>
          \/ /\ tag # "eos" /\ ~unfit
             /\ pos' = pos + 1
             /\ frames' = fed
             /\ Send("input", "input", Buffer(tag, fed, FALSE))
             /\ UNCHANGED result
       /\ UNCHANGED <<out, saw_eos, idle, ops>>
       /\ Quiet

(* Mutant of PipeInput: the output is not drained between two inputs.      *)
PipeInputNoDrain ==
    /\ pc = "input"
    /\ \/ Answers("again") /\ Send("input", "input", req.rec) /\ UNCHANGED result
       \/ Answers("ok") /\ Proceed("read") /\ UNCHANGED result
       \/ Fails /\ Abandon
    /\ UNCHANGED <<pos, frames, out, saw_eos, idle, ops>>
    /\ Quiet

(* queue_input: DSCB_AGAIN is tried again, without a limit.                *)
PipeInput ==
    /\ pc = "input"
    /\ \/ Answers("again") /\ Send("input", "input", req.rec) /\ UNCHANGED result
       \/ Answers("ok") /\ Send("drain", "output", None) /\ UNCHANGED result
       \/ Fails /\ Abandon
    /\ UNCHANGED <<pos, frames, out, saw_eos, idle, ops>>
    /\ Quiet

(* queue_eos, likewise.                                                    *)
PipeEos ==
    /\ pc = "eos"
    /\ \/ Answers("again") /\ Send("eos", "eos", Eos) /\ UNCHANGED result
       \/ Answers("ok") /\ Send("final", "output", None) /\ UNCHANGED result
       \/ Fails /\ Abandon
    /\ UNCHANGED <<pos, frames, out, saw_eos, idle, ops>>
    /\ Quiet

(* drain_output: a record in order is written; one out of order, or that   *)
(* cannot be written, is an error.                                         *)
InOrder ==
    reply.rec.tag = "frame" => \A i \in DOMAIN out : reply.rec.pts >= out[i].pts

Written ==
    /\ Answers("ok") /\ InOrder
    /\ out' = IF reply.rec.tag = "frame"
              THEN Append(out, [pts |-> reply.rec.pts, img |-> reply.img])
              ELSE out
    /\ saw_eos' = (saw_eos \/ reply.rec.eos)

PipeDrain ==
    /\ pc = "drain"
    /\ \/ Answers("again") /\ Proceed("read") /\ UNCHANGED <<out, saw_eos, result>>
       \/ Answers("format") /\ Send("drain", "output", None)
            /\ UNCHANGED <<out, saw_eos, result>>
       \/ Written /\ Send("drain", "output", None) /\ UNCHANGED result
       \/ Fails /\ Abandon /\ UNCHANGED <<out, saw_eos>>
    /\ UNCHANGED <<pos, frames, idle, ops>>
    /\ Quiet

(* Mutant of Complete: the frames are not counted.                         *)
CompleteUncounted(n, eos) == eos

(* The end of the stream was seen and as many frames came as went.         *)
Complete(n, eos) == eos /\ frames # 0 /\ n = frames

(* Mutant of MoreIdle: one too many.                                       *)
MoreIdleOneMore(n) == n <= IdleLimit

MoreIdle(n) == n < IdleLimit

(* The loop after EOS ends with the end of the stream, or when OUTPUT has  *)
(* been empty IdleLimit times.                                             *)
PipeFinal ==
    /\ pc = "final"
    /\ \/ /\ Answers("again")
          /\ idle' = idle + 1
          /\ IF MoreIdle(idle')
             THEN Send("final", "output", None) /\ UNCHANGED result
             ELSE Abandon
          /\ UNCHANGED <<out, saw_eos>>
       \/ /\ Answers("format")
          /\ Send("final", "output", None)
          /\ UNCHANGED <<out, saw_eos, idle, result>>
       \/ /\ Written
          /\ IF saw_eos'
             THEN /\ Send("stats", "stats", None)
                  /\ result' = IF Complete(Len(out'), saw_eos') THEN 0 ELSE 1
             ELSE Send("final", "output", None) /\ UNCHANGED result
          /\ UNCHANGED idle
       \/ Fails /\ Abandon /\ UNCHANGED <<out, saw_eos, idle>>
    /\ UNCHANGED <<pos, frames, ops>>
    /\ Quiet

PipeStats ==
    /\ pc = "stats"
    /\ \/ Answers("ok") /\ UNCHANGED result
       \/ Fails /\ result' = 1
    /\ Send("close", "close", None)
    /\ UNCHANGED <<pos, frames, out, saw_eos, idle, ops>>
    /\ Quiet

(* The answer to CLOSE does not matter.                                    *)
PipeClosed ==
    /\ pc = "close"
    /\ Fails
    /\ Proceed("done")
    /\ UNCHANGED <<pos, frames, out, saw_eos, idle, result, ops>>
    /\ Quiet

PipeStep ==
    \/ PipeStart \/ PipeCreated \/ PipeKeyframe \/ PipeRead \/ PipeInput
    \/ PipeEos \/ PipeDrain \/ PipeFinal \/ PipeStats \/ PipeClosed

-----------------------------------------------------------------------------
(* Any session request, in any order; the last one is CLOSE.               *)
ProtocolRequest ==
    /\ pc = "any"
    /\ ops < MaxOps
    /\ \/ \E pts \in 1..MaxPts :
              Send("anyReply", "input", Buffer("frame", pts, FALSE))
       \/ \E tag \in {"config", "invalid"} :
              Send("anyReply", "input", Buffer(tag, 0, FALSE))
       \/ Send("anyReply", "eos", Eos)
       \/ \E op \in {"output", "flush", "keyframe"} :
              Send("anyReply", op, None)
    /\ ops' = ops + 1
    /\ UNCHANGED <<pos, frames, out, saw_eos, idle, result>>
    /\ Quiet

ProtocolReply ==
    /\ pc = "anyReply"
    /\ Fails
    /\ Proceed("any")
    /\ UNCHANGED <<pos, frames, out, saw_eos, idle, result, ops>>
    /\ Quiet

(* CLOSE, after which the session's ID is unknown.                         *)
ProtocolClose ==
    /\ pc = "any"
    /\ Send("close", "close", None)
    /\ UNCHANGED <<pos, frames, out, saw_eos, idle, result, ops>>
    /\ Quiet

ProtocolStep == ProtocolRequest \/ ProtocolReply \/ ProtocolClose

(* The client exits; stop_worker makes the worker close what is open.      *)
WorkerCloses ==
    /\ pc = "done"
    /\ wpc = "idle"
    /\ DestroySession
    /\ ClearSession
    /\ UNCHANGED <<req, reply, wpc, clientVars>>

Over ==
    /\ pc = "done"
    /\ cpc # "ready"
    /\ UNCHANGED vars

Next ==
    \/ PipeStep \/ ProtocolStep
    \/ WorkerStep /\ UNCHANGED clientVars
    \/ (PlatformStep \/ CodecBreaks) /\ UNCHANGED clientVars
    \/ WorkerCloses \/ Over

(* The client and the worker run; a codec that is not broken works on what *)
(* it holds, and what was rendered arrives.                                *)
Fairness ==
    /\ WF_vars(PipeStep)
    /\ WF_vars(WorkerStep /\ UNCHANGED clientVars)
    /\ WF_vars(WorkerCloses)
    /\ WF_vars((AnnounceFormat \/ ProcessInput) /\ UNCHANGED clientVars)
    /\ WF_vars(ProcessSurface /\ UNCHANGED clientVars)

Spec == Init /\ [][Next]_vars /\ Fairness

-----------------------------------------------------------------------------
(* The type of the command's state.                                        *)
TypeOK ==
    /\ kind \in SessionKinds /\ cpc \in CreatePcs
    /\ owned \subseteq Resources
    /\ Len(inq) <= InSlots
    /\ InUse(outq) <= OutSlots
    /\ InUse(back) <= IF kind = "decoder" THEN MaxImages ELSE OutSlots
    /\ pc \in ClientPcs /\ result \in {0, 1}
    /\ idle \in 0..IdleLimit
    /\ frames <= pos /\ pos <= Len(stream)
    /\ req # NoRequest => pc \notin {"start", "read", "any", "done"}

(* A pipe that exits with 0 has written every frame it read, once, in order*)
(* and each with its own picture, and the end of the stream, whatever the  *)
(* codec dropped, refused or delayed meanwhile.                            *)
SuccessIsComplete ==
    mode = "pipe" /\ pc = "done" /\ result = 0 =>
        /\ saw_eos
        /\ frames > 0
        /\ out = [i \in 1..frames |-> [pts |-> i, img |-> i]]

(* The worker retries nothing, the pipe for ever: INPUT and EOS stay       *)
(* DSCB_AGAIN when the codec is broken, or when its buffers are full behind*)
(* a picture that arrived after the last OUTPUT gave up waiting for it.    *)
Starved ==
    /\ pc \in {"input", "eos"}
    /\ broken \/ (pending_image # None /\ Len(inq) = InSlots
                                       /\ InUse(outq) = OutSlots)

(* Every pipe ends and leaves no session behind, unless INPUT is starved   *)
(* for good.                                                               *)
PipeEnds ==
    mode = "pipe" =>
        <>(pc = "done" /\ cpc \in {"none", "failed"}) \/ <>[]Starved
=============================================================================
