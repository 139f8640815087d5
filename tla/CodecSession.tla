---------------------------- MODULE CodecSession ----------------------------
(***************************************************************************)
(* The operations on an open codec session, as the worker dispatches them  *)
(* (dispatch_session in dawnshell_codec_worker.c, dscw_codec_* in          *)
(* dawnshell_codec_ndk.c), and the platform codec behind them.             *)
(*                                                                         *)
(* The platform is external: a codec takes input buffers (inq) and yields  *)
(* output buffers (outq) in order; a decoder's output, once rendered, is   *)
(* on its way (surf) and arrives (back) as an image of the reader, for a   *)
(* transcoder as output of the encoder behind the surface.  It may drop a  *)
(* frame, refuse any call, or break for good.  A frame is its PTS; an image*)
(* is the PTS of the frame it shows.  An operation is split where it waits *)
(* for the platform.                                                       *)
(***************************************************************************)
EXTENDS CodecCreate, FiniteSets

CONSTANTS
    InSlots,    \* input buffers of a codec
    OutSlots,   \* output buffers of a codec; one may hold codec data
    MaxImages,  \* images of the reader, 4 in the code
    MaxPump     \* decoder buffers one pump_transcoder moves, 16 in the code

ASSUME SessionAssumption ==
    /\ \A bound \in {InSlots, OutSlots, MaxImages, MaxPump} : bound \in Nat \ {0}
    /\ OutSlots >= 2

VARIABLES
    req, reply,         \* the request in the worker, and its answer
    wpc,                \* control point of the worker
    input_eos, encoder_eos_signaled,
    pending_image,      \* the output record whose image is awaited, or None
    last_encoder_pts,   \* 0 while there is none
    inq, outq, surf, back,
    fmt,                \* the format has been announced
    broken,             \* the platform codec fails for good
    stray               \* a rendered image was still on its way at a FLUSH

sessionFlags == <<input_eos, encoder_eos_signaled, pending_image,
                  last_encoder_pts>>
queues == <<inq, outq, surf, back>>
platform == <<queues, fmt, broken>>
sessionVars == <<req, reply, wpc, sessionFlags, platform, stray>>

(* Buffers.  tag says what a buffer holds; eos is the end-of-stream flag,  *)
(* which may come on the last frame or on an empty buffer.                 *)
Buffer(tag, pts, eos) == [tag |-> tag, pts |-> pts, eos |-> eos]
None == Buffer("none", 0, FALSE)
Eos == Buffer("eos", 0, TRUE)

NoRequest == [op |-> "none", rec |-> None]
NoReply == [status |-> "none", rec |-> None, img |-> 0]

Transcoder == kind = "transcoder"

SessionInit ==
    /\ req = NoRequest /\ reply = NoReply /\ wpc = "idle"
    /\ input_eos = FALSE /\ encoder_eos_signaled = FALSE
    /\ pending_image = None /\ last_encoder_pts = 0
    /\ inq = <<>> /\ outq = <<>> /\ surf = <<>> /\ back = <<>>
    /\ fmt = FALSE /\ broken = FALSE /\ stray = FALSE

-----------------------------------------------------------------------------
(* The worker                                                              *)

Reply(status) ==
    /\ reply' = [NoReply EXCEPT !.status = status]
    /\ wpc' = "idle"

ReplyRecord(rec, img) ==
    /\ reply' = [status |-> "ok", rec |-> rec, img |-> img]
    /\ wpc' = "idle"

Serving(op) == req.op = op /\ reply = NoReply

(* dispatch_session on a session it finds.                                 *)
Dispatch(op) == wpc = "idle" /\ Serving(op) /\ cpc = "ready"

(* CREATE: the creation runs inside the request.                           *)
DispatchCreate ==
    /\ wpc = "idle"
    /\ Serving("create")
    /\ wpc' = "create"
    /\ RejectCreate(kind) \/ BeginCreate(kind)
    /\ UNCHANGED <<req, reply, sessionFlags, platform, stray>>

RunCreate ==
    /\ wpc = "create"
    /\ CreateStep
    /\ UNCHANGED sessionVars

CreateReplies ==
    /\ wpc = "create"
    /\ \/ cpc = "ready" /\ Reply("ok")
       \/ cpc = "failed" /\ Reply("error")
    /\ UNCHANGED <<createVars, req, sessionFlags, platform, stray>>

(* find_session: the ID is not in use any more.                            *)
UnknownSession ==
    /\ wpc = "idle"
    /\ req.op \notin {"none", "create"}
    /\ reply = NoReply
    /\ cpc # "ready"
    /\ Reply("error")
    /\ UNCHANGED <<createVars, req, sessionFlags, platform, stray>>

-----------------------------------------------------------------------------
(* pump_transcoder: decoder buffers, in order, to the encoder's surface, as*)
(* many as there are and one call may move, up to the end of the stream.   *)
Pumped ==
    LET n == IF Len(outq) < MaxPump THEN Len(outq) ELSE MaxPump
        ends == {i \in 1..n : outq[i].eos}
    IN IF encoder_eos_signaled \/ broken THEN 0
       ELSE IF ends = {} THEN n
       ELSE CHOOSE i \in ends : \A j \in ends : i <= j

(* Buffers with data are rendered, all but an empty one that ends the      *)
(* stream; the surface carries no flags.                                   *)
Rendered(q) ==
    LET n == IF q # <<>> /\ q[Len(q)].tag = "eos" THEN Len(q) - 1 ELSE Len(q)
    IN [i \in 1..n |-> [q[i] EXCEPT !.eos = FALSE]]

(* Mutant of PumpOk: the end is signalled before the last frames are shown.*)
PumpOkEosFirst ==
    LET moved == SubSeq(outq, 1, Pumped)
        ended == \E i \in DOMAIN moved : moved[i].eos
    IN /\ outq' = SubSeq(outq, Pumped + 1, Len(outq))
       /\ surf' = surf \o (IF ended THEN <<Eos>> ELSE <<>>) \o Rendered(moved)
       /\ encoder_eos_signaled' = (encoder_eos_signaled \/ ended)

(* The end of the stream is signalled once, after the last frame.          *)
PumpOk ==
    LET moved == SubSeq(outq, 1, Pumped)
        ended == \E i \in DOMAIN moved : moved[i].eos
    IN /\ outq' = SubSeq(outq, Pumped + 1, Len(outq))
       /\ surf' = surf \o Rendered(moved) \o (IF ended THEN <<Eos>> ELSE <<>>)
       /\ encoder_eos_signaled' = (encoder_eos_signaled \/ ended)

(* A buffer cannot be rendered and is lost, or EOS cannot be signalled.    *)
PumpFails ==
    \E i \in 1..Pumped :
        /\ outq' = SubSeq(outq, i + 1, Len(outq))
        /\ \/ surf' = surf \o Rendered(SubSeq(outq, 1, i - 1))
           \/ outq[i].eos /\ surf' = surf \o Rendered(SubSeq(outq, 1, i))
        /\ UNCHANGED encoder_eos_signaled

NoPump == UNCHANGED <<outq, surf, encoder_eos_signaled>>

(* queue_internal, dscw_codec_queue_eos: input is closed, the record is    *)
(* malformed, or an encoder's PTS does not increase.                       *)
Refused ==
    \/ input_eos
    \/ /\ req.op = "input"
       /\ \/ req.rec.tag = "invalid"
          \/ /\ kind = "encoder"
             /\ req.rec.tag = "frame"
             /\ last_encoder_pts # 0
             /\ req.rec.pts <= last_encoder_pts

(* INPUT and EOS: the checks and, for a transcoder, the first pump.        *)
QueueStarts ==
    /\ Dispatch("input") \/ Dispatch("eos")
    /\ \/ Refused /\ Reply("error") /\ NoPump
       \/ ~Refused /\ ~Transcoder /\ wpc' = "take" /\ UNCHANGED reply /\ NoPump
       \/ ~Refused /\ Transcoder /\ wpc' = "take" /\ UNCHANGED reply /\ PumpOk
       \/ ~Refused /\ Transcoder /\ Reply("error") /\ PumpFails
    /\ UNCHANGED <<createVars, req, input_eos, pending_image, last_encoder_pts,
                   inq, back, fmt, broken, stray>>

(* AMediaCodec_dequeueInputBuffer, 100 ms: no buffer and any error of the  *)
(* codec are both DSCW_CODEC_AGAIN.                                        *)
QueueAgain ==
    /\ wpc = "take"
    /\ Len(inq) >= InSlots \/ broken
    /\ Reply("again")
    /\ UNCHANGED <<createVars, req, sessionFlags, platform, stray>>

(* The record is larger than the buffer, which goes back empty; or the     *)
(* codec does not take it.                                                 *)
QueueFails ==
    /\ wpc = "take"
    /\ Len(inq) < InSlots /\ ~broken
    /\ \/ req.op = "input" /\ inq' = Append(inq, Buffer("empty", 0, FALSE))
       \/ UNCHANGED inq
    /\ Reply("error")
    /\ UNCHANGED <<createVars, req, sessionFlags, outq, surf, back, fmt,
                   broken, stray>>

QueueTakes ==
    /\ wpc = "take"
    /\ Len(inq) < InSlots /\ ~broken
    /\ inq' = Append(inq, req.rec)
    /\ input_eos' = (input_eos \/ req.op = "eos")
    /\ last_encoder_pts' = IF kind = "encoder" /\ req.rec.tag = "frame"
                           THEN req.rec.pts ELSE last_encoder_pts
    /\ IF Transcoder THEN wpc' = "pump" /\ UNCHANGED reply ELSE Reply("ok")
    /\ UNCHANGED <<createVars, req, encoder_eos_signaled, pending_image,
                   outq, surf, back, fmt, broken, stray>>

(* A transcoder pumps once more; if that fails the record stays queued.    *)
QueueEnds ==
    /\ wpc = "pump"
    /\ \/ PumpOk /\ Reply("ok")
       \/ PumpFails /\ Reply("error")
    /\ UNCHANGED <<createVars, req, input_eos, pending_image, last_encoder_pts,
                   inq, back, fmt, broken, stray>>

-----------------------------------------------------------------------------
(* OUTPUT (dequeue_internal): a pending image first, otherwise a transcoder*)
(* pumps and the codec's next output buffer is taken.                      *)
OutputStarts ==
    /\ Dispatch("output")
    /\ \/ pending_image # None /\ wpc' = "image" /\ UNCHANGED reply /\ NoPump
       \/ /\ pending_image = None
          /\ \/ ~Transcoder /\ wpc' = "dequeue" /\ UNCHANGED reply /\ NoPump
             \/ Transcoder /\ wpc' = "dequeue" /\ UNCHANGED reply /\ PumpOk
             \/ Transcoder /\ Reply("error") /\ PumpFails
    /\ UNCHANGED <<createVars, req, input_eos, pending_image, last_encoder_pts,
                   inq, back, fmt, broken, stray>>

Output == IF Transcoder THEN back ELSE outq

TakeOutput ==
    IF Transcoder THEN back' = Tail(back) /\ UNCHANGED outq
                  ELSE outq' = Tail(outq) /\ UNCHANGED back

(* Nothing within the timeout, or the codec fails (three attempts).        *)
OutputAgain ==
    /\ wpc = "dequeue"
    /\ Output = <<>> \/ broken
    /\ Reply("again")
    /\ UNCHANGED <<createVars, req, sessionFlags, platform, stray>>

(* A format, a packet, codec data or an empty EOS buffer is the answer; a  *)
(* buffer that does not fit or cannot be read is given back, and lost.     *)
OutputRecord ==
    /\ wpc = "dequeue"
    /\ Output # <<>> /\ ~broken
    /\ kind = "decoder" => Head(Output).tag # "frame"
    /\ TakeOutput
    /\ CASE Head(Output).tag = "format" -> Reply("format")
         [] OTHER -> ReplyRecord(Head(Output), Head(Output).pts) \/ Reply("error")
    /\ UNCHANGED <<createVars, req, sessionFlags, inq, surf, fmt, broken, stray>>

(* A decoded frame is rendered to the image reader and its image awaited.  *)
OutputFrame ==
    /\ wpc = "dequeue"
    /\ Output # <<>> /\ ~broken
    /\ kind = "decoder" /\ Head(Output).tag = "frame"
    /\ TakeOutput
    /\ \/ /\ pending_image' = Head(Output)
          /\ surf' = Append(surf, Head(Output))
          /\ wpc' = "image"
          /\ UNCHANGED reply
       \/ Reply("error") /\ UNCHANGED <<pending_image, surf>>
    /\ UNCHANGED <<createVars, req, input_eos, encoder_eos_signaled,
                   last_encoder_pts, inq, fmt, broken, stray>>

(* output_pending_image: the next image, under the awaited record's PTS.   *)
OutputImage ==
    /\ wpc = "image"
    /\ back # <<>>
    /\ back' = Tail(back)
    /\ \/ /\ ReplyRecord(pending_image, Head(back).pts)
          /\ pending_image' = None
       \/ Reply("error") /\ UNCHANGED pending_image     \* normalize_image
    /\ UNCHANGED <<createVars, req, input_eos, encoder_eos_signaled,
                   last_encoder_pts, inq, outq, surf, fmt, broken, stray>>

(* No image within 100 ms, or the reader fails; the record stays pending.  *)
ImageMissing ==
    /\ wpc = "image"
    /\ \/ back = <<>> /\ Reply("again")
       \/ Reply("error")
    /\ UNCHANGED <<createVars, req, sessionFlags, platform, stray>>

-----------------------------------------------------------------------------
(* Mutant of Flush: the reader's images are not drained.                   *)
FlushKeepsImages ==
    /\ Dispatch("flush")
    /\ ~broken
    /\ Reply("ok")
    /\ inq' = <<>> /\ outq' = <<>>
    /\ IF kind = "decoder"
       THEN stray' = (stray \/ surf # <<>>) /\ UNCHANGED <<surf, back>>
       ELSE surf' = <<>> /\ back' = <<>> /\ UNCHANGED stray
    /\ input_eos' = FALSE /\ encoder_eos_signaled' = FALSE
    /\ pending_image' = None /\ last_encoder_pts' = 0
    /\ UNCHANGED <<createVars, req, fmt, broken>>

(* dscw_codec_flush: the codecs drop their buffers, the reader its images; *)
(* an image that is on its way to the reader still arrives.                *)
Flush ==
    /\ Dispatch("flush")
    /\ ~broken
    /\ Reply("ok")
    /\ inq' = <<>> /\ outq' = <<>> /\ back' = <<>>
    /\ IF kind = "decoder"
       THEN stray' = (stray \/ surf # <<>>) /\ UNCHANGED surf
       ELSE surf' = <<>> /\ UNCHANGED stray
    /\ input_eos' = FALSE /\ encoder_eos_signaled' = FALSE
    /\ pending_image' = None /\ last_encoder_pts' = 0
    /\ UNCHANGED <<createVars, req, fmt, broken>>

(* The flush fails, of a transcoder perhaps after its decoder was flushed; *)
(* the flags stay.                                                         *)
FlushFails ==
    /\ Dispatch("flush")
    /\ Reply("error")
    /\ \/ UNCHANGED <<inq, outq>>
       \/ Transcoder /\ ~broken /\ inq' = <<>> /\ outq' = <<>>
    /\ UNCHANGED <<createVars, req, sessionFlags, surf, back, fmt, broken, stray>>

(* REQUEST_KEYFRAME and SESSION_STATS change nothing the model keeps; a    *)
(* decoder has no key frames to request.                                   *)
KeyframeOrStats ==
    /\ \/ Dispatch("stats") /\ (Reply("ok") \/ Reply("error"))
       \/ Dispatch("keyframe") /\ (Reply("error") \/ (kind # "decoder" /\ Reply("ok")))
    /\ UNCHANGED <<createVars, req, sessionFlags, platform, stray>>

ClearSession ==
    /\ input_eos' = FALSE /\ encoder_eos_signaled' = FALSE
    /\ pending_image' = None /\ last_encoder_pts' = 0
    /\ inq' = <<>> /\ outq' = <<>> /\ surf' = <<>> /\ back' = <<>>
    /\ fmt' = FALSE /\ broken' = FALSE /\ stray' = FALSE

Close ==
    /\ Dispatch("close")
    /\ Reply("ok")
    /\ DestroySession
    /\ ClearSession
    /\ UNCHANGED req

WorkerStep ==
    \/ DispatchCreate \/ RunCreate \/ CreateReplies \/ UnknownSession
    \/ QueueStarts \/ QueueAgain \/ QueueFails \/ QueueTakes \/ QueueEnds
    \/ OutputStarts \/ OutputAgain \/ OutputRecord \/ OutputFrame
    \/ OutputImage \/ ImageMissing \/ Flush \/ FlushFails \/ KeyframeOrStats
    \/ Close

-----------------------------------------------------------------------------
(* The platform codec (external)                                           *)

(* The end of the stream: an empty buffer, or a flag on the last frame.    *)
WithEos(q) ==
    {Append(q, Eos)} \cup
    IF q # <<>> /\ q[Len(q)].tag = "frame"
    THEN {[q EXCEPT ![Len(q)].eos = TRUE]} ELSE {}

(* Output buffers in use: a format, which comes first, is an event and not *)
(* a buffer.                                                               *)
InUse(q) ==
    Len(q) - IF q # <<>> /\ q[1].tag = "format" THEN 1 ELSE 0

(* The output format, with an encoder's parameter sets, before any output. *)
AnnounceFormat ==
    LET codecData == IF kind = "decoder" THEN <<>>
                     ELSE <<Buffer("config", 0, FALSE)>>
        first == <<Buffer("format", 0, FALSE)>> \o codecData
    IN /\ cpc = "ready" /\ ~broken /\ ~fmt
       /\ fmt' = TRUE
       /\ IF Transcoder
          THEN surf # <<>> /\ back' = first /\ UNCHANGED outq
          ELSE inq # <<>> /\ outq' = first /\ UNCHANGED back
       /\ UNCHANGED <<createVars, req, reply, wpc, sessionFlags, inq, surf,
                      broken, stray>>

(* The codec works off one input buffer; a bad frame yields nothing.       *)
ProcessInput ==
    /\ cpc = "ready" /\ ~broken /\ inq # <<>>
    /\ Transcoder \/ fmt
    /\ InUse(outq) < OutSlots
    /\ inq' = Tail(inq)
    /\ CASE Head(inq).tag = "frame" -> outq' \in {outq, Append(outq, Head(inq))}
         [] Head(inq).tag = "eos" -> outq' \in WithEos(outq)
         [] OTHER -> UNCHANGED outq
    /\ UNCHANGED <<createVars, req, reply, wpc, sessionFlags, surf, back, fmt,
                   broken, stray>>

(* A rendered frame reaches the image reader, or the Surface encoder.      *)
ProcessSurface ==
    /\ cpc = "ready" /\ ~broken /\ surf # <<>>
    /\ surf' = Tail(surf)
    /\ \/ /\ kind = "decoder"
          /\ Len(back) < MaxImages
          /\ back' = Append(back, Head(surf))
       \/ /\ Transcoder
          /\ fmt
          /\ InUse(back) < OutSlots
          /\ IF Head(surf) = Eos THEN back' \in WithEos(back)
                                 ELSE back' = Append(back, Head(surf))
    /\ UNCHANGED <<createVars, req, reply, wpc, sessionFlags, inq, outq, fmt,
                   broken, stray>>

PlatformStep == AnnounceFormat \/ ProcessInput \/ ProcessSurface

(* The codec enters its error state, or the media service dies.            *)
CodecBreaks ==
    /\ cpc = "ready" /\ ~broken
    /\ broken' = TRUE
    /\ UNCHANGED <<createVars, req, reply, wpc, sessionFlags, queues, fmt, stray>>

-----------------------------------------------------------------------------
(* Every decoded picture is delivered under the PTS of its own frame, over *)
(* late images, failed conversions and FLUSHes, unless an image was still  *)
(* on its way to the reader when a FLUSH emptied it.                       *)
PairedUnlessStray ==
    reply.status = "ok" /\ reply.rec.tag = "frame" /\ ~stray
    => reply.img = reply.rec.pts

(* The record that carries the end of the stream is the last one: nothing  *)
(* the session accepted is still in a codec, on the surface or in the      *)
(* reader.                                                                 *)
EosIsLast ==
    reply.status = "ok" /\ reply.rec.eos /\ ~stray
    => \A q \in {inq, outq, surf, back} :
           \A i \in DOMAIN q : q[i].tag \notin {"frame", "eos"}
=============================================================================
