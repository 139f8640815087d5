------------------------- MODULE CodecStream_proofs -------------------------
(***************************************************************************)
(* Proofs about the stream of a codec command, for every stream, every     *)
(* number of buffers and every behaviour of the platform codec: pictures   *)
(* keep their PTS, the end of the stream comes last, and a pipe that exits *)
(* with 0 has written every frame it read.                                 *)
(*                                                                         *)
(* A frame travels from inq to outq, for a decoder on to the pending image,*)
(* for a transcoder on to surf and back, into an answer and at last to out.*)
(* The invariant is about what may be on that way at the same time.        *)
(***************************************************************************)
EXTENDS CodecPipe_proofs, SequenceTheorems

Tags == {"none", "frame", "config", "invalid", "eos", "empty", "format"}
Buffers == [tag : Tags, pts : Nat, eos : BOOLEAN]
Operations == {"none", "create", "input", "eos", "output", "flush", "keyframe",
               "stats", "close"}
Requests == [op : Operations, rec : Buffers]
Statuses == {"none", "ok", "again", "format", "error"}
Replies == [status : Statuses, rec : Buffers, img : Nat]
WorkerPcs == {"idle", "create", "take", "pump", "dequeue", "image"}
OutRecord == [pts : Nat, img : Nat]

(* The types of the worker's state, and of the client's.                   *)
WorkerTypes ==
    /\ kind \in SessionKinds
    /\ req \in Requests /\ reply \in Replies /\ wpc \in WorkerPcs
    /\ input_eos \in BOOLEAN /\ encoder_eos_signaled \in BOOLEAN
    /\ fmt \in BOOLEAN /\ broken \in BOOLEAN /\ stray \in BOOLEAN
    /\ pending_image \in Buffers /\ last_encoder_pts \in Nat
    /\ inq \in Seq(Buffers) /\ outq \in Seq(Buffers)
    /\ surf \in Seq(Buffers) /\ back \in Seq(Buffers)

ClientTypes ==
    /\ mode \in {"pipe", "protocol"} /\ pc \in ClientPcs
    /\ stream \in Seq({"frame", "config", "invalid", "eos", "truncated"})
    /\ pos \in Nat /\ frames \in Nat /\ frames <= pos /\ pos <= Len(stream)
    /\ out \in Seq(OutRecord) /\ saw_eos \in BOOLEAN
    /\ idle \in 0..IdleLimit /\ result \in {0, 1}
    /\ pc \notin {"stats", "close", "done"} => idle < IdleLimit

(* Client and worker take turns, and where each of them is tells what the  *)
(* request is.                                                             *)
Handshake ==
    /\ reply.status = "none" => reply = NoReply
    /\ wpc # "idle" => reply = NoReply
    /\ wpc \in {"take", "pump"} => req.op \in {"input", "eos"}
    /\ wpc = "create" => req.op = "create"
    /\ wpc \in {"dequeue", "image"} => req.op = "output"
    /\ pc \in {"start", "read", "any", "done"} =>
          req = NoRequest /\ reply = NoReply /\ wpc = "idle"
    /\ pc \in {"create", "keyframe", "input", "eos", "stats", "close"} =>
          req.op = pc
    /\ pc \in {"drain", "final"} => req.op = "output"
    /\ mode = "pipe" => pc \notin {"any", "anyReply"}
    /\ req.op = "input" => req.rec.tag \in {"frame", "config", "invalid"}
                           /\ ~req.rec.eos
    /\ req.op = "eos" => req.rec = Eos
    /\ wpc = "take" => ~input_eos

-----------------------------------------------------------------------------
Ended(q) == \E i \in DOMAIN q : q[i].eos
EndsLast(q) == \A i \in DOMAIN q : q[i].eos => i = Len(q)

(* Once the end of the stream is somewhere on its way, there is nothing    *)
(* behind it, and nothing can come.                                        *)
EndIsLast ==
    /\ EndsLast(inq) /\ EndsLast(outq)
    /\ \A i \in DOMAIN inq : inq[i].tag = "eos" => inq[i].eos
    /\ Ended(inq) => input_eos
    /\ Ended(outq) => input_eos /\ inq = <<>>
    /\ pending_image.eos => input_eos /\ inq = <<>> /\ outq = <<>>
    /\ encoder_eos_signaled => Transcoder /\ input_eos /\ inq = <<>> /\ outq = <<>>
    /\ Transcoder =>
          /\ EndsLast(surf) /\ EndsLast(back)
          /\ Ended(surf) => encoder_eos_signaled
          /\ Ended(back) => encoder_eos_signaled /\ surf = <<>>
    /\ reply.status = "ok" /\ reply.rec.eos =>
          inq = <<>> /\ outq = <<>> /\ (~stray => surf = <<>> /\ back = <<>>)

(* A decoder has one picture on its way to the reader, the one that is     *)
(* awaited; the other kinds await none.                                    *)
OnePicture ==
    /\ stray => kind = "decoder"
    /\ pending_image # None => kind = "decoder" /\ pending_image.tag = "frame"
    /\ kind = "encoder" => surf = <<>> /\ back = <<>>
    /\ wpc = "dequeue" => pending_image = None
    /\ wpc = "image" => pending_image # None
    /\ wpc = "pump" => Transcoder
    /\ kind = "decoder" /\ ~stray =>
          \/ surf = <<>> /\ back = <<>>
          \/ /\ pending_image # None
             /\ \/ surf = <<pending_image>> /\ back = <<>>
                \/ surf = <<>> /\ back = <<pending_image>>
    /\ reply.status = "ok" /\ reply.rec.tag = "frame" /\ ~stray =>
          reply.img = reply.rec.pts /\ pending_image = None

(* The buffers of a codec are bounded.                                     *)
Bounded ==
    /\ Len(inq) <= InSlots
    /\ InUse(outq) <= OutSlots
    /\ InUse(back) <= IF kind = "decoder" THEN MaxImages ELSE OutSlots

SessionInv == WorkerTypes /\ Handshake /\ EndIsLast /\ OnePicture /\ Bounded

-----------------------------------------------------------------------------
(* The PTS of the frames in a queue, of the awaited picture, of the answer.*)
Frames(q) == {q[i].pts : i \in {j \in DOMAIN q : q[j].tag = "frame"}}
Awaited == IF pending_image # None THEN {pending_image.pts} ELSE {}
Answered == IF reply.status = "ok" /\ reply.rec.tag = "frame"
            THEN {reply.rec.pts} ELSE {}
Delivered == {out[i].pts : i \in DOMAIN out}

Rising(q) ==
    \A i, j \in DOMAIN q :
        i < j /\ q[i].tag = "frame" /\ q[j].tag = "frame" => q[i].pts < q[j].pts

Below(S, T) == \A x \in S, y \in T : x < y

(* The record in the request is one the codec has not taken yet.           *)
Untaken ==
    /\ req.op = "input" /\ req.rec.tag = "frame"
    /\ \/ wpc = "take"
       \/ wpc = "idle" /\ reply.status \in {"none", "again"}

(* The last PTS that is past the request.                                  *)
Limit == IF Untaken THEN frames - 1 ELSE frames

(* The PTS delivered, answered and awaited, and those of the frames on the *)
(* way back from the surface, on it, behind the codec and before it: what  *)
(* is further on its way is smaller, and none is past n.                   *)
Chain(D, A, W, B, S, O, I, n) ==
    /\ Below(O, I)
    /\ Below(S, O \cup I)
    /\ Below(B, S \cup O \cup I)
    /\ Below(W, O \cup I)
    /\ Below(A, B \cup S \cup O \cup I)
    /\ Below(D, A \cup W \cup B \cup S \cup O \cup I)
    /\ D \cup A \cup W \cup B \cup S \cup O \cup I \subseteq 1..n

(* On its way through a pipe every frame is ahead of the ones read later.  *)
Ordered ==
    /\ Rising(inq) /\ Rising(outq) /\ Rising(surf) /\ Rising(back)
    /\ Chain(Delivered, Answered, Awaited, Frames(back), Frames(surf),
             Frames(outq), Frames(inq), Limit)

(* What was written: each with its own picture, and each gap in the PTS is *)
(* a frame that is missing.                                                *)
OutGaps ==
    /\ \A i \in DOMAIN out : out[i].img = out[i].pts
    /\ \A i, j \in DOMAIN out : i < j => j - i <= out[j].pts - out[i].pts

(* The exit status is 0 only when no frame is missing.                     *)
Judged ==
    result = 0 /\ pc \in {"stats", "close", "done"} =>
        saw_eos /\ frames > 0 /\ Len(out) = frames

PipeInv ==
    mode = "pipe" =>
        /\ ~stray /\ req.op # "flush"
        /\ Untaken => req.rec.pts = frames /\ frames > 0
        /\ Ordered /\ OutGaps /\ Judged

StreamInv == SessionInv /\ ClientTypes /\ PipeInv

-----------------------------------------------------------------------------
(* Queues of buffers.                                                      *)

(* A buffer is what it says.                                               *)
LEMMA BufferParts ==
    ASSUME NEW tag \in Tags, NEW pts \in Nat, NEW eos \in BOOLEAN
    PROVE  /\ Buffer(tag, pts, eos) \in Buffers
           /\ Buffer(tag, pts, eos).tag = tag /\ Buffer(tag, pts, eos).pts = pts
           /\ Buffer(tag, pts, eos).eos = eos
BY DEF Buffer, Buffers

(* The buffer that is none, and the one that ends the stream.              *)
LEMMA NoneAndEos ==
    /\ None \in Buffers /\ None.tag = "none" /\ None.pts = 0 /\ ~None.eos
    /\ Eos \in Buffers /\ Eos.tag = "eos" /\ Eos.pts = 0 /\ Eos.eos
<1>1. "none" \in Tags /\ "eos" \in Tags /\ 0 \in Nat BY DEF Tags
<1> QED BY <1>1 DEF None, Eos, Buffer, Buffers

(* Elements of a queue.                                                    *)
LEMMA QueueElements ==
    ASSUME NEW q \in Seq(Buffers)
    PROVE  /\ Len(q) \in Nat /\ DOMAIN q = 1..Len(q)
           /\ q = <<>> <=> Len(q) = 0
           /\ \A i \in DOMAIN q : /\ q[i] \in Buffers /\ q[i].pts \in Nat
                                  /\ q[i].eos \in BOOLEAN
<1>1. \A i \in DOMAIN q : q[i] \in Buffers OBVIOUS
<1>2. \A b \in Buffers : b.pts \in Nat /\ b.eos \in BOOLEAN BY DEF Buffers
<1>3. Len(q) \in Nat /\ DOMAIN q = 1..Len(q) OBVIOUS
<1>4. q = <<>> <=> Len(q) = 0 BY EmptySeq
<1> QED BY <1>1, <1>2, <1>3, <1>4

(* The empty queue.                                                        *)
LEMMA EmptyQueue ==
    /\ <<>> \in Seq(Buffers) /\ Frames(<<>>) = {} /\ Rising(<<>>)
    /\ EndsLast(<<>>) /\ ~Ended(<<>>) /\ InUse(<<>>) = 0 /\ Len(<<>>) = 0
BY DEF Frames, Rising, EndsLast, Ended, InUse

(* A part of a queue, in its order: what it shows is in the queue.         *)
LEMMA PartOfQueue ==
    ASSUME NEW q \in Seq(Buffers), NEW r \in Seq(Buffers), NEW d \in Nat,
           Len(r) + d <= Len(q),
           \A i \in 1..Len(r) : r[i].tag = q[i + d].tag /\ r[i].pts = q[i + d].pts
    PROVE  /\ Frames(r) \subseteq Frames(q)
           /\ Rising(q) => Rising(r)
<1>1. /\ DOMAIN q = 1..Len(q) /\ DOMAIN r = 1..Len(r)
      /\ Len(q) \in Nat /\ Len(r) \in Nat
  BY QueueElements
<1>2. \A i \in 1..Len(r) : i + d \in 1..Len(q) BY <1>1
<1>3. Frames(r) \subseteq Frames(q) BY <1>1, <1>2 DEF Frames
<1>4. ASSUME Rising(q), NEW i \in DOMAIN r, NEW j \in DOMAIN r, i < j,
             r[i].tag = "frame", r[j].tag = "frame"
      PROVE  r[i].pts < r[j].pts
  <2>1. i + d \in DOMAIN q /\ j + d \in DOMAIN q /\ i + d < j + d
    BY <1>1, <1>2, <1>4
  <2>2. q[i + d].tag = "frame" /\ q[j + d].tag = "frame" BY <1>1, <1>4
  <2> QED BY <1>1, <1>4, <2>1, <2>2 DEF Rising
<1> QED BY <1>3, <1>4 DEF Rising

(* The rest of a queue after its first n buffers.                          *)
LEMMA RestOfQueue ==
    ASSUME NEW q \in Seq(Buffers), NEW n \in Nat, n <= Len(q)
    PROVE  LET r == SubSeq(q, n + 1, Len(q))
           IN /\ r \in Seq(Buffers) /\ Len(r) = Len(q) - n
              /\ \A i \in 1..Len(r) : r[i] = q[i + n]
              /\ Frames(r) \subseteq Frames(q)
              /\ Rising(q) => Rising(r)
              /\ EndsLast(q) => EndsLast(r)
              /\ Ended(r) => Ended(q)
              /\ InUse(r) <= InUse(q)
<1> DEFINE r == SubSeq(q, n + 1, Len(q))
<1>1. Len(q) \in Nat /\ DOMAIN q = 1..Len(q) BY QueueElements
<1>2. r \in Seq(Buffers) /\ Len(r) = Len(q) - n
      /\ \A i \in 1..Len(r) : r[i] = q[i + n]
  <2>1. \A i \in (n + 1)..Len(q) : q[i] \in Buffers BY <1>1
  <2>2. /\ r \in Seq(Buffers)
        /\ Len(r) = IF n + 1 <= Len(q) THEN Len(q) - (n + 1) + 1 ELSE 0
        /\ \A i \in 1..(Len(q) - (n + 1) + 1) : r[i] = q[n + 1 + i - 1]
    BY <1>1, <2>1, SubSeqProperties
  <2> HIDE DEF r
  <2>3. Len(r) = Len(q) - n
    <3>1. Len(q) \in Nat BY <1>1
    <3> QED BY <2>2, <3>1
  <2>4. ASSUME NEW i \in 1..Len(r) PROVE r[i] = q[i + n]
    <3>1. i \in 1..(Len(q) - (n + 1) + 1) /\ n + 1 + i - 1 = i + n
      BY <1>1, <2>3
    <3> QED BY <2>2, <3>1
  <2> QED BY <2>2, <2>3, <2>4
<1>3. DOMAIN r = 1..Len(r) /\ Len(r) \in Nat BY <1>2, QueueElements
<1> HIDE DEF r
<1>4. Frames(r) \subseteq Frames(q) /\ (Rising(q) => Rising(r))
  BY <1>1, <1>2, PartOfQueue
<1>5. (EndsLast(q) => EndsLast(r)) /\ (Ended(r) => Ended(q))
  <2>1. \A i \in DOMAIN r : /\ i + n \in DOMAIN q /\ r[i] = q[i + n]
                            /\ i + n = Len(q) => i = Len(r)
    BY <1>1, <1>2, <1>3
  <2> QED BY <2>1 DEF EndsLast, Ended
<1>6. InUse(r) <= InUse(q)
  <2>1. CASE n = 0
    <3>1. q # <<>> <=> Len(q) # 0 BY QueueElements
    <3>2. r # <<>> <=> Len(r) # 0 BY <1>2, QueueElements
    <3>3. q # <<>> => r[1] = q[1] BY <1>1, <1>2, <2>1, <3>1
    <3> QED BY <1>1, <1>2, <2>1, <3>1, <3>2, <3>3 DEF InUse
  <2>2. CASE n # 0
    <3>1. InUse(r) <= Len(r) BY <1>3 DEF InUse
    <3>2. Len(q) - 1 <= InUse(q) BY <1>1 DEF InUse
    <3>3. InUse(r) \in Int /\ InUse(q) \in Int BY <1>1, <1>3 DEF InUse
    <3> QED BY <1>1, <1>2, <1>3, <2>2, <3>1, <3>2, <3>3
  <2> QED BY <2>1, <2>2
<1> QED BY <1>2, <1>4, <1>5, <1>6 DEF r

(* Taking the first buffer.                                                *)
LEMMA HeadOfQueue ==
    ASSUME NEW q \in Seq(Buffers), q # <<>>
    PROVE  /\ Head(q) \in Buffers /\ Tail(q) \in Seq(Buffers)
           /\ Len(Tail(q)) = Len(q) - 1
           /\ Frames(Tail(q)) \subseteq Frames(q)
           /\ Head(q).tag = "frame" => Head(q).pts \in Frames(q)
           /\ Rising(q) => /\ Rising(Tail(q))
                           /\ Head(q).tag = "frame" =>
                                Below({Head(q).pts}, Frames(Tail(q)))
           /\ EndsLast(q) => /\ EndsLast(Tail(q))
                             /\ Head(q).eos => Tail(q) = <<>>
           /\ Ended(Tail(q)) => Ended(q)
           /\ Head(q).eos => Ended(q)
           /\ InUse(Tail(q)) <= InUse(q)
<1>1. /\ Len(q) \in Nat /\ Len(q) >= 1 /\ DOMAIN q = 1..Len(q)
      /\ 1 \in DOMAIN q /\ q[1] \in Buffers
  BY QueueElements
<1>2. Head(q) = q[1] BY <1>1
<1>3. Tail(q) = SubSeq(q, 1 + 1, Len(q)) BY TailIsSubSeq
<1> DEFINE r == SubSeq(q, 1 + 1, Len(q))
<1>4. /\ r \in Seq(Buffers) /\ Len(r) = Len(q) - 1
      /\ \A i \in 1..Len(r) : r[i] = q[i + 1]
      /\ Frames(r) \subseteq Frames(q)
      /\ Rising(q) => Rising(r)
      /\ EndsLast(q) => EndsLast(r)
      /\ Ended(r) => Ended(q)
      /\ InUse(r) <= InUse(q)
  BY <1>1, RestOfQueue
<1>5. DOMAIN r = 1..Len(r) /\ (r = <<>> <=> Len(r) = 0) BY <1>4, QueueElements
<1> HIDE DEF r
<1>6. q[1].tag = "frame" => q[1].pts \in Frames(q) BY <1>1 DEF Frames
<1>7. ASSUME Rising(q), q[1].tag = "frame", NEW y \in Frames(r)
      PROVE  q[1].pts < y
  <2>1. PICK i \in DOMAIN r : r[i].tag = "frame" /\ y = r[i].pts
    BY DEF Frames
  <2>2. i + 1 \in DOMAIN q /\ 1 < i + 1 /\ r[i] = q[i + 1]
    BY <1>1, <1>4, <1>5, <2>1
  <2> QED BY <1>1, <1>7, <2>1, <2>2 DEF Rising
<1>8. EndsLast(q) /\ q[1].eos => r = <<>>
  BY <1>1, <1>4, <1>5 DEF EndsLast
<1>9. q[1].eos => Ended(q) BY <1>1 DEF Ended
<1>10. Rising(q) /\ q[1].tag = "frame" => Below({q[1].pts}, Frames(r))
  BY <1>7 DEF Below
<1> QED BY <1>1, <1>2, <1>3, <1>4, <1>6, <1>8, <1>9, <1>10 DEF r

(* Appending a buffer.                                                     *)
LEMMA AppendToQueue ==
    ASSUME NEW q \in Seq(Buffers), NEW b \in Buffers
    PROVE  LET r == Append(q, b)
           IN /\ r \in Seq(Buffers) /\ Len(r) = Len(q) + 1
              /\ Frames(r) = Frames(q) \cup IF b.tag = "frame" THEN {b.pts} ELSE {}
              /\ Rising(q) /\ (b.tag = "frame" => Below(Frames(q), {b.pts}))
                    => Rising(r)
              /\ ~Ended(q) => EndsLast(r)
              /\ Ended(r) <=> Ended(q) \/ b.eos
              /\ InUse(r) <= InUse(q) + 1
<1> DEFINE r == Append(q, b)
<1>1. Len(q) \in Nat /\ DOMAIN q = 1..Len(q) BY QueueElements
<1>2. /\ r \in Seq(Buffers) /\ Len(r) = Len(q) + 1
      /\ \A i \in 1..Len(q) : r[i] = q[i]
      /\ r[Len(q) + 1] = b
  BY AppendProperties
<1>3. DOMAIN r = 1..(Len(q) + 1) BY <1>2, QueueElements
<1> HIDE DEF r
<1>4. Frames(r) = Frames(q) \cup IF b.tag = "frame" THEN {b.pts} ELSE {}
  BY <1>1, <1>2, <1>3 DEF Frames
<1>5. ASSUME Rising(q), b.tag = "frame" => Below(Frames(q), {b.pts}),
             NEW i \in DOMAIN r, NEW j \in DOMAIN r, i < j,
             r[i].tag = "frame", r[j].tag = "frame"
      PROVE  r[i].pts < r[j].pts
  <2>1. i \in DOMAIN q /\ r[i] = q[i] BY <1>1, <1>2, <1>3, <1>5
  <2>2. CASE j \in DOMAIN q BY <1>1, <1>2, <1>5, <2>1, <2>2 DEF Rising
  <2>3. CASE j = Len(q) + 1
    <3>1. q[i].pts \in Frames(q) BY <1>5, <2>1 DEF Frames
    <3> QED BY <1>2, <1>5, <2>1, <2>3, <3>1 DEF Below
  <2> QED BY <1>1, <1>3, <2>2, <2>3
<1>6. ~Ended(q) => EndsLast(r) BY <1>1, <1>2, <1>3 DEF Ended, EndsLast
<1>7. Ended(r) <=> Ended(q) \/ b.eos BY <1>1, <1>2, <1>3 DEF Ended
<1>8. InUse(r) <= InUse(q) + 1
  <2>1. q # <<>> <=> Len(q) # 0 BY QueueElements
  <2>2. r # <<>> <=> Len(r) # 0 BY <1>2, QueueElements
  <2>3. q # <<>> => r[1] = q[1] BY <1>1, <1>2, <2>1
  <2> QED BY <1>1, <1>2, <2>1, <2>2, <2>3 DEF InUse
<1>9. Rising(q) /\ (b.tag = "frame" => Below(Frames(q), {b.pts})) => Rising(r)
  BY <1>5 DEF Rising
<1> QED BY <1>2, <1>4, <1>6, <1>7, <1>8, <1>9 DEF r

(* The end of the stream, on the last frame or as a buffer of its own.     *)
LEMMA EndQueue ==
    ASSUME NEW q \in Seq(Buffers), NEW r \in WithEos(q)
    PROVE  /\ r \in Seq(Buffers) /\ Frames(r) = Frames(q)
           /\ Rising(q) => Rising(r)
           /\ ~Ended(q) => EndsLast(r)
           /\ InUse(r) <= InUse(q) + 1
<1>1. Len(q) \in Nat /\ DOMAIN q = 1..Len(q) /\ (q = <<>> <=> Len(q) = 0)
  BY QueueElements
<1>2. CASE r = Append(q, Eos)
  BY <1>2, AppendToQueue, NoneAndEos
<1>3. CASE q # <<>> /\ r = [q EXCEPT ![Len(q)].eos = TRUE]
  <2> DEFINE b == [q[Len(q)] EXCEPT !.eos = TRUE]
  <2>1. Len(q) \in DOMAIN q /\ q[Len(q)] \in Buffers BY <1>1, <1>3
  <2>2. b \in Buffers /\ b.tag = q[Len(q)].tag /\ b.pts = q[Len(q)].pts
    BY <2>1 DEF Buffers
  <2>3. r = [q EXCEPT ![Len(q)] = b] BY <1>3
  <2> HIDE DEF b
  <2>4. /\ r \in Seq(Buffers) /\ Len(r) = Len(q)
        /\ \A i \in 1..Len(q) : r[i] = IF i = Len(q) THEN b ELSE q[i]
    BY <1>1, <2>1, <2>2, <2>3, ExceptSeq
  <2>5. /\ DOMAIN r = DOMAIN q
        /\ \A i \in DOMAIN q : r[i].tag = q[i].tag /\ r[i].pts = q[i].pts
    <3>1. DOMAIN r = 1..Len(r) BY <2>4, QueueElements
    <3> QED BY <1>1, <2>2, <2>4, <3>1
  <2>6. Frames(r) = Frames(q) BY <2>5 DEF Frames
  <2>7. Rising(q) => Rising(r) BY <2>5 DEF Rising
  <2>8. ~Ended(q) => EndsLast(r)
    BY <1>1, <2>4, <2>5 DEF Ended, EndsLast
  <2>9. InUse(r) <= InUse(q) + 1
    <3>1. Len(q) \in Nat /\ Len(r) = Len(q) BY <1>1, <2>4
    <3>2. InUse(r) <= Len(r) /\ Len(q) - 1 <= InUse(q)
          /\ InUse(r) \in Int /\ InUse(q) \in Int
      BY <3>1 DEF InUse
    <3> QED BY <3>1, <3>2
  <2> QED BY <2>4, <2>6, <2>7, <2>8, <2>9
<1> QED BY <1>2, <1>3 DEF WithEos

(* One queue after the other.                                              *)
LEMMA ConcatQueues ==
    ASSUME NEW q \in Seq(Buffers), NEW r \in Seq(Buffers)
    PROVE  /\ q \o r \in Seq(Buffers)
           /\ Frames(q \o r) = Frames(q) \cup Frames(r)
           /\ Rising(q) /\ Rising(r) /\ Below(Frames(q), Frames(r))
                => Rising(q \o r)
           /\ Ended(q \o r) <=> Ended(q) \/ Ended(r)
           /\ ~Ended(q) /\ EndsLast(r) => EndsLast(q \o r)
<1> DEFINE s == q \o r
<1>1. Len(q) \in Nat /\ Len(r) \in Nat BY QueueElements
<1>2. DOMAIN q = 1..Len(q) /\ DOMAIN r = 1..Len(r) BY QueueElements
<1>3. /\ s \in Seq(Buffers) /\ Len(s) = Len(q) + Len(r)
      /\ \A i \in 1..(Len(q) + Len(r)) :
            s[i] = IF i <= Len(q) THEN q[i] ELSE r[i - Len(q)]
  BY ConcatProperties
<1>4. DOMAIN s = 1..(Len(q) + Len(r)) BY <1>3, QueueElements
<1> HIDE DEF s
<1>5. \A i \in DOMAIN q : i \in DOMAIN s /\ s[i] = q[i]
  BY <1>1, <1>2, <1>3, <1>4
<1>6. \A j \in DOMAIN r : Len(q) + j \in DOMAIN s /\ s[Len(q) + j] = r[j]
  BY <1>1, <1>2, <1>3, <1>4
<1>7. \A i \in DOMAIN s :
         \/ i \in DOMAIN q /\ s[i] = q[i]
         \/ \E j \in DOMAIN r : i = Len(q) + j /\ s[i] = r[j]
  <2>1. ASSUME NEW i \in DOMAIN s, ~(i <= Len(q))
        PROVE  i - Len(q) \in DOMAIN r /\ i = Len(q) + (i - Len(q))
    BY <1>1, <1>2, <1>4, <2>1
  <2>2. ASSUME NEW i \in DOMAIN s, i <= Len(q) PROVE i \in DOMAIN q
    BY <1>1, <1>2, <1>4, <2>2
  <2> QED BY <1>3, <1>4, <2>1, <2>2
<1>8. Frames(s) = Frames(q) \cup Frames(r) BY <1>5, <1>6, <1>7 DEF Frames
<1>9. ASSUME Rising(q), Rising(r), Below(Frames(q), Frames(r)),
             NEW i \in DOMAIN s, NEW j \in DOMAIN s, i < j,
             s[i].tag = "frame", s[j].tag = "frame"
      PROVE  s[i].pts < s[j].pts
  <2>1. CASE i \in DOMAIN q /\ j \in DOMAIN q
    BY <1>5, <1>9, <2>1 DEF Rising
  <2>2. CASE i \in DOMAIN q /\ j \notin DOMAIN q
    <3>1. PICK k \in DOMAIN r : s[j] = r[k] BY <1>7, <2>2
    <3>2. s[i] = q[i] BY <1>5, <2>2
    <3>3. q[i].pts \in Frames(q) /\ r[k].pts \in Frames(r)
      BY <1>9, <2>2, <3>1, <3>2 DEF Frames
    <3> QED BY <1>9, <3>1, <3>2, <3>3 DEF Below
  <2>3. CASE i \notin DOMAIN q
    <3>1. PICK h \in DOMAIN r : i = Len(q) + h /\ s[i] = r[h] BY <1>7, <2>3
    <3>2. j \notin DOMAIN q BY <1>1, <1>2, <1>4, <1>9, <3>1
    <3>3. PICK k \in DOMAIN r : j = Len(q) + k /\ s[j] = r[k] BY <1>7, <3>2
    <3>4. h < k BY <1>1, <1>2, <1>9, <3>1, <3>3
    <3> QED BY <1>9, <3>1, <3>3, <3>4 DEF Rising
  <2> QED BY <2>1, <2>2, <2>3
<1>10. Ended(s) <=> Ended(q) \/ Ended(r) BY <1>5, <1>6, <1>7 DEF Ended
<1>11. ASSUME ~Ended(q), EndsLast(r), NEW i \in DOMAIN s, s[i].eos
       PROVE  i = Len(s)
  <2>1. PICK j \in DOMAIN r : i = Len(q) + j /\ s[i] = r[j]
    BY <1>7, <1>11 DEF Ended
  <2>2. j = Len(r) BY <1>11, <2>1 DEF EndsLast
  <2> QED BY <1>3, <2>1, <2>2
<1>12. Rising(q) /\ Rising(r) /\ Below(Frames(q), Frames(r)) => Rising(s)
  BY <1>9 DEF Rising
<1>13. ~Ended(q) /\ EndsLast(r) => EndsLast(s) BY <1>11 DEF EndsLast
<1> QED BY <1>3, <1>8, <1>10, <1>12, <1>13 DEF s

(* What is rendered are frames of the queue, without their flags.          *)
LEMMA RenderedQueue ==
    ASSUME NEW q \in Seq(Buffers)
    PROVE  /\ Rendered(q) \in Seq(Buffers)
           /\ Frames(Rendered(q)) \subseteq Frames(q)
           /\ Rising(q) => Rising(Rendered(q))
           /\ ~Ended(Rendered(q))
<1> DEFINE n == IF q # <<>> /\ q[Len(q)].tag = "eos" THEN Len(q) - 1 ELSE Len(q)
           r == [i \in 1..n |-> [q[i] EXCEPT !.eos = FALSE]]
<1>1. Len(q) \in Nat /\ (q = <<>> <=> Len(q) = 0) BY QueueElements
<1>2. n \in Nat /\ n <= Len(q) BY <1>1
<1>3. \A i \in 1..Len(q) : q[i] \in Buffers BY QueueElements
<1>4. r = Rendered(q) BY DEF Rendered
<1> HIDE DEF n
<1>5. \A b \in Buffers : /\ [b EXCEPT !.eos = FALSE] \in Buffers
                         /\ [b EXCEPT !.eos = FALSE].tag = b.tag
                         /\ [b EXCEPT !.eos = FALSE].pts = b.pts
                         /\ [b EXCEPT !.eos = FALSE].eos = FALSE
  BY DEF Buffers
<1>6. \A i \in 1..n : i \in 1..Len(q) /\ q[i] \in Buffers BY <1>1, <1>2, <1>3
<1>7. \A i \in 1..n : r[i] \in Buffers /\ r[i].tag = q[i].tag
                      /\ r[i].pts = q[i].pts /\ ~r[i].eos
  BY <1>5, <1>6
<1>8. r \in Seq(Buffers) /\ Len(r) = n /\ DOMAIN r = 1..n
  <2>1. r \in [1..n -> Buffers] BY <1>7
  <2>2. DOMAIN r = 1..n OBVIOUS
  <2> QED BY <1>2, <2>1, <2>2, SeqDef
<1> HIDE DEF r
<1>9. Len(r) + 0 <= Len(q) BY <1>1, <1>2, <1>8
<1>10. \A i \in 1..Len(r) : i + 0 = i BY <1>2, <1>8
<1>11. \A i \in 1..Len(r) : r[i].tag = q[i + 0].tag /\ r[i].pts = q[i + 0].pts
  BY <1>7, <1>8, <1>10
<1>12. Frames(r) \subseteq Frames(q) /\ (Rising(q) => Rising(r))
  BY <1>8, <1>9, <1>11, PartOfQueue
<1>13. ~Ended(r) BY <1>7, <1>8 DEF Ended
<1> QED BY <1>4, <1>8, <1>12, <1>13

(* The first m buffers of a queue, and the ones after the n-th.            *)
LEMMA SplitQueue ==
    ASSUME NEW q \in Seq(Buffers), NEW m \in Nat, NEW n \in Nat,
           m <= n, n <= Len(q)
    PROVE  /\ SubSeq(q, 1, m) \in Seq(Buffers) /\ Len(SubSeq(q, 1, m)) = m
           /\ \A i \in 1..m : SubSeq(q, 1, m)[i] = q[i]
           /\ Frames(SubSeq(q, 1, m)) \subseteq Frames(q)
           /\ Rising(q) =>
                /\ Rising(SubSeq(q, 1, m))
                /\ Below(Frames(SubSeq(q, 1, m)),
                         Frames(SubSeq(q, n + 1, Len(q))))
<1> DEFINE r == SubSeq(q, 1, m)
           t == SubSeq(q, n + 1, Len(q))
<1>1. Len(q) \in Nat BY QueueElements
<1>2. DOMAIN q = 1..Len(q) BY QueueElements
<1>3. \A i \in 1..m : i \in DOMAIN q /\ q[i] \in Buffers
  <2>1. \A i \in 1..m : i \in 1..Len(q) BY <1>1
  <2> QED BY <1>2, <2>1, QueueElements
<1>4. /\ r \in Seq(Buffers)
      /\ Len(r) = IF 1 <= m THEN m - 1 + 1 ELSE 0
      /\ \A i \in 1..(m - 1 + 1) : r[i] = q[1 + i - 1]
  BY <1>3, SubSeqProperties
<1>5. /\ t \in Seq(Buffers) /\ Len(t) = Len(q) - n
      /\ \A i \in 1..Len(t) : t[i] = q[i + n]
  BY RestOfQueue
<1> HIDE DEF r, t
<1>6. Len(r) = m BY <1>4
<1>7. \A i \in 1..m : r[i] = q[i]
  <2>1. \A i \in 1..m : i \in 1..(m - 1 + 1) /\ 1 + i - 1 = i OBVIOUS
  <2> QED BY <1>4, <2>1
<1>8. DOMAIN r = 1..m BY <1>4, <1>6, QueueElements
<1>9. DOMAIN t = 1..Len(t) BY <1>5, QueueElements
<1>10. Frames(r) \subseteq Frames(q) BY <1>3, <1>7, <1>8 DEF Frames
<1>11. Rising(q) => Rising(r) BY <1>3, <1>7, <1>8 DEF Rising
<1>12. ASSUME Rising(q), NEW x \in Frames(r), NEW y \in Frames(t) PROVE x < y
  <2>1. PICK i \in 1..m : q[i].tag = "frame" /\ x = q[i].pts
    BY <1>7, <1>8 DEF Frames
  <2>2. PICK j \in DOMAIN t : t[j].tag = "frame" /\ y = t[j].pts BY DEF Frames
  <2>3. j \in 1..(Len(q) - n) /\ t[j] = q[j + n] BY <1>5, <1>9, <2>2
  <2>4. j + n \in 1..Len(q) /\ i < j + n BY <1>1, <2>1, <2>3
  <2> QED BY <1>2, <1>3, <1>12, <2>1, <2>2, <2>3, <2>4 DEF Rising
<1>13. Rising(q) => Below(Frames(r), Frames(t)) BY <1>12 DEF Below
<1> QED BY <1>4, <1>6, <1>7, <1>10, <1>11, <1>13 DEF r, t

-----------------------------------------------------------------------------
(* The pump.                                                               *)

(* It moves at most what there is, and nothing once the end is signalled.  *)
LEMMA PumpedBound ==
    ASSUME outq \in Seq(Buffers), EndsLast(outq), SessionAssumption
    PROVE  /\ Pumped \in Nat /\ Pumped <= Len(outq)
           /\ encoder_eos_signaled => Pumped = 0
<1> DEFINE n == IF Len(outq) < MaxPump THEN Len(outq) ELSE MaxPump
           ends == {i \in 1..n : outq[i].eos}
<1>1. Len(outq) \in Nat /\ MaxPump \in Nat BY QueueElements DEF SessionAssumption
<1>2. n \in Nat /\ n <= Len(outq) BY <1>1
<1>3. Pumped = IF encoder_eos_signaled \/ broken THEN 0
               ELSE IF ends = {} THEN n
               ELSE CHOOSE i \in ends : \A j \in ends : i <= j
  BY DEF Pumped
<1> HIDE DEF n
<1>4. ASSUME ends # {}
      PROVE  (CHOOSE i \in ends : \A j \in ends : i <= j) \in ends
  <2>1. PICK k \in ends : TRUE BY <1>4
  <2>2. \A i \in ends : i = Len(outq)
    <3>1. \A i \in 1..n : i \in 1..Len(outq) BY <1>1, <1>2
    <3> QED BY <3>1, QueueElements DEF EndsLast
  <2>3. \A j \in ends : k <= j BY <1>1, <2>1, <2>2
  <2>4. \E i \in ends : \A j \in ends : i <= j BY <2>1, <2>3
  <2> HIDE DEF ends
  <2> QED BY <2>4
<1>5. \A i \in ends : i \in Nat /\ i <= n BY <1>2
<1> HIDE DEF ends
<1>6. CASE encoder_eos_signaled \/ broken BY <1>1, <1>3, <1>6
<1>7. CASE ~(encoder_eos_signaled \/ broken) /\ ends # {}
  <2>1. Pumped \in ends BY <1>3, <1>4, <1>7
  <2> QED BY <1>1, <1>2, <1>5, <1>7, <2>1
<1>8. CASE ~(encoder_eos_signaled \/ broken) /\ ends = {}
  <2>1. Pumped = n BY <1>3, <1>8
  <2> QED BY <1>2, <1>8, <2>1
<1> QED BY <1>6, <1>7, <1>8

(* What the pump does: frames move on in their order, the end of the stream*)
(* with the last of them.                                                  *)
PumpEffect ==
    /\ outq' \in Seq(Buffers) /\ surf' \in Seq(Buffers)
    /\ encoder_eos_signaled' \in BOOLEAN
    /\ Frames(outq') \subseteq Frames(outq)
    /\ Frames(surf') \subseteq Frames(surf) \cup Frames(outq)
    /\ Rising(surf) /\ Rising(outq) /\ Below(Frames(surf), Frames(outq)) =>
          /\ Rising(surf') /\ Rising(outq')
          /\ Below(Frames(surf'), Frames(outq'))
    /\ EndsLast(outq') /\ EndsLast(surf')
    /\ Ended(outq') => Ended(outq)
    /\ Ended(surf') => encoder_eos_signaled'
    /\ outq = <<>> => outq' = <<>>
    /\ encoder_eos_signaled => surf' = surf
    /\ encoder_eos_signaled' =>
          encoder_eos_signaled \/ (Ended(outq) /\ outq' = <<>>)
    /\ encoder_eos_signaled => encoder_eos_signaled'
    /\ InUse(outq') <= InUse(outq)

(* A part of the output is rendered, and what follows it stays; in between *)
(* a buffer may be lost.                                                   *)
LEMMA RenderPart ==
    ASSUME outq \in Seq(Buffers), surf \in Seq(Buffers), EndsLast(outq),
           NEW m \in Nat, NEW n \in Nat, m <= n, n <= Len(outq)
    PROVE  LET o == SubSeq(outq, n + 1, Len(outq))
               s == surf \o Rendered(SubSeq(outq, 1, m))
           IN /\ o \in Seq(Buffers) /\ s \in Seq(Buffers)
              /\ Len(o) = Len(outq) - n
              /\ Frames(o) \subseteq Frames(outq)
              /\ Frames(s) \subseteq Frames(surf) \cup Frames(outq)
              /\ Rising(surf) /\ Rising(outq)
                 /\ Below(Frames(surf), Frames(outq)) =>
                    Rising(s) /\ Rising(o) /\ Below(Frames(s), Frames(o))
              /\ EndsLast(o) /\ (Ended(o) => Ended(outq))
              /\ Ended(s) <=> Ended(surf)
              /\ InUse(o) <= InUse(outq)
<1> DEFINE p == SubSeq(outq, 1, m)
           v == Rendered(p)
           o == SubSeq(outq, n + 1, Len(outq))
           s == surf \o v
<1>1. /\ p \in Seq(Buffers) /\ Frames(p) \subseteq Frames(outq)
      /\ Rising(outq) => Rising(p) /\ Below(Frames(p), Frames(o))
  BY SplitQueue
<1>2. /\ o \in Seq(Buffers) /\ Len(o) = Len(outq) - n
      /\ Frames(o) \subseteq Frames(outq) /\ (Rising(outq) => Rising(o))
      /\ EndsLast(outq) => EndsLast(o)
      /\ Ended(o) => Ended(outq)
      /\ InUse(o) <= InUse(outq)
  BY RestOfQueue
<1> HIDE DEF p, o
<1>3. /\ v \in Seq(Buffers) /\ Frames(v) \subseteq Frames(p)
      /\ Rising(p) => Rising(v)
      /\ ~Ended(v)
  BY <1>1, RenderedQueue
<1> HIDE DEF v
<1>5. /\ s \in Seq(Buffers) /\ Frames(s) = Frames(surf) \cup Frames(v)
      /\ Rising(surf) /\ Rising(v) /\ Below(Frames(surf), Frames(v)) => Rising(s)
      /\ Ended(s) <=> Ended(surf) \/ Ended(v)
  BY <1>3, ConcatQueues
<1> HIDE DEF s
<1>6. ASSUME Rising(surf), Rising(outq), Below(Frames(surf), Frames(outq))
      PROVE  Rising(s) /\ Rising(o) /\ Below(Frames(s), Frames(o))
  <2>1. Below(Frames(surf), Frames(v)) BY <1>1, <1>3, <1>6 DEF Below
  <2>2. Below(Frames(s), Frames(o))
    BY <1>1, <1>2, <1>3, <1>5, <1>6 DEF Below
  <2> QED BY <1>1, <1>2, <1>3, <1>5, <1>6, <2>1, <2>2
<1>7. Frames(s) \subseteq Frames(surf) \cup Frames(outq) BY <1>1, <1>3, <1>5
<1>8. Ended(s) <=> Ended(surf) BY <1>3, <1>5
<1> QED BY <1>2, <1>5, <1>6, <1>7, <1>8 DEF o, s, v, p

(* Both outcomes of pump_transcoder have that effect.                      *)
LEMMA PumpDoes ==
    ASSUME WorkerTypes, EndIsLast, Transcoder, SessionAssumption,
           PumpOk \/ PumpFails
    PROVE  PumpEffect
<1>1. /\ outq \in Seq(Buffers) /\ surf \in Seq(Buffers)
      /\ encoder_eos_signaled \in BOOLEAN
  BY DEF WorkerTypes
<1>2. EndsLast(outq) /\ EndsLast(surf) /\ (Ended(surf) => encoder_eos_signaled)
  BY DEF EndIsLast
<1>3. /\ Pumped \in Nat /\ Pumped <= Len(outq)
      /\ encoder_eos_signaled => Pumped = 0
  BY <1>1, <1>2, PumpedBound
<1>4. Len(outq) \in Nat /\ (outq = <<>> <=> Len(outq) = 0) BY <1>1, QueueElements
<1>5. CASE PumpOk
  <2> DEFINE n == Pumped
             moved == SubSeq(outq, 1, n)
             ended == \E i \in DOMAIN moved : moved[i].eos
             s == surf \o Rendered(moved)
             e == IF ended THEN <<Eos>> ELSE <<>>
  <2>1. /\ outq' = SubSeq(outq, n + 1, Len(outq))
        /\ surf' = surf \o Rendered(moved) \o e
        /\ encoder_eos_signaled' = (encoder_eos_signaled \/ ended)
    BY <1>5 DEF PumpOk
  <2>2. /\ outq' \in Seq(Buffers) /\ s \in Seq(Buffers)
        /\ Len(outq') = Len(outq) - n
        /\ Frames(outq') \subseteq Frames(outq)
        /\ Frames(s) \subseteq Frames(surf) \cup Frames(outq)
        /\ Rising(surf) /\ Rising(outq) /\ Below(Frames(surf), Frames(outq)) =>
             Rising(s) /\ Rising(outq') /\ Below(Frames(s), Frames(outq'))
        /\ EndsLast(outq') /\ (Ended(outq') => Ended(outq))
        /\ Ended(s) <=> Ended(surf)
        /\ InUse(outq') <= InUse(outq)
    <3>1. n \in Nat /\ n <= n /\ n <= Len(outq) BY <1>3
    <3> QED BY <1>1, <1>2, <2>1, <3>1, RenderPart
  <2>3. /\ e \in Seq(Buffers) /\ Frames(e) = {} /\ Rising(e) /\ EndsLast(e)
        /\ Ended(e) <=> ended
    <3>1. CASE ~ended BY <3>1, EmptyQueue
    <3>2. CASE ended
      <4>1. e = <<Eos>> BY <3>2
      <4> HIDE DEF e, ended
      <4>2. e = Append(<<>>, Eos) BY <4>1
      <4>3. /\ e \in Seq(Buffers)
            /\ Frames(e) = Frames(<<>>) \cup IF Eos.tag = "frame" THEN {Eos.pts}
                                             ELSE {}
            /\ Rising(<<>>) /\ (Eos.tag = "frame" => Below(Frames(<<>>), {Eos.pts}))
                 => Rising(e)
            /\ ~Ended(<<>>) => EndsLast(e)
            /\ Ended(e) <=> Ended(<<>>) \/ Eos.eos
        BY <4>2, AppendToQueue, EmptyQueue, NoneAndEos
      <4> QED BY <3>2, <4>3, EmptyQueue, NoneAndEos
    <3> QED BY <3>1, <3>2
  <2>4. /\ moved \in Seq(Buffers) /\ Len(moved) = n
        /\ \A i \in 1..n : moved[i] = outq[i]
    BY <1>1, <1>3, SplitQueue
  <2>5. ended => Ended(outq) /\ n = Len(outq) /\ n # 0
    <3>1. SUFFICES ASSUME ended PROVE Ended(outq) /\ n = Len(outq) /\ n # 0
      OBVIOUS
    <3>2. PICK i \in 1..n : outq[i].eos BY <2>4, <3>1, QueueElements
    <3>3. i \in 1..Len(outq) /\ DOMAIN outq = 1..Len(outq)
      BY <1>1, <1>3, <1>4, <3>2, QueueElements
    <3>4. i = Len(outq) /\ Ended(outq) BY <1>2, <3>2, <3>3 DEF EndsLast, Ended
    <3> QED BY <1>3, <1>4, <3>2, <3>4
  <2>6. surf' = s \o e BY <2>1
  <2>7. ended \in BOOLEAN OBVIOUS
  <2>8. outq' = <<>> <=> Len(outq') = 0 BY <2>2, QueueElements
  <2>9. encoder_eos_signaled => surf' = surf
    <3>1. SUFFICES ASSUME encoder_eos_signaled PROVE surf' = surf OBVIOUS
    <3>2. n = 0 /\ ~ended BY <1>3, <2>5, <3>1
    <3>3. moved = <<>> BY <2>4, <3>2, QueueElements
    <3>4. Rendered(moved) = <<>>
      <4>1. Rendered(<<>>) \in Seq(Buffers) /\ Len(Rendered(<<>>)) = 0
        BY RenderedQueue, EmptyQueue DEF Rendered
      <4> QED BY <3>3, <4>1, QueueElements
    <3>5. e = <<>> BY <3>2
    <3> QED BY <1>1, <2>6, <3>4, <3>5, ConcatEmptySeq
  <2> HIDE DEF n, moved, ended, s, e
  <2>10. /\ surf' \in Seq(Buffers) /\ Frames(surf') = Frames(s)
         /\ Rising(s) => Rising(surf')
         /\ Ended(surf') <=> Ended(s) \/ Ended(e)
         /\ ~Ended(s) => EndsLast(surf')
    <3>1. Below(Frames(s), Frames(e)) BY <2>3 DEF Below
    <3>2. /\ s \o e \in Seq(Buffers)
          /\ Frames(s \o e) = Frames(s) \cup Frames(e)
          /\ Rising(s) /\ Rising(e) /\ Below(Frames(s), Frames(e))
               => Rising(s \o e)
          /\ Ended(s \o e) <=> Ended(s) \/ Ended(e)
          /\ ~Ended(s) /\ EndsLast(e) => EndsLast(s \o e)
      BY <2>2, <2>3, ConcatQueues
    <3> QED BY <2>3, <2>6, <3>1, <3>2
  <2>11. EndsLast(surf') BY <1>2, <2>2, <2>9, <2>10
  <2>12. outq = <<>> => outq' = <<>> BY <1>3, <1>4, <2>2, <2>8 DEF n
  <2>13. encoder_eos_signaled' =>
           encoder_eos_signaled \/ (Ended(outq) /\ outq' = <<>>)
    <3>1. ended => Len(outq') = 0 BY <1>4, <2>2, <2>5
    <3> QED BY <2>1, <2>5, <2>8, <3>1
  <2>14. encoder_eos_signaled' \in BOOLEAN BY <1>1, <2>1, <2>7
  <2>15. Ended(surf') => encoder_eos_signaled'
    BY <1>2, <2>1, <2>2, <2>3, <2>10
  <2> QED
    BY <2>1, <2>2, <2>9, <2>10, <2>11, <2>12, <2>13, <2>14, <2>15
    DEF PumpEffect
<1>6. CASE PumpFails
  <2>1. PICK i \in 1..Pumped :
          /\ outq' = SubSeq(outq, i + 1, Len(outq))
          /\ \/ surf' = surf \o Rendered(SubSeq(outq, 1, i - 1))
             \/ surf' = surf \o Rendered(SubSeq(outq, 1, i))
          /\ UNCHANGED encoder_eos_signaled
    BY <1>6 DEF PumpFails
  <2>2. i \in Nat /\ i - 1 \in Nat /\ i - 1 <= i /\ i <= i /\ i <= Len(outq)
        /\ Pumped # 0
    <3>1. i \in 1..Pumped BY <2>1
    <3> QED BY <1>3, <1>4, <3>1
  <2>3. PICK m \in Nat : m <= i /\ surf' = surf \o Rendered(SubSeq(outq, 1, m))
    BY <2>1, <2>2
  <2>4. /\ outq' \in Seq(Buffers) /\ surf' \in Seq(Buffers)
        /\ Len(outq') = Len(outq) - i
        /\ Frames(outq') \subseteq Frames(outq)
        /\ Frames(surf') \subseteq Frames(surf) \cup Frames(outq)
        /\ Rising(surf) /\ Rising(outq) /\ Below(Frames(surf), Frames(outq)) =>
             Rising(surf') /\ Rising(outq') /\ Below(Frames(surf'), Frames(outq'))
        /\ EndsLast(outq') /\ (Ended(outq') => Ended(outq))
        /\ Ended(surf') <=> Ended(surf)
        /\ InUse(outq') <= InUse(outq)
    BY <1>1, <1>2, <2>1, <2>2, <2>3, RenderPart
  <2>5. ~encoder_eos_signaled /\ ~Ended(surf) BY <1>2, <1>3, <2>2
  <2>6. EndsLast(surf') BY <2>4, <2>5 DEF EndsLast, Ended
  <2>7. outq # <<>> BY <1>4, <2>2, <2>1
  <2> QED BY <1>1, <2>1, <2>4, <2>5, <2>6, <2>7 DEF PumpEffect
<1> QED BY <1>5, <1>6

-----------------------------------------------------------------------------
(* The session: one lemma for a group of steps that change the same state. *)

(* Requests and answers that carry no record.                              *)
LEMMA NoRecords ==
    /\ NoRequest \in Requests /\ NoRequest.op = "none" /\ NoRequest.rec = None
    /\ NoReply \in Replies /\ NoReply.status = "none" /\ NoReply.rec = None
<1>1. None \in Buffers BY NoneAndEos
<1> QED BY <1>1 DEF NoRequest, NoReply, Requests, Replies, Operations, Statuses

(* An answer without a record.                                             *)
LEMMA ReplyParts ==
    ASSUME NEW st \in Statuses, Reply(st)
    PROVE  /\ reply' \in Replies /\ reply'.status = st /\ reply'.rec = None
           /\ ~reply'.rec.eos /\ reply'.rec.tag = "none" /\ wpc' = "idle"
<1>1. reply' = [NoReply EXCEPT !.status = st] /\ wpc' = "idle" BY DEF Reply
<1>2. None \in Buffers /\ 0 \in Nat BY NoneAndEos
<1>3. reply' = [status |-> st, rec |-> None, img |-> 0] BY <1>1 DEF NoReply
<1>4. reply' \in Replies /\ reply'.status = st /\ reply'.rec = None
  BY <1>2, <1>3 DEF Replies
<1> QED BY <1>1, <1>4, NoneAndEos

(* An answer with one.                                                     *)
LEMMA ReplyRecordParts ==
    ASSUME NEW b \in Buffers, NEW img \in Nat, ReplyRecord(b, img)
    PROVE  /\ reply' \in Replies /\ reply'.status = "ok" /\ reply'.rec = b
           /\ reply'.img = img /\ wpc' = "idle"
BY DEF ReplyRecord, Replies, Statuses

(* What client steps and the worker's steps need not repeat.               *)
WorkerQuiet ==
    UNCHANGED <<kind, req, mode, pc>>

(* A request that is being worked on is one the client waits for.          *)
LEMMA WorkingIsWaiting ==
    ASSUME Handshake, req.op # "none"
    PROVE  pc \notin {"start", "read", "any", "done"}
BY NoRecords DEF Handshake

(* The worker answers, and changes nothing else.                           *)
LEMMA AnswerKeeps ==
    ASSUME SessionInv, NEW st \in Statuses \ {"none"}, Reply(st),
           req.op # "none", WorkerQuiet,
           UNCHANGED <<sessionFlags, platform, stray>>
    PROVE  SessionInv'
<1> USE DEF SessionInv, WorkerQuiet, sessionFlags, platform, queues
<1>1. /\ reply' \in Replies /\ reply'.status = st /\ reply'.rec = None
      /\ ~reply'.rec.eos /\ reply'.rec.tag = "none" /\ wpc' = "idle"
  BY ReplyParts
<1>2. WorkerTypes' BY <1>1 DEF WorkerTypes, WorkerPcs
<1>3. Handshake'
  <2>1. pc \notin {"start", "read", "any", "done"} BY WorkingIsWaiting
  <2> QED BY <1>1, <2>1 DEF Handshake
<1>4. EndIsLast' BY <1>1 DEF EndIsLast, Transcoder
<1>5. OnePicture' BY <1>1 DEF OnePicture, Transcoder
<1>6. Bounded' BY DEF Bounded
<1> QED BY <1>2, <1>3, <1>4, <1>5, <1>6

(* The worker goes on, and changes nothing else.                           *)
LEMMA TurnKeeps ==
    ASSUME SessionInv, WorkerQuiet, reply = NoReply, UNCHANGED reply,
           UNCHANGED <<sessionFlags, platform, stray>>,
           \/ wpc' = wpc
           \/ wpc' = "create" /\ req.op = "create"
           \/ wpc' = "take" /\ req.op \in {"input", "eos"} /\ ~input_eos
           \/ wpc' = "image" /\ req.op = "output" /\ pending_image # None
           \/ wpc' = "dequeue" /\ req.op = "output" /\ pending_image = None
    PROVE  SessionInv'
<1> USE DEF SessionInv, WorkerQuiet, sessionFlags, platform, queues
<1>1. WorkerTypes' BY DEF WorkerTypes, WorkerPcs
<1>2. Handshake'
  <2>1. CASE wpc' = wpc BY <2>1 DEF Handshake
  <2>2. CASE wpc' # wpc
    <3>1. pc \notin {"start", "read", "any", "done"}
      BY <2>2, WorkingIsWaiting
    <3> QED BY <2>2, <3>1 DEF Handshake
  <2> QED BY <2>1, <2>2
<1>3. EndIsLast' BY DEF EndIsLast, Transcoder
<1>4. OnePicture' BY DEF OnePicture, Transcoder
<1>5. Bounded' BY DEF Bounded
<1> QED BY <1>1, <1>2, <1>3, <1>4, <1>5

(* A transcoder pumps, and answers or goes on.                             *)
LEMMA PumpKeeps ==
    ASSUME SessionInv, SessionAssumption, WorkerQuiet, Transcoder,
           PumpOk \/ PumpFails, reply = NoReply,
           \/ \E st \in {"ok", "error"} : Reply(st)
           \/ /\ UNCHANGED reply
              /\ \/ wpc' = "take" /\ ~input_eos /\ req.op \in {"input", "eos"}
                 \/ wpc' = "dequeue" /\ req.op = "output",
           req.op \in {"input", "eos", "output"},
           UNCHANGED <<input_eos, pending_image, last_encoder_pts, inq, back,
                       fmt, broken, stray>>
    PROVE  SessionInv'
<1> USE DEF SessionInv, WorkerQuiet
<1>1. PumpEffect BY PumpDoes
<1>2. /\ reply' \in Replies /\ wpc' \in {"idle", "take", "dequeue"}
      /\ reply'.status = "none" => reply' = NoReply
      /\ reply'.rec = None /\ ~reply'.rec.eos /\ reply'.rec.tag = "none"
      /\ wpc' # "idle" => reply' = NoReply
      /\ wpc' = "take" => ~input_eos /\ req.op \in {"input", "eos"}
      /\ wpc' = "dequeue" => req.op = "output"
  <2>1. CASE \E st \in {"ok", "error"} : Reply(st)
    <3>1. PICK st \in {"ok", "error"} : Reply(st) BY <2>1
    <3>2. st \in Statuses /\ st # "none" BY DEF Statuses
    <3> QED BY <3>1, <3>2, ReplyParts
  <2>2. CASE /\ UNCHANGED reply
             /\ \/ wpc' = "take" /\ ~input_eos /\ req.op \in {"input", "eos"}
                \/ wpc' = "dequeue" /\ req.op = "output"
    <3>1. reply' = NoReply BY <2>2
    <3> QED BY <2>2, <3>1, NoRecords, NoneAndEos
  <2> QED BY <2>1, <2>2
<1>3. WorkerTypes' BY <1>1, <1>2 DEF WorkerTypes, WorkerPcs, PumpEffect
<1>4. Handshake'
  <2>1. pc \notin {"start", "read", "any", "done"} BY WorkingIsWaiting
  <2> QED BY <1>2, <2>1 DEF Handshake
<1>5. pending_image = None BY DEF OnePicture, Transcoder
<1>6. EndIsLast'
  BY <1>1, <1>2, <1>5, NoneAndEos DEF EndIsLast, Transcoder, PumpEffect
<1>7. OnePicture' BY <1>2, <1>5 DEF OnePicture, Transcoder
<1>8. Bounded'
  <2>1. InUse(outq') <= OutSlots
    <3>1. outq \in Seq(Buffers) /\ outq' \in Seq(Buffers)
      BY <1>1 DEF WorkerTypes, PumpEffect
    <3>2. Len(outq) \in Nat /\ Len(outq') \in Nat BY <3>1, QueueElements
    <3>3. InUse(outq) \in Int /\ InUse(outq') \in Int /\ OutSlots \in Nat
      BY <3>2 DEF InUse, SessionAssumption
    <3> QED BY <1>1, <3>3 DEF Bounded, PumpEffect
  <2> QED BY <2>1 DEF Bounded
<1> QED BY <1>3, <1>4, <1>6, <1>7, <1>8

(* A buffer is queued: the request's record, or an empty one.              *)
LEMMA QueueKeeps ==
    ASSUME SessionInv, SessionAssumption, WorkerQuiet,
           QueueFails \/ QueueTakes
    PROVE  SessionInv'
<1> USE DEF SessionInv, WorkerQuiet
<1>1. wpc = "take" /\ Len(inq) < InSlots /\ ~broken
  BY DEF QueueFails, QueueTakes
<1>2. /\ reply = NoReply /\ req.op \in {"input", "eos"} /\ ~input_eos
      /\ pc \notin {"start", "read", "any", "done"}
  BY <1>1, NoRecords DEF Handshake
<1>3. /\ inq \in Seq(Buffers) /\ req.rec \in Buffers /\ ~Ended(inq)
  BY <1>2 DEF WorkerTypes, Requests, EndIsLast
<1>4. \/ /\ \E st \in {"ok", "error"} : Reply(st)
      \/ UNCHANGED reply /\ wpc' = "pump" /\ Transcoder
  BY DEF QueueFails, QueueTakes
<1>5. /\ reply' \in Replies /\ wpc' \in {"idle", "pump"}
      /\ reply'.status = "none" => reply' = NoReply
      /\ reply'.rec = None /\ ~reply'.rec.eos /\ reply'.rec.tag = "none"
      /\ wpc' # "idle" => reply' = NoReply /\ wpc' = "pump" /\ Transcoder
  <2>1. CASE \E st \in {"ok", "error"} : Reply(st)
    <3>1. PICK st \in {"ok", "error"} : Reply(st) BY <2>1
    <3>2. st \in Statuses /\ st # "none" BY DEF Statuses
    <3> QED BY <3>1, <3>2, ReplyParts
  <2>2. CASE UNCHANGED reply /\ wpc' = "pump" /\ Transcoder
    <3>1. reply' = NoReply BY <1>2, <2>2
    <3> QED BY <2>2, <3>1, NoRecords, NoneAndEos
  <2> QED BY <1>4, <2>1, <2>2
<1>6. UNCHANGED <<encoder_eos_signaled, pending_image, outq, surf, back, fmt,
                  broken, stray>>
  BY DEF QueueFails, QueueTakes, sessionFlags
<1>7. \/ UNCHANGED <<inq, input_eos, last_encoder_pts>>
      \/ \E b \in Buffers :
            /\ inq' = Append(inq, b)
            /\ input_eos' \in BOOLEAN /\ last_encoder_pts' \in Nat
            /\ b.eos => input_eos'
            /\ b.tag = "eos" => b.eos
  <2>1. CASE QueueFails
    <3>1. CASE UNCHANGED inq BY <2>1, <3>1 DEF QueueFails, sessionFlags
    <3>2. CASE inq' = Append(inq, Buffer("empty", 0, FALSE))
      <4>1. /\ Buffer("empty", 0, FALSE) \in Buffers
            /\ ~Buffer("empty", 0, FALSE).eos
            /\ Buffer("empty", 0, FALSE).tag = "empty"
        BY BufferParts DEF Tags
      <4>2. UNCHANGED <<input_eos, last_encoder_pts>>
        BY <2>1 DEF QueueFails, sessionFlags
      <4> QED BY <3>2, <4>1, <4>2 DEF WorkerTypes
    <3> QED BY <2>1, <3>1, <3>2 DEF QueueFails
  <2>2. CASE QueueTakes
    <3>1. /\ inq' = Append(inq, req.rec)
          /\ input_eos' = (input_eos \/ req.op = "eos")
          /\ last_encoder_pts' \in {req.rec.pts, last_encoder_pts}
      BY <2>2 DEF QueueTakes
    <3>2. req.rec.pts \in Nat BY <1>3 DEF Buffers
    <3>3. (req.rec.eos => req.op = "eos") /\ (req.rec.tag = "eos" => req.rec.eos)
      BY <1>2, NoneAndEos DEF Handshake
    <3>4. input_eos' \in BOOLEAN /\ last_encoder_pts' \in Nat
      BY <3>1, <3>2 DEF WorkerTypes
    <3> QED BY <1>3, <3>1, <3>3, <3>4
  <2> QED BY <2>1, <2>2
<1>8. CASE UNCHANGED <<inq, input_eos, last_encoder_pts>>
  <2>1. WorkerTypes' BY <1>5, <1>6, <1>8 DEF WorkerTypes, WorkerPcs
  <2>2. Handshake' BY <1>2, <1>5, <1>8 DEF Handshake
  <2>3. EndIsLast' BY <1>5, <1>6, <1>8 DEF EndIsLast, Transcoder
  <2>4. OnePicture' BY <1>5, <1>6 DEF OnePicture, Transcoder
  <2>5. Bounded' BY <1>6, <1>8 DEF Bounded
  <2> QED BY <2>1, <2>2, <2>3, <2>4, <2>5
<1>9. ASSUME NEW b \in Buffers,
             inq' = Append(inq, b), b.eos => input_eos', b.tag = "eos" => b.eos,
             input_eos' \in BOOLEAN, last_encoder_pts' \in Nat
      PROVE  SessionInv'
  <2>1. /\ inq' \in Seq(Buffers) /\ Len(inq') = Len(inq) + 1
        /\ EndsLast(inq') /\ (Ended(inq') <=> b.eos)
    BY <1>3, <1>9, AppendToQueue
  <2>2. \A i \in DOMAIN inq' : inq'[i].tag = "eos" => inq'[i].eos
    <3>1. /\ \A i \in 1..Len(inq) : inq'[i] = inq[i]
          /\ inq'[Len(inq) + 1] = b
      BY <1>3, <1>9, AppendProperties
    <3>2. Len(inq) \in Nat BY <1>3, QueueElements
    <3>3. DOMAIN inq' = 1..(Len(inq) + 1) /\ DOMAIN inq = 1..Len(inq)
      BY <1>3, <2>1, QueueElements
    <3> QED BY <1>9, <3>1, <3>2, <3>3 DEF EndIsLast
  <2>3. WorkerTypes' BY <1>5, <1>6, <1>9, <2>1 DEF WorkerTypes, WorkerPcs
  <2>4. Handshake' BY <1>2, <1>5 DEF Handshake
  <2>5. ~Ended(outq) /\ ~pending_image.eos /\ ~encoder_eos_signaled
    BY <1>2 DEF EndIsLast
  <2>6. EndIsLast'
    BY <1>5, <1>6, <1>9, <2>1, <2>2, <2>5 DEF EndIsLast, Transcoder
  <2>7. OnePicture' BY <1>5, <1>6 DEF OnePicture, Transcoder
  <2>8. Bounded'
    <3>1. Len(inq) \in Nat /\ InSlots \in Nat
      BY <1>3, QueueElements DEF SessionAssumption
    <3>2. Len(inq') <= InSlots BY <1>1, <2>1, <3>1
    <3> QED BY <1>6, <3>2 DEF Bounded
  <2> QED BY <2>3, <2>4, <2>6, <2>7, <2>8
<1> QED BY <1>7, <1>8, <1>9

(* A use of a queue only shrinks, so that its bound holds.                 *)
LEMMA ShrinksWithin ==
    ASSUME NEW q \in Seq(Buffers), NEW r \in Seq(Buffers), NEW max \in Nat,
           InUse(r) <= InUse(q), InUse(q) <= max
    PROVE  InUse(r) <= max
<1>1. Len(q) \in Nat /\ Len(r) \in Nat BY QueueElements
<1>2. InUse(q) \in Int /\ InUse(r) \in Int BY <1>1 DEF InUse
<1> QED BY <1>2

(* OUTPUT takes the next buffer; the answer is the record, or an error.    *)
LEMMA RecordKeeps ==
    ASSUME SessionInv, SessionAssumption, WorkerQuiet, OutputRecord
    PROVE  SessionInv'
<1> USE DEF SessionInv, WorkerQuiet
<1> DEFINE h == Head(Output)
<1>1. /\ wpc = "dequeue" /\ Output # <<>> /\ TakeOutput
      /\ kind = "decoder" => h.tag # "frame"
      /\ UNCHANGED <<input_eos, encoder_eos_signaled, pending_image,
                     last_encoder_pts, inq, surf, fmt, broken, stray>>
      /\ \/ ReplyRecord(h, h.pts)
         \/ \E st \in {"format", "error"} : Reply(st)
  BY DEF OutputRecord, sessionFlags
<1>2. /\ req.op = "output" /\ pending_image = None
      /\ pc \notin {"start", "read", "any", "done"}
  BY <1>1, NoRecords DEF Handshake, OnePicture
<1>3. Output \in Seq(Buffers) BY DEF Output, WorkerTypes
<1>4. /\ h \in Buffers /\ Tail(Output) \in Seq(Buffers)
      /\ EndsLast(Output) => EndsLast(Tail(Output))
      /\ EndsLast(Output) /\ h.eos => Tail(Output) = <<>>
      /\ Ended(Tail(Output)) => Ended(Output)
      /\ h.eos => Ended(Output)
      /\ InUse(Tail(Output)) <= InUse(Output)
  BY <1>1, <1>3, HeadOfQueue
<1>5. /\ reply' \in Replies /\ wpc' = "idle" /\ reply'.status # "none"
      /\ reply'.rec.eos => h.eos
      /\ reply'.rec.tag = "frame" =>
            h.tag = "frame" /\ reply'.img = reply'.rec.pts
  <2>1. CASE ReplyRecord(h, h.pts)
    <3>1. h.pts \in Nat BY <1>4 DEF Buffers
    <3>2. /\ reply' \in Replies /\ reply'.status = "ok" /\ reply'.rec = h
          /\ reply'.img = h.pts /\ wpc' = "idle"
      BY <1>4, <2>1, <3>1, ReplyRecordParts
    <3> QED BY <3>2
  <2>2. CASE \E st \in {"format", "error"} : Reply(st)
    <3>1. PICK st \in {"format", "error"} : Reply(st) BY <2>2
    <3>2. st \in Statuses /\ st # "none" BY DEF Statuses
    <3> QED BY <3>1, <3>2, ReplyParts
  <2> QED BY <1>1, <2>1, <2>2
<1> HIDE DEF h
<1>6. Handshake' BY <1>1, <1>2, <1>5 DEF Handshake
<1>7. CASE Transcoder
  <2>1. Output = back /\ back' = Tail(Output) /\ outq' = outq
    BY <1>1, <1>7 DEF Output, TakeOutput
  <2>2. WorkerTypes' BY <1>1, <1>4, <1>5, <2>1 DEF WorkerTypes, WorkerPcs
  <2>3. EndIsLast'
    BY <1>1, <1>2, <1>4, <1>5, <1>7, <2>1, NoneAndEos DEF EndIsLast, Transcoder
  <2>4. OnePicture'
    BY <1>1, <1>2, <1>5, <1>7 DEF OnePicture, Transcoder
  <2>5. Bounded'
    <3>1. OutSlots \in Nat /\ back \in Seq(Buffers) /\ InUse(back) <= OutSlots
      BY <1>7 DEF SessionAssumption, WorkerTypes, Bounded, Transcoder
    <3>2. InUse(back') <= OutSlots BY <1>4, <2>1, <3>1, ShrinksWithin
    <3> QED BY <1>1, <1>7, <2>1, <3>2 DEF Bounded, Transcoder
  <2> QED BY <1>6, <2>2, <2>3, <2>4, <2>5
<1>8. CASE ~Transcoder
  <2>1. Output = outq /\ outq' = Tail(Output) /\ back' = back
    BY <1>1, <1>8 DEF Output, TakeOutput
  <2>2. WorkerTypes' BY <1>1, <1>4, <1>5, <2>1 DEF WorkerTypes, WorkerPcs
  <2>3. ~stray => surf = <<>> /\ back = <<>>
    BY <1>2, <1>8 DEF OnePicture, Transcoder, WorkerTypes, SessionKinds
  <2>4. EndIsLast'
    BY <1>1, <1>2, <1>4, <1>5, <1>8, <2>1, <2>3, NoneAndEos
    DEF EndIsLast, Transcoder
  <2>5. OnePicture'
    BY <1>1, <1>2, <1>5, <1>8, <2>1, <2>3 DEF OnePicture, Transcoder
  <2>6. Bounded'
    <3>1. OutSlots \in Nat /\ outq \in Seq(Buffers) /\ InUse(outq) <= OutSlots
      BY DEF SessionAssumption, WorkerTypes, Bounded
    <3>2. InUse(outq') <= OutSlots BY <1>4, <2>1, <3>1, ShrinksWithin
    <3> QED BY <1>1, <2>1, <3>2 DEF Bounded
  <2> QED BY <1>6, <2>2, <2>4, <2>5, <2>6
<1> QED BY <1>7, <1>8

(* OUTPUT renders a decoded frame and awaits its picture.                  *)
LEMMA FrameKeeps ==
    ASSUME SessionInv, SessionAssumption, WorkerQuiet, OutputFrame
    PROVE  SessionInv'
<1> USE DEF SessionInv, WorkerQuiet
<1> DEFINE h == Head(outq)
<1>1. /\ wpc = "dequeue" /\ outq # <<>> /\ kind = "decoder" /\ h.tag = "frame"
      /\ outq' = Tail(outq) /\ back' = back
      /\ UNCHANGED <<input_eos, encoder_eos_signaled, last_encoder_pts, inq,
                     fmt, broken, stray>>
      /\ \/ /\ pending_image' = h /\ surf' = Append(surf, h)
            /\ wpc' = "image" /\ reply' = reply
         \/ Reply("error") /\ pending_image' = pending_image /\ surf' = surf
  BY DEF OutputFrame, TakeOutput, Output, Transcoder
<1>2. /\ req.op = "output" /\ pending_image = None /\ reply = NoReply
      /\ pc \notin {"start", "read", "any", "done"}
  BY <1>1, NoRecords DEF Handshake, OnePicture
<1>3. outq \in Seq(Buffers) /\ surf \in Seq(Buffers) BY DEF WorkerTypes
<1>4. /\ h \in Buffers /\ Tail(outq) \in Seq(Buffers)
      /\ EndsLast(outq) => EndsLast(Tail(outq))
      /\ EndsLast(outq) /\ h.eos => Tail(outq) = <<>>
      /\ Ended(Tail(outq)) => Ended(outq)
      /\ h.eos => Ended(outq)
      /\ InUse(Tail(outq)) <= InUse(outq)
  BY <1>1, <1>3, HeadOfQueue
<1> HIDE DEF h
<1>5. h # None BY <1>1, NoneAndEos
<1>6. Bounded'
  <2>1. OutSlots \in Nat /\ InUse(outq) <= OutSlots
    BY DEF SessionAssumption, Bounded
  <2>2. InUse(outq') <= OutSlots BY <1>1, <1>3, <1>4, <2>1, ShrinksWithin
  <2> QED BY <1>1, <2>2 DEF Bounded
<1>7. CASE /\ pending_image' = h /\ surf' = Append(surf, h)
           /\ wpc' = "image" /\ reply' = reply
  <2>1. surf' \in Seq(Buffers) BY <1>3, <1>4, <1>7, AppendToQueue
  <2>2. WorkerTypes' BY <1>1, <1>4, <1>7, <2>1 DEF WorkerTypes, WorkerPcs
  <2>3. Handshake' BY <1>2, <1>7 DEF Handshake
  <2>4. EndIsLast'
    BY <1>1, <1>2, <1>4, <1>7, NoRecords DEF EndIsLast, Transcoder
  <2>5. ~stray => surf' = <<h>> /\ back = <<>>
    BY <1>1, <1>2, <1>7 DEF OnePicture
  <2>6. OnePicture'
    BY <1>1, <1>2, <1>5, <1>7, <2>5, NoRecords DEF OnePicture, Transcoder
  <2> QED BY <1>6, <2>2, <2>3, <2>4, <2>6
<1>8. CASE Reply("error") /\ pending_image' = pending_image /\ surf' = surf
  <2>1. /\ reply' \in Replies /\ reply'.status = "error" /\ wpc' = "idle"
    BY <1>8, ReplyParts DEF Statuses
  <2>2. WorkerTypes' BY <1>1, <1>4, <1>8, <2>1 DEF WorkerTypes, WorkerPcs
  <2>3. Handshake' BY <1>2, <2>1 DEF Handshake
  <2>4. EndIsLast'
    BY <1>1, <1>2, <1>4, <1>8, <2>1, NoneAndEos DEF EndIsLast, Transcoder
  <2>5. OnePicture' BY <1>1, <1>2, <1>8, <2>1 DEF OnePicture, Transcoder
  <2> QED BY <1>6, <2>2, <2>3, <2>4, <2>5
<1> QED BY <1>1, <1>7, <1>8

(* The awaited picture is delivered, or lost in its conversion.            *)
LEMMA ImageKeeps ==
    ASSUME SessionInv, SessionAssumption, WorkerQuiet, OutputImage
    PROVE  SessionInv'
<1> USE DEF SessionInv, WorkerQuiet
<1>1. /\ wpc = "image" /\ back # <<>> /\ back' = Tail(back)
      /\ UNCHANGED <<input_eos, encoder_eos_signaled, last_encoder_pts, inq,
                     outq, surf, fmt, broken, stray>>
      /\ \/ ReplyRecord(pending_image, Head(back).pts) /\ pending_image' = None
         \/ Reply("error") /\ pending_image' = pending_image
  BY DEF OutputImage
<1>2. /\ req.op = "output" /\ pending_image # None /\ kind = "decoder"
      /\ pc \notin {"start", "read", "any", "done"}
  BY <1>1, NoRecords DEF Handshake, OnePicture
<1>3. back \in Seq(Buffers) /\ pending_image \in Buffers BY DEF WorkerTypes
<1>4. /\ Head(back) \in Buffers /\ Tail(back) \in Seq(Buffers)
      /\ InUse(Tail(back)) <= InUse(back)
  BY <1>1, <1>3, HeadOfQueue
<1>5. ~stray => /\ surf = <<>> /\ back' = <<>>
                /\ Head(back).pts = pending_image.pts
  <2>1. ~stray => surf = <<>> /\ back = <<pending_image>>
    BY <1>1, <1>2 DEF OnePicture
  <2>2. Head(<<pending_image>>) = pending_image /\ Tail(<<pending_image>>) = <<>>
    OBVIOUS
  <2> QED BY <1>1, <2>1, <2>2
<1>6. /\ reply' \in Replies /\ wpc' = "idle" /\ reply'.status # "none"
      /\ \/ /\ reply'.status = "ok" /\ reply'.rec = pending_image
            /\ reply'.img = Head(back).pts /\ pending_image' = None
         \/ reply'.status = "error" /\ pending_image' = pending_image
  <2>1. Head(back).pts \in Nat BY <1>4 DEF Buffers
  <2>2. "error" \in Statuses BY DEF Statuses
  <2> QED BY <1>1, <1>3, <2>1, <2>2, ReplyParts, ReplyRecordParts
<1>7. WorkerTypes'
  BY <1>1, <1>4, <1>6, NoneAndEos DEF WorkerTypes, WorkerPcs
<1>8. Handshake' BY <1>1, <1>2, <1>6 DEF Handshake
<1>9. EndIsLast'
  BY <1>1, <1>2, <1>5, <1>6, NoneAndEos DEF EndIsLast, Transcoder
<1>10. OnePicture'
  BY <1>1, <1>2, <1>5, <1>6 DEF OnePicture, Transcoder
<1>11. Bounded'
  <2>1. MaxImages \in Nat /\ InUse(back) <= MaxImages
    BY <1>2 DEF SessionAssumption, Bounded
  <2>2. InUse(back') <= MaxImages BY <1>1, <1>3, <1>4, <2>1, ShrinksWithin
  <2> QED BY <1>1, <1>2, <2>2 DEF Bounded
<1> QED BY <1>7, <1>8, <1>9, <1>10, <1>11

(* FLUSH empties the codec; what is on its way to the reader is stray.     *)
LEMMA FlushKeeps ==
    ASSUME SessionInv, SessionAssumption, WorkerQuiet, Flush \/ FlushFails
    PROVE  SessionInv'
<1> USE DEF SessionInv, WorkerQuiet
<1>1. /\ wpc = "idle" /\ req.op = "flush" /\ reply = NoReply
      /\ pc \notin {"start", "read", "any", "done"}
  BY WorkingIsWaiting DEF Flush, FlushFails, Dispatch, Serving
<1>2. /\ reply' \in Replies /\ reply'.status \in {"ok", "error"}
      /\ ~reply'.rec.eos /\ reply'.rec.tag = "none" /\ wpc' = "idle"
  <2>1. PICK st \in {"ok", "error"} : Reply(st) BY DEF Flush, FlushFails
  <2>2. st \in Statuses BY DEF Statuses
  <2> QED BY <2>1, <2>2, ReplyParts
<1>3. OutSlots \in Nat /\ MaxImages \in Nat /\ InSlots \in Nat
  BY DEF SessionAssumption
<1>4. CASE Flush
  <2>1. /\ inq' = <<>> /\ outq' = <<>> /\ back' = <<>>
        /\ input_eos' = FALSE /\ encoder_eos_signaled' = FALSE
        /\ pending_image' = None /\ last_encoder_pts' = 0
        /\ UNCHANGED <<fmt, broken>>
        /\ IF kind = "decoder"
           THEN stray' = (stray \/ surf # <<>>) /\ UNCHANGED surf
           ELSE surf' = <<>> /\ UNCHANGED stray
    BY <1>4 DEF Flush
  <2>2. stray' \in BOOLEAN BY <2>1 DEF WorkerTypes
  <2>3. WorkerTypes'
    BY <1>2, <2>1, <2>2, EmptyQueue, NoneAndEos DEF WorkerTypes, WorkerPcs
  <2>4. Handshake' BY <1>1, <1>2, <2>1 DEF Handshake
  <2>5. EndIsLast'
    <3>1. \A i \in DOMAIN <<>> : FALSE OBVIOUS
    <3> QED BY <1>2, <2>1, <3>1, EmptyQueue, NoneAndEos DEF EndIsLast, Transcoder
  <2>6. OnePicture'
    <3>1. kind = "decoder" /\ ~stray' => surf' = <<>> /\ back' = <<>>
      BY <2>1 DEF WorkerTypes
    <3> QED BY <1>2, <2>1, <3>1 DEF OnePicture, Transcoder
  <2>7. Bounded' BY <1>3, <2>1, EmptyQueue DEF Bounded
  <2> QED BY <2>3, <2>4, <2>5, <2>6, <2>7
<1>5. CASE FlushFails
  <2>1. /\ UNCHANGED <<input_eos, encoder_eos_signaled, pending_image,
                       last_encoder_pts, surf, back, fmt, broken, stray>>
        /\ \/ UNCHANGED <<inq, outq>>
           \/ inq' = <<>> /\ outq' = <<>>
    BY <1>5 DEF FlushFails, sessionFlags
  <2>2. WorkerTypes' BY <1>2, <2>1, EmptyQueue DEF WorkerTypes, WorkerPcs
  <2>3. Handshake' BY <1>1, <1>2, <2>1 DEF Handshake
  <2>4. EndIsLast'
    <3>1. \A i \in DOMAIN <<>> : FALSE OBVIOUS
    <3> QED BY <1>2, <2>1, <3>1, EmptyQueue DEF EndIsLast, Transcoder
  <2>5. OnePicture' BY <1>2, <2>1 DEF OnePicture, Transcoder
  <2>6. Bounded' BY <1>3, <2>1, EmptyQueue DEF Bounded
  <2> QED BY <2>2, <2>3, <2>4, <2>5, <2>6
<1> QED BY <1>4, <1>5

(* The session is closed by a request, or because the worker ends.         *)
LEMMA ClearKeeps ==
    ASSUME SessionInv, SessionAssumption, WorkerQuiet, ClearSession,
           \/ Reply("ok") /\ req.op # "none"
           \/ UNCHANGED <<reply, wpc>> /\ wpc = "idle" /\ reply = NoReply
    PROVE  SessionInv'
<1> USE DEF SessionInv, WorkerQuiet
<1>1. /\ reply' \in Replies /\ wpc' = "idle"
      /\ ~reply'.rec.eos /\ reply'.rec.tag = "none"
      /\ \/ reply'.status = "ok" /\ pc \notin {"start", "read", "any", "done"}
         \/ reply' = reply
  <2>1. CASE Reply("ok") /\ req.op # "none"
    BY <2>1, ReplyParts, WorkingIsWaiting DEF Statuses
  <2>2. CASE UNCHANGED <<reply, wpc>> /\ wpc = "idle" /\ reply = NoReply
    BY <2>2, NoRecords, NoneAndEos
  <2> QED BY <2>1, <2>2
<1>2. OutSlots \in Nat /\ MaxImages \in Nat /\ InSlots \in Nat
  BY DEF SessionAssumption
<1>3. WorkerTypes'
  BY <1>1, EmptyQueue, NoneAndEos DEF WorkerTypes, WorkerPcs, ClearSession
<1>4. Handshake' BY <1>1 DEF Handshake, ClearSession
<1>5. EndIsLast'
  <2>1. \A i \in DOMAIN <<>> : FALSE OBVIOUS
  <2> QED BY <1>1, <2>1, EmptyQueue, NoneAndEos
          DEF EndIsLast, Transcoder, ClearSession
<1>6. OnePicture' BY <1>1 DEF OnePicture, Transcoder, ClearSession
<1>7. Bounded' BY <1>2, EmptyQueue DEF Bounded, ClearSession
<1> QED BY <1>3, <1>4, <1>5, <1>6, <1>7

(* Every step of the worker.                                               *)
LEMMA WorkerKeeps ==
    ASSUME SessionInv, SessionAssumption, WorkerStep, UNCHANGED clientVars
    PROVE  SessionInv'
<1>0. UNCHANGED <<mode, pc>> BY DEF clientVars
<1>1. CASE DispatchCreate
  <2>1. UNCHANGED <<kind, req, reply, sessionFlags, platform, stray>>
    BY <1>1 DEF DispatchCreate, RejectCreate, BeginCreate
  <2>2. wpc' = "create" /\ req.op = "create" /\ reply = NoReply
    BY <1>1 DEF DispatchCreate, Serving
  <2> QED BY <1>0, <2>1, <2>2, TurnKeeps DEF WorkerQuiet
<1>2. CASE RunCreate
  <2>1. UNCHANGED sessionVars /\ wpc = "create" /\ CreateStep
    BY <1>2 DEF RunCreate
  <2>2. UNCHANGED kind
    BY <2>1 DEF CreateStep, NewReader, GetWindow, OpenCodec, VideoFormat,
       ConfigureStart, NewEncoder, EncoderFormat, EncoderConfigure,
       EncoderSurface, EncoderStart, DropEncoder, GiveUp, DescribeSession
  <2>3. reply = NoReply BY <2>1 DEF SessionInv, Handshake
  <2> QED BY <1>0, <2>1, <2>2, <2>3, TurnKeeps DEF WorkerQuiet, sessionVars
<1>3. CASE CreateReplies \/ UnknownSession \/ KeyframeOrStats
  <2>1. UNCHANGED <<kind, req, sessionFlags, platform, stray>>
    BY <1>3 DEF CreateReplies, UnknownSession, KeyframeOrStats, createVars
  <2>2. \E st \in {"ok", "error"} : Reply(st)
    BY <1>3 DEF CreateReplies, UnknownSession, KeyframeOrStats
  <2>3. req.op # "none"
    BY <1>3 DEF CreateReplies, UnknownSession, KeyframeOrStats, Dispatch,
                Serving, SessionInv, Handshake
  <2> QED BY <1>0, <2>1, <2>2, <2>3, AnswerKeeps DEF WorkerQuiet, Statuses
<1>4. CASE QueueAgain \/ OutputAgain \/ ImageMissing
  <2>1. UNCHANGED <<kind, req, sessionFlags, platform, stray>>
    BY <1>4 DEF QueueAgain, OutputAgain, ImageMissing, createVars
  <2>2. \E st \in {"again", "error"} : Reply(st)
    BY <1>4 DEF QueueAgain, OutputAgain, ImageMissing
  <2>3. req.op # "none"
    BY <1>4 DEF QueueAgain, OutputAgain, ImageMissing, SessionInv, Handshake
  <2> QED BY <1>0, <2>1, <2>2, <2>3, AnswerKeeps DEF WorkerQuiet, Statuses
<1>5. CASE QueueStarts
  <2>1. /\ UNCHANGED <<kind, req, input_eos, pending_image, last_encoder_pts,
                       inq, back, fmt, broken, stray>>
        /\ req.op \in {"input", "eos"} /\ reply = NoReply
    BY <1>5 DEF QueueStarts, Dispatch, Serving, createVars
  <2>2. CASE Reply("error") /\ NoPump
    BY <1>0, <2>1, <2>2, AnswerKeeps
    DEF NoPump, WorkerQuiet, Statuses, sessionFlags, platform, queues
  <2>3. CASE ~Refused /\ wpc' = "take" /\ UNCHANGED reply /\ NoPump
    <3>1. ~input_eos BY <2>3 DEF Refused
    <3> QED
      BY <1>0, <2>1, <2>3, <3>1, TurnKeeps
      DEF NoPump, WorkerQuiet, sessionFlags, platform, queues
  <2>4. CASE ~Refused /\ Transcoder /\ wpc' = "take" /\ UNCHANGED reply /\ PumpOk
    <3>1. ~input_eos BY <2>4 DEF Refused
    <3> QED BY <1>0, <2>1, <2>4, <3>1, PumpKeeps DEF WorkerQuiet
  <2>5. CASE Transcoder /\ Reply("error") /\ PumpFails
    BY <1>0, <2>1, <2>5, PumpKeeps DEF WorkerQuiet
  <2> QED BY <1>5, <2>2, <2>3, <2>4, <2>5 DEF QueueStarts
<1>6. CASE QueueFails \/ QueueTakes
  <2>1. UNCHANGED <<kind, req>>
    BY <1>6 DEF QueueFails, QueueTakes, createVars
  <2> QED BY <1>0, <1>6, <2>1, QueueKeeps DEF WorkerQuiet
<1>7. CASE QueueEnds
  <2>1. /\ UNCHANGED <<kind, req, input_eos, pending_image, last_encoder_pts,
                       inq, back, fmt, broken, stray>>
        /\ wpc = "pump"
        /\ PumpOk \/ PumpFails
        /\ \E st \in {"ok", "error"} : Reply(st)
    BY <1>7 DEF QueueEnds, createVars
  <2>2. Transcoder /\ req.op \in {"input", "eos"} /\ reply = NoReply
    BY <2>1 DEF SessionInv, Handshake, OnePicture
  <2> QED BY <1>0, <2>1, <2>2, PumpKeeps DEF WorkerQuiet
<1>8. CASE OutputStarts
  <2>1. /\ UNCHANGED <<kind, req, input_eos, pending_image, last_encoder_pts,
                       inq, back, fmt, broken, stray>>
        /\ req.op = "output" /\ reply = NoReply
    BY <1>8 DEF OutputStarts, Dispatch, Serving, createVars
  <2>2. CASE /\ UNCHANGED reply /\ NoPump
             /\ \/ pending_image # None /\ wpc' = "image"
                \/ pending_image = None /\ wpc' = "dequeue"
    BY <1>0, <2>1, <2>2, TurnKeeps
    DEF NoPump, WorkerQuiet, sessionFlags, platform, queues
  <2>3. CASE Transcoder /\ wpc' = "dequeue" /\ UNCHANGED reply /\ PumpOk
    BY <1>0, <2>1, <2>3, PumpKeeps DEF WorkerQuiet
  <2>4. CASE Transcoder /\ Reply("error") /\ PumpFails
    BY <1>0, <2>1, <2>4, PumpKeeps DEF WorkerQuiet
  <2> QED BY <1>8, <2>2, <2>3, <2>4 DEF OutputStarts
<1>9. CASE OutputRecord \/ OutputFrame \/ OutputImage
  <2>1. UNCHANGED <<kind, req>>
    BY <1>9 DEF OutputRecord, OutputFrame, OutputImage, createVars
  <2> QED
    BY <1>0, <1>9, <2>1, RecordKeeps, FrameKeeps, ImageKeeps DEF WorkerQuiet
<1>10. CASE Flush \/ FlushFails
  <2>1. UNCHANGED <<kind, req>> BY <1>10 DEF Flush, FlushFails, createVars
  <2> QED BY <1>0, <1>10, <2>1, FlushKeeps DEF WorkerQuiet
<1>11. CASE Close
  <2>1. /\ UNCHANGED <<kind, req>> /\ ClearSession /\ Reply("ok")
        /\ req.op # "none"
    BY <1>11 DEF Close, DestroySession, Dispatch, Serving
  <2> QED BY <1>0, <2>1, ClearKeeps DEF WorkerQuiet
<1> QED
  BY <1>1, <1>2, <1>3, <1>4, <1>5, <1>6, <1>7, <1>8, <1>9, <1>10, <1>11
  DEF WorkerStep

-----------------------------------------------------------------------------
(* The platform codec.                                                     *)

PlatformQuiet ==
    UNCHANGED <<kind, req, reply, wpc, input_eos, encoder_eos_signaled,
                pending_image, last_encoder_pts, stray, mode, pc>>

(* What is announced holds no frame and no end.                            *)
LEMMA FirstBuffers ==
    ASSUME NEW c \in {<<>>, <<Buffer("config", 0, FALSE)>>}
    PROVE  LET first == <<Buffer("format", 0, FALSE)>> \o c
           IN /\ first \in Seq(Buffers) /\ Frames(first) = {} /\ Rising(first)
              /\ ~Ended(first) /\ EndsLast(first) /\ InUse(first) <= 1
<1> DEFINE f == Buffer("format", 0, FALSE)
           d == Buffer("config", 0, FALSE)
           first == <<f>> \o c
<1>1. "format" \in Tags /\ "config" \in Tags /\ 0 \in Nat /\ FALSE \in BOOLEAN
  BY DEF Tags
<1>2. f \in Buffers /\ f.tag = "format" /\ ~f.eos BY <1>1, BufferParts
<1>3. d \in Buffers /\ d.tag = "config" /\ ~d.eos BY <1>1, BufferParts
<1>4. c \in {<<>>, <<d>>} OBVIOUS
<1> HIDE DEF f, d
<1>5. /\ <<f>> \in Seq(Buffers) /\ Len(<<f>>) = 1 /\ <<f>>[1] = f
      /\ c \in Seq(Buffers) /\ Len(c) \in {0, 1} /\ (Len(c) = 1 => c[1] = d)
  <2>1. <<f>> \in Seq(Buffers) /\ Len(<<f>>) = 1 /\ <<f>>[1] = f BY <1>2
  <2>2. <<d>> \in Seq(Buffers) /\ Len(<<d>>) = 1 /\ <<d>>[1] = d BY <1>3
  <2>3. CASE c = <<>> BY <2>1, <2>3, EmptyQueue
  <2>4. CASE c = <<d>> BY <2>1, <2>2, <2>4
  <2> QED BY <1>4, <2>3, <2>4
<1>6. /\ first \in Seq(Buffers) /\ Len(first) = Len(<<f>>) + Len(c)
      /\ \A i \in 1..(Len(<<f>>) + Len(c)) :
            first[i] = IF i <= Len(<<f>>) THEN <<f>>[i] ELSE c[i - Len(<<f>>)]
  BY <1>5, ConcatProperties
<1> HIDE DEF first
<1>7. Len(first) \in {1, 2} /\ first[1] = f /\ (Len(first) = 2 => first[2] = d)
  <2>1. 1 \in 1..(1 + Len(c)) /\ 1 <= 1 BY <1>5
  <2>2. first[1] = f BY <1>5, <1>6, <2>1
  <2>3. ASSUME Len(c) = 1 PROVE first[2] = d
    <3>1. 2 \in 1..(1 + Len(c)) /\ ~(2 <= 1) /\ 2 - 1 = 1 BY <2>3
    <3> QED BY <1>5, <1>6, <2>3, <3>1
  <2> QED BY <1>5, <1>6, <2>2, <2>3
<1>8. \A i \in DOMAIN first : first[i] \in {f, d}
  <2>1. DOMAIN first = 1..Len(first) BY <1>6, QueueElements
  <2> QED BY <1>7, <2>1
<1>9. Frames(first) = {} /\ Rising(first) /\ ~Ended(first) /\ EndsLast(first)
  BY <1>2, <1>3, <1>8 DEF Frames, Rising, Ended, EndsLast
<1>10. first # <<>> BY <1>6, <1>7, QueueElements
<1>11. InUse(first) <= 1
  <2>1. first[1].tag = "format" BY <1>2, <1>7
  <2>2. InUse(first) = Len(first) - 1 BY <1>10, <2>1 DEF InUse
  <2>3. CASE Len(first) = 1 BY <2>2, <2>3
  <2>4. CASE Len(first) = 2 BY <2>2, <2>4
  <2> QED BY <1>7, <2>3, <2>4
<1> QED BY <1>6, <1>9, <1>11 DEF first, f, d

(* The format is announced.                                                *)
LEMMA AnnounceKeeps ==
    ASSUME SessionInv, SessionAssumption, PlatformQuiet, AnnounceFormat
    PROVE  SessionInv'
<1> USE DEF SessionInv, PlatformQuiet
<1>1. PICK c \in {<<>>, <<Buffer("config", 0, FALSE)>>} :
        /\ fmt' = TRUE /\ UNCHANGED <<inq, surf, broken>>
        /\ IF Transcoder
           THEN /\ surf # <<>> /\ outq' = outq
                /\ back' = <<Buffer("format", 0, FALSE)>> \o c
           ELSE /\ inq # <<>> /\ back' = back
                /\ outq' = <<Buffer("format", 0, FALSE)>> \o c
  BY DEF AnnounceFormat
<1> DEFINE first == <<Buffer("format", 0, FALSE)>> \o c
<1>2. /\ first \in Seq(Buffers) /\ ~Ended(first) /\ EndsLast(first)
      /\ InUse(first) <= 1
  BY FirstBuffers
<1>3. OutSlots \in Nat /\ OutSlots >= 2 /\ InUse(first) <= OutSlots
  <2>1. Len(first) \in Nat BY <1>2, QueueElements
  <2>2. InUse(first) \in Int BY <2>1 DEF InUse
  <2>3. OutSlots \in Nat /\ OutSlots >= 2 BY DEF SessionAssumption
  <2> HIDE DEF first
  <2> QED BY <1>2, <2>2, <2>3
<1>4. IF Transcoder THEN surf # <<>> /\ outq' = outq /\ back' = first
                    ELSE inq # <<>> /\ back' = back /\ outq' = first
  BY <1>1
<1> HIDE DEF first
<1>5. WorkerTypes' BY <1>1, <1>2, <1>4 DEF WorkerTypes
<1>6. Handshake' BY DEF Handshake
<1>7. EndIsLast' BY <1>1, <1>2, <1>4 DEF EndIsLast, Transcoder
<1>8. OnePicture' BY <1>1, <1>4 DEF OnePicture, Transcoder
<1>9. Bounded' BY <1>1, <1>3, <1>4 DEF Bounded, Transcoder
<1> QED BY <1>5, <1>6, <1>7, <1>8, <1>9

(* An input buffer is worked off.                                          *)
LEMMA InputKeeps ==
    ASSUME SessionInv, SessionAssumption, PlatformQuiet, ProcessInput
    PROVE  SessionInv'
<1> USE DEF SessionInv, PlatformQuiet
<1>1. /\ inq # <<>> /\ inq' = Tail(inq) /\ InUse(outq) < OutSlots
      /\ UNCHANGED <<surf, back, fmt, broken>>
  BY DEF ProcessInput
<1>2. \/ outq' = outq
      \/ outq' = Append(outq, Head(inq)) /\ Head(inq).tag = "frame"
      \/ outq' \in WithEos(outq) /\ Head(inq).tag = "eos"
  BY DEF ProcessInput
<1>3. inq \in Seq(Buffers) /\ outq \in Seq(Buffers) BY DEF WorkerTypes
<1>4. /\ Head(inq) \in Buffers /\ inq' \in Seq(Buffers)
      /\ Len(inq') = Len(inq) - 1
      /\ EndsLast(inq') /\ (Head(inq).eos => inq' = <<>> /\ Ended(inq))
      /\ Ended(inq') => Ended(inq)
  BY <1>1, <1>3, HeadOfQueue DEF EndIsLast
<1>5. ~Ended(outq) /\ ~pending_image.eos /\ ~encoder_eos_signaled
  BY <1>1 DEF EndIsLast
<1>6. Len(inq) \in Nat /\ Len(inq) >= 1 BY <1>1, <1>3, QueueElements
<1>7. \A i \in DOMAIN inq' : inq'[i].tag = "eos" => inq'[i].eos
  <2>1. DOMAIN inq' = 1..(Len(inq) - 1) /\ DOMAIN inq = 1..Len(inq)
    BY <1>3, <1>4, QueueElements
  <2>2. \A i \in 1..(Len(inq) - 1) : i + 1 \in 1..Len(inq) BY <1>6
  <2>3. \A i \in 1..(Len(inq) - 1) : inq'[i] = inq[i + 1]
    BY <1>1, <1>3, HeadTailProperties
  <2> QED BY <2>1, <2>2, <2>3 DEF EndIsLast
<1>8. Head(inq).tag = "eos" => Head(inq).eos
  <2>1. 1 \in DOMAIN inq /\ Head(inq) = inq[1] BY <1>1, <1>3, <1>6
  <2> QED BY <2>1 DEF EndIsLast
<1>9. /\ outq' \in Seq(Buffers) /\ EndsLast(outq')
      /\ Ended(outq') => Head(inq).eos
      /\ InUse(outq') <= InUse(outq) + 1
  <2>0. InUse(outq) <= InUse(outq) + 1
    <3>1. Len(outq) \in Nat BY <1>3, QueueElements
    <3>2. InUse(outq) \in Int BY <3>1 DEF InUse
    <3> QED BY <3>2
  <2>1. CASE outq' = outq BY <1>3, <1>5, <2>0, <2>1 DEF EndIsLast
  <2>2. CASE outq' = Append(outq, Head(inq)) /\ Head(inq).tag = "frame"
    BY <1>3, <1>4, <1>5, <2>2, AppendToQueue
  <2>3. CASE outq' \in WithEos(outq) /\ Head(inq).tag = "eos"
    BY <1>3, <1>5, <1>8, <2>3, EndQueue
  <2> QED BY <1>2, <2>1, <2>2, <2>3
<1>10. WorkerTypes' BY <1>1, <1>4, <1>9 DEF WorkerTypes
<1>11. Handshake' BY DEF Handshake
<1>12. EndIsLast'
  BY <1>1, <1>4, <1>5, <1>7, <1>9 DEF EndIsLast, Transcoder
<1>13. OnePicture' BY <1>1 DEF OnePicture, Transcoder
<1>14. Bounded'
  <2>1. Len(outq) \in Nat /\ Len(outq') \in Nat BY <1>3, <1>9, QueueElements
  <2>2. InUse(outq) \in Int /\ InUse(outq') \in Int BY <2>1 DEF InUse
  <2>3. OutSlots \in Nat /\ InSlots \in Nat BY DEF SessionAssumption
  <2>4. InUse(outq') <= OutSlots BY <1>1, <1>9, <2>2, <2>3
  <2>5. Len(inq') <= InSlots BY <1>4, <1>6, <2>3 DEF Bounded
  <2> QED BY <1>1, <2>4, <2>5 DEF Bounded
<1> QED BY <1>10, <1>11, <1>12, <1>13, <1>14

(* A rendered picture arrives.                                             *)
LEMMA SurfaceKeeps ==
    ASSUME SessionInv, SessionAssumption, PlatformQuiet, ProcessSurface
    PROVE  SessionInv'
<1> USE DEF SessionInv, PlatformQuiet
<1>1. /\ surf # <<>> /\ surf' = Tail(surf)
      /\ UNCHANGED <<inq, outq, fmt, broken>>
      /\ \/ /\ kind = "decoder" /\ Len(back) < MaxImages
            /\ back' = Append(back, Head(surf))
         \/ /\ Transcoder /\ InUse(back) < OutSlots
            /\ \/ Head(surf) = Eos /\ back' \in WithEos(back)
               \/ back' = Append(back, Head(surf))
  BY DEF ProcessSurface
<1>2. surf \in Seq(Buffers) /\ back \in Seq(Buffers) BY DEF WorkerTypes
<1>3. /\ Head(surf) \in Buffers /\ surf' \in Seq(Buffers)
      /\ EndsLast(surf) => EndsLast(surf') /\ (Head(surf).eos => surf' = <<>>)
      /\ Head(surf).eos => Ended(surf)
      /\ Ended(surf') => Ended(surf)
  BY <1>1, <1>2, HeadOfQueue
<1>4. Transcoder => ~Ended(back) BY <1>1 DEF EndIsLast
<1>5. /\ back' \in Seq(Buffers)
      /\ InUse(back') <= InUse(back) + 1
      /\ Transcoder => EndsLast(back') /\ (Ended(back') => Head(surf).eos)
      /\ kind = "decoder" => Len(back') = Len(back) + 1
  <2>1. CASE back' = Append(back, Head(surf))
    BY <1>2, <1>3, <1>4, <2>1, AppendToQueue
  <2>2. CASE Transcoder /\ Head(surf) = Eos /\ back' \in WithEos(back)
    BY <1>2, <1>4, <2>2, EndQueue, NoneAndEos DEF Transcoder
  <2> QED BY <1>1, <2>1, <2>2
<1>6. ~(reply.status = "ok" /\ reply.rec.eos /\ ~stray)
  BY <1>1 DEF EndIsLast
<1>7. WorkerTypes' BY <1>1, <1>3, <1>5 DEF WorkerTypes
<1>8. Handshake' BY DEF Handshake
<1>9. EndIsLast'
  BY <1>1, <1>3, <1>4, <1>5, <1>6 DEF EndIsLast, Transcoder
<1>10. OnePicture'
  <2>1. ASSUME kind = "decoder", ~stray
        PROVE  surf' = <<>> /\ back' = <<pending_image>> /\ pending_image # None
    <3>1. pending_image # None /\ surf = <<pending_image>> /\ back = <<>>
      BY <1>1, <2>1 DEF OnePicture
    <3>2. back' = Append(back, Head(surf)) BY <1>1, <2>1 DEF Transcoder
    <3>3. Head(<<pending_image>>) = pending_image
          /\ Tail(<<pending_image>>) = <<>>
          /\ Append(<<>>, pending_image) = <<pending_image>>
      OBVIOUS
    <3> QED BY <1>1, <3>1, <3>2, <3>3
  <2>2. kind # "encoder" BY <1>1 DEF OnePicture
  <2> QED BY <2>1, <2>2 DEF OnePicture, Transcoder
<1>11. Bounded'
  <2>1. Len(back) \in Nat /\ Len(back') \in Nat BY <1>2, <1>5, QueueElements
  <2>2. InUse(back) \in Int /\ InUse(back') \in Int /\ InUse(back') <= Len(back')
    BY <2>1 DEF InUse
  <2>3. OutSlots \in Nat /\ MaxImages \in Nat BY DEF SessionAssumption
  <2>4. CASE kind = "decoder"
    <3>1. Len(back) < MaxImages /\ Len(back') = Len(back) + 1
      BY <1>1, <1>5, <2>4 DEF Transcoder
    <3>2. InUse(back') <= MaxImages BY <2>1, <2>2, <2>3, <3>1
    <3> QED BY <1>1, <2>4, <3>2 DEF Bounded
  <2>5. CASE Transcoder
    <3>1. InUse(back') <= OutSlots BY <1>1, <1>5, <2>2, <2>3, <2>5 DEF Transcoder
    <3> QED BY <1>1, <2>5, <3>1 DEF Bounded, Transcoder
  <2> QED BY <1>1, <2>4, <2>5
<1> QED BY <1>7, <1>8, <1>9, <1>10, <1>11

(* The codec breaks.                                                       *)
LEMMA BreakKeeps ==
    ASSUME SessionInv, PlatformQuiet, CodecBreaks PROVE SessionInv'
<1> USE DEF SessionInv, PlatformQuiet
<1>1. broken' = TRUE /\ UNCHANGED <<inq, outq, surf, back, fmt>>
  BY DEF CodecBreaks, queues
<1>2. WorkerTypes' BY <1>1 DEF WorkerTypes
<1>3. Handshake' BY DEF Handshake
<1>4. EndIsLast' BY <1>1 DEF EndIsLast, Transcoder
<1>5. OnePicture' BY <1>1 DEF OnePicture, Transcoder
<1>6. Bounded' BY <1>1 DEF Bounded
<1> QED BY <1>2, <1>3, <1>4, <1>5, <1>6

(* Every step of the platform.                                             *)
LEMMA PlatformKeeps ==
    ASSUME SessionInv, SessionAssumption, PlatformStep \/ CodecBreaks,
           UNCHANGED clientVars
    PROVE  SessionInv'
<1>1. PlatformQuiet
  BY DEF PlatformQuiet, PlatformStep, AnnounceFormat, ProcessInput,
         ProcessSurface, CodecBreaks, createVars, sessionFlags, clientVars
<1> QED
  BY <1>1, AnnounceKeeps, InputKeeps, SurfaceKeeps, BreakKeeps DEF PlatformStep

-----------------------------------------------------------------------------
(* The client.                                                             *)

(* When the client may act the worker is idle.                             *)
LEMMA ClientActs ==
    ASSUME SessionInv, pc \in {"start", "read", "any"} \/ Fails
    PROVE  wpc = "idle"
BY NoRecords DEF SessionInv, Handshake, Fails

(* It sends the request it then waits for.                                 *)
LEMMA SendKeeps ==
    ASSUME SessionInv, wpc = "idle", Quiet,
           NEW p \in ClientPcs \ {"start", "read", "any", "done"},
           NEW op \in Operations \ {"none"}, NEW rec \in Buffers,
           Send(p, op, rec),
           p \in {"create", "keyframe", "input", "eos", "stats", "close"} => op = p,
           p \in {"drain", "final"} => op = "output",
           mode = "pipe" => p # "anyReply",
           op = "input" => rec.tag \in {"frame", "config", "invalid"} /\ ~rec.eos,
           op = "eos" => rec = Eos
    PROVE  SessionInv'
<1> USE DEF SessionInv, Quiet, createVars, sessionFlags, platform, queues
<1>1. /\ req' \in Requests /\ req'.op = op /\ req'.rec = rec
      /\ reply' = NoReply /\ pc' = p
  BY DEF Send, Requests
<1>2. /\ reply' \in Replies /\ reply'.status = "none" /\ reply'.rec = None
  BY <1>1, NoRecords
<1>3. WorkerTypes' BY <1>1, <1>2 DEF WorkerTypes
<1>4. Handshake' BY <1>1, <1>2 DEF Handshake
<1>5. EndIsLast' BY <1>2 DEF EndIsLast, Transcoder
<1>6. OnePicture' BY <1>2 DEF OnePicture, Transcoder
<1>7. Bounded' BY DEF Bounded
<1> QED BY <1>3, <1>4, <1>5, <1>6, <1>7

(* Or it goes on without one.                                              *)
LEMMA ProceedKeeps ==
    ASSUME SessionInv, wpc = "idle", Quiet, NEW p \in {"read", "any", "done"},
           Proceed(p), mode = "pipe" => p # "any"
    PROVE  SessionInv'
<1> USE DEF SessionInv, Quiet, createVars, sessionFlags, platform, queues
<1>1. req' = NoRequest /\ reply' = NoReply /\ pc' = p BY DEF Proceed
<1>2. /\ reply' \in Replies /\ reply'.status = "none" /\ reply'.rec = None
      /\ req' \in Requests /\ req'.op = "none"
  BY <1>1, NoRecords
<1>3. WorkerTypes' BY <1>2 DEF WorkerTypes
<1>4. Handshake' BY <1>1, <1>2 DEF Handshake
<1>5. EndIsLast' BY <1>2 DEF EndIsLast, Transcoder
<1>6. OnePicture' BY <1>2 DEF OnePicture, Transcoder
<1>7. Bounded' BY DEF Bounded
<1> QED BY <1>3, <1>4, <1>5, <1>6, <1>7

(* A request of the pipe without a record, or for a record.                *)
LEMMA PipeSends ==
    ASSUME SessionInv, wpc = "idle", Quiet,
           \/ Send("create", "create", None)
           \/ Send("keyframe", "keyframe", None)
           \/ Send("drain", "output", None)
           \/ Send("final", "output", None)
           \/ Send("stats", "stats", None)
           \/ Send("close", "close", None)
           \/ Send("eos", "eos", Eos)
           \/ \E rec \in Buffers :
                 /\ Send("input", "input", rec)
                 /\ rec.tag \in {"frame", "config", "invalid"} /\ ~rec.eos
    PROVE  SessionInv'
<1> USE NoneAndEos DEF ClientPcs, Operations
<1>1. CASE Send("create", "create", None) BY <1>1, SendKeeps
<1>2. CASE Send("keyframe", "keyframe", None) BY <1>2, SendKeeps
<1>3. CASE Send("drain", "output", None) BY <1>3, SendKeeps
<1>4. CASE Send("final", "output", None) BY <1>4, SendKeeps
<1>5. CASE Send("stats", "stats", None) BY <1>5, SendKeeps
<1>6. CASE Send("close", "close", None) BY <1>6, SendKeeps
<1>7. CASE Send("eos", "eos", Eos) BY <1>7, SendKeeps
<1>8. ASSUME NEW rec \in Buffers, Send("input", "input", rec),
             rec.tag \in {"frame", "config", "invalid"}, ~rec.eos
      PROVE  SessionInv'
  BY <1>8, SendKeeps
<1> QED BY <1>1, <1>2, <1>3, <1>4, <1>5, <1>6, <1>7, <1>8

(* What the pipe reads next, and the request it makes of it.               *)
LEMMA ReadRecord ==
    ASSUME ClientTypes, PipeRead
    PROVE  /\ pc = "read" /\ UNCHANGED <<out, saw_eos, idle, ops>> /\ Quiet
           /\ \/ Send("eos", "eos", Eos) /\ UNCHANGED <<pos, frames, result>>
              \/ Abandon /\ UNCHANGED <<pos, frames>>
              \/ \E tag \in {"frame", "config", "invalid"} :
                    /\ pos' = pos + 1 /\ pos < Len(stream)
                    /\ frames' = frames + IF tag = "frame" THEN 1 ELSE 0
                    /\ Send("input", "input", Buffer(tag, frames', FALSE))
                    /\ UNCHANGED result
<1> DEFINE tag == IF pos = Len(stream) THEN "eos" ELSE stream[pos + 1]
<1>1. /\ pc = "read" /\ UNCHANGED <<out, saw_eos, idle, ops>> /\ Quiet
  BY DEF PipeRead
<1>2. \/ Send("eos", "eos", Eos) /\ UNCHANGED <<pos, frames, result>>
      \/ Abandon /\ UNCHANGED <<pos, frames>>
      \/ /\ tag # "eos" /\ tag # "truncated"
         /\ pos' = pos + 1
         /\ frames' = frames + IF tag = "frame" THEN 1 ELSE 0
         /\ Send("input", "input", Buffer(tag, frames', FALSE))
         /\ UNCHANGED result
  BY DEF PipeRead
<1>3. ASSUME tag # "eos", tag # "truncated"
      PROVE  tag \in {"frame", "config", "invalid"} /\ pos < Len(stream)
  <2>1. Len(stream) \in Nat /\ pos \in Nat /\ pos <= Len(stream)
    BY DEF ClientTypes
  <2>2. pos # Len(stream) BY <1>3
  <2>3. pos < Len(stream) BY <2>1, <2>2
  <2>4. pos + 1 \in 1..Len(stream) BY <2>1, <2>3
  <2>5. stream[pos + 1] \in {"frame", "config", "invalid", "eos", "truncated"}
    BY <2>4, ElementOfSeq DEF ClientTypes
  <2> QED BY <1>3, <2>2, <2>3, <2>5
<1> HIDE DEF tag
<1> QED BY <1>1, <1>2, <1>3

(* Every step of the pipe keeps the session.                               *)
LEMMA PipeKeeps ==
    ASSUME SessionInv, ClientTypes, PipeStep PROVE SessionInv'
<1>1. Quiet
  BY DEF PipeStep, PipeStart, PipeCreated, PipeKeyframe, PipeRead, PipeInput,
         PipeEos, PipeDrain, PipeFinal, PipeStats, PipeClosed
<1>2. wpc = "idle"
  BY ClientActs DEF PipeStep, PipeStart, PipeCreated, PipeKeyframe, PipeRead,
     PipeInput, PipeEos, PipeDrain, PipeFinal, PipeStats, PipeClosed, Answers,
     Fails, Written
<1> USE <1>1, <1>2
<1>3. CASE PipeStart BY <1>3, PipeSends DEF PipeStart
<1>4. CASE PipeCreated
  <2>1. CASE mode = "protocol" /\ Proceed("any") BY <2>1, ProceedKeeps
  <2>2. CASE Proceed("read") BY <2>2, ProceedKeeps
  <2>3. CASE Send("keyframe", "keyframe", None) BY <2>3, PipeSends
  <2>4. CASE Proceed("done") BY <2>4, ProceedKeeps
  <2> QED BY <1>4, <2>1, <2>2, <2>3, <2>4 DEF PipeCreated
<1>5. CASE PipeKeyframe
  <2>1. CASE Proceed("read") BY <2>1, ProceedKeeps
  <2>2. CASE Send("close", "close", None) BY <2>2, PipeSends
  <2> QED BY <1>5, <2>1, <2>2 DEF PipeKeyframe
<1>6. CASE PipeRead
  <2>1. CASE Send("eos", "eos", Eos) BY <2>1, PipeSends
  <2>2. CASE Abandon BY <2>2, PipeSends DEF Abandon
  <2>3. ASSUME NEW tag \in {"frame", "config", "invalid"},
               frames' = frames + IF tag = "frame" THEN 1 ELSE 0,
               Send("input", "input", Buffer(tag, frames', FALSE))
        PROVE  SessionInv'
    <3>1. frames' \in Nat BY <2>3 DEF ClientTypes
    <3>2. tag \in Tags BY DEF Tags
    <3>3. /\ Buffer(tag, frames', FALSE) \in Buffers
          /\ Buffer(tag, frames', FALSE).tag = tag
          /\ ~Buffer(tag, frames', FALSE).eos
      BY <3>1, <3>2, BufferParts
    <3> QED BY <2>3, <3>3, PipeSends
  <2> QED BY <1>6, <2>1, <2>2, <2>3, ReadRecord
<1>7. CASE PipeInput
  <2>1. req.op = "input" /\ req.rec \in Buffers
        /\ req.rec.tag \in {"frame", "config", "invalid"} /\ ~req.rec.eos
    BY <1>7 DEF PipeInput, SessionInv, Handshake, WorkerTypes, Requests
  <2>2. CASE Send("input", "input", req.rec) BY <2>1, <2>2, PipeSends
  <2>3. CASE Send("drain", "output", None) BY <2>3, PipeSends
  <2>4. CASE Abandon BY <2>4, PipeSends DEF Abandon
  <2> QED BY <1>7, <2>2, <2>3, <2>4 DEF PipeInput
<1>8. CASE PipeEos
  <2>1. CASE Send("eos", "eos", Eos) BY <2>1, PipeSends
  <2>2. CASE Send("final", "output", None) BY <2>2, PipeSends
  <2>3. CASE Abandon BY <2>3, PipeSends DEF Abandon
  <2> QED BY <1>8, <2>1, <2>2, <2>3 DEF PipeEos
<1>9. CASE PipeDrain
  <2>1. CASE Proceed("read") BY <2>1, ProceedKeeps
  <2>2. CASE Send("drain", "output", None) BY <2>2, PipeSends
  <2>3. CASE Abandon BY <2>3, PipeSends DEF Abandon
  <2> QED BY <1>9, <2>1, <2>2, <2>3 DEF PipeDrain
<1>10. CASE PipeFinal
  <2>1. CASE Send("final", "output", None) BY <2>1, PipeSends
  <2>2. CASE Abandon BY <2>2, PipeSends DEF Abandon
  <2>3. CASE Send("stats", "stats", None) BY <2>3, PipeSends
  <2> QED BY <1>10, <2>1, <2>2, <2>3 DEF PipeFinal
<1>11. CASE PipeStats BY <1>11, PipeSends DEF PipeStats
<1>12. CASE PipeClosed BY <1>12, ProceedKeeps DEF PipeClosed
<1> QED
  BY <1>3, <1>4, <1>5, <1>6, <1>7, <1>8, <1>9, <1>10, <1>11, <1>12 DEF PipeStep

(* So does every step of a protocol client.                                *)
LEMMA ProtocolKeeps ==
    ASSUME SessionInv, ProtocolStep, PipeAssumption PROVE SessionInv'
<1>1. Quiet
  BY DEF ProtocolStep, ProtocolRequest, ProtocolReply, ProtocolClose
<1>2. wpc = "idle"
  BY ClientActs DEF ProtocolStep, ProtocolRequest, ProtocolReply, ProtocolClose
<1>3. mode # "pipe"
  BY DEF ProtocolStep, ProtocolRequest, ProtocolReply, ProtocolClose,
         SessionInv, Handshake
<1> USE <1>1, <1>2, <1>3
<1>4. CASE ProtocolRequest
  <2>1. PICK op \in {"input", "eos", "output", "flush", "keyframe"},
             rec \in Buffers :
          /\ Send("anyReply", op, rec)
          /\ op = "input" => rec.tag \in {"frame", "config", "invalid"} /\ ~rec.eos
          /\ op = "eos" => rec = Eos
    <3>1. CASE \E pts \in 1..MaxPts :
                  Send("anyReply", "input", Buffer("frame", pts, FALSE))
      <4>1. PICK pts \in 1..MaxPts :
                  Send("anyReply", "input", Buffer("frame", pts, FALSE))
        BY <3>1
      <4>2. pts \in Nat /\ "frame" \in Tags BY DEF PipeAssumption, Tags
      <4>3. /\ Buffer("frame", pts, FALSE) \in Buffers
            /\ Buffer("frame", pts, FALSE).tag = "frame"
            /\ ~Buffer("frame", pts, FALSE).eos
        BY <4>2, BufferParts
      <4> QED BY <4>1, <4>3
    <3>2. CASE \E tag \in {"config", "invalid"} :
                  Send("anyReply", "input", Buffer(tag, 0, FALSE))
      <4>1. PICK tag \in {"config", "invalid"} :
                  Send("anyReply", "input", Buffer(tag, 0, FALSE))
        BY <3>2
      <4>2. tag \in Tags BY DEF Tags
      <4>3. /\ Buffer(tag, 0, FALSE) \in Buffers
            /\ Buffer(tag, 0, FALSE).tag = tag /\ ~Buffer(tag, 0, FALSE).eos
        BY <4>2, BufferParts
      <4> QED BY <4>1, <4>3
    <3>3. CASE Send("anyReply", "eos", Eos) BY <3>3, NoneAndEos
    <3>4. CASE \E op \in {"output", "flush", "keyframe"} :
                  Send("anyReply", op, None)
      BY <3>4, NoneAndEos
    <3> QED BY <1>4, <3>1, <3>2, <3>3, <3>4 DEF ProtocolRequest
  <2>2. op \in Operations \ {"none"} BY DEF Operations
  <2>3. "anyReply" \in ClientPcs \ {"start", "read", "any", "done"}
    BY DEF ClientPcs
  <2> QED BY <2>1, <2>2, <2>3, SendKeeps
<1>5. CASE ProtocolReply BY <1>5, ProceedKeeps DEF ProtocolReply
<1>6. CASE ProtocolClose BY <1>6, PipeSends DEF ProtocolClose
<1> QED BY <1>4, <1>5, <1>6 DEF ProtocolStep

(* A record that is written.                                               *)
LEMMA WrittenOut ==
    ASSUME ClientTypes, reply \in Replies, Written
    PROVE  /\ out' \in Seq(OutRecord) /\ saw_eos' \in BOOLEAN
           /\ \/ out' = out
              \/ /\ reply.rec.tag = "frame"
                 /\ out' = Append(out, [pts |-> reply.rec.pts, img |-> reply.img])
<1> DEFINE r == [pts |-> reply.rec.pts, img |-> reply.img]
<1>1. r \in OutRecord BY DEF Replies, Buffers, OutRecord
<1>2. out \in Seq(OutRecord) BY DEF ClientTypes
<1>3. saw_eos' \in BOOLEAN BY DEF Written
<1>4. \/ out' = out
      \/ reply.rec.tag = "frame" /\ out' = Append(out, r)
  BY DEF Written
<1> HIDE DEF r
<1>5. Append(out, r) \in Seq(OutRecord) BY <1>1, <1>2, AppendProperties
<1> QED BY <1>2, <1>3, <1>4, <1>5 DEF r

(* The client's own state keeps its types.                                 *)
LEMMA ClientKeepsTypes ==
    ASSUME SessionInv, ClientTypes, PipeAssumption, PipeStep \/ ProtocolStep
    PROVE  ClientTypes'
<1> USE DEF Send, Proceed, Abandon
<1>0. /\ UNCHANGED <<mode, stream>> /\ IdleLimit \in Nat
      /\ idle \in Nat /\ result \in {0, 1}
      /\ reply \in Replies
  <2>1. UNCHANGED <<mode, stream>>
    BY DEF PipeStep, PipeStart, PipeCreated, PipeKeyframe, PipeRead, PipeInput,
           PipeEos, PipeDrain, PipeFinal, PipeStats, PipeClosed, ProtocolStep,
           ProtocolRequest, ProtocolReply, ProtocolClose, Quiet
  <2> QED BY <2>1 DEF ClientTypes, PipeAssumption, SessionInv, WorkerTypes
<1>1. CASE PipeStart \/ PipeCreated \/ PipeKeyframe \/ PipeInput \/ PipeEos
  BY <1>0, <1>1 DEF ClientTypes, ClientPcs, PipeStart, PipeCreated,
     PipeKeyframe, PipeInput, PipeEos
<1>2. CASE PipeStats \/ PipeClosed \/ ProtocolRequest \/ ProtocolReply
           \/ ProtocolClose
  BY <1>0, <1>2 DEF ClientTypes, ClientPcs, PipeStats, PipeClosed,
     ProtocolRequest, ProtocolReply, ProtocolClose
<1>3. CASE PipeRead
  <2>1. /\ pc = "read" /\ UNCHANGED <<out, saw_eos, idle>>
        /\ \/ pc' = "eos" /\ UNCHANGED <<pos, frames, result>>
           \/ pc' = "stats" /\ result' = 1 /\ UNCHANGED <<pos, frames>>
           \/ /\ pc' = "input" /\ pos' = pos + 1 /\ pos < Len(stream)
              /\ frames' \in {frames, frames + 1} /\ UNCHANGED result
    <3>1. pc = "read" /\ UNCHANGED <<out, saw_eos, idle>>
      BY <1>3 DEF PipeRead
    <3>2. frames \in Nat BY DEF ClientTypes
    <3>3. frames + 0 = frames BY <3>2
    <3> QED BY <1>3, <3>1, <3>3, ReadRecord
  <2>2. /\ pos' \in Nat /\ frames' \in Nat /\ frames' <= pos'
        /\ pos' <= Len(stream)
    <3>1. /\ pos \in Nat /\ frames \in Nat /\ frames <= pos
          /\ pos <= Len(stream) /\ Len(stream) \in Nat
      BY DEF ClientTypes
    <3> QED BY <2>1, <3>1
  <2> QED BY <1>0, <2>1, <2>2 DEF ClientTypes, ClientPcs
<1>4. CASE PipeDrain
  <2>1. /\ pc = "drain" /\ UNCHANGED <<pos, frames, idle>>
        /\ pc' \in {"read", "drain", "stats"} /\ result' \in {result, 1}
        /\ UNCHANGED <<out, saw_eos>> \/ Written
    BY <1>4 DEF PipeDrain
  <2>2. out' \in Seq(OutRecord) /\ saw_eos' \in BOOLEAN
    BY <1>0, <2>1, WrittenOut DEF ClientTypes
  <2> QED BY <1>0, <2>1, <2>2 DEF ClientTypes, ClientPcs
<1>5. CASE PipeFinal
  <2>1. /\ pc = "final" /\ UNCHANGED <<pos, frames>>
        /\ pc' \in {"final", "stats"} /\ result' \in {0, 1}
        /\ UNCHANGED <<out, saw_eos>> \/ Written
        /\ \/ UNCHANGED idle
           \/ idle' = idle + 1 /\ (pc' = "final" => idle' < IdleLimit)
    BY <1>0, <1>5 DEF PipeFinal, MoreIdle
  <2>2. out' \in Seq(OutRecord) /\ saw_eos' \in BOOLEAN
    BY <1>0, <2>1, WrittenOut DEF ClientTypes
  <2>3. idle' \in 0..IdleLimit /\ (pc' # "stats" => idle' < IdleLimit)
    BY <1>0, <2>1 DEF ClientTypes
  <2> QED BY <1>0, <2>1, <2>2, <2>3 DEF ClientTypes, ClientPcs
<1> QED BY <1>1, <1>2, <1>3, <1>4, <1>5 DEF PipeStep, ProtocolStep

(* Every step keeps the session and the client's types.                    *)
LEMMA StepSession ==
    ASSUME SessionInv, ClientTypes, SessionAssumption, PipeAssumption,
           [Next]_vars
    PROVE  SessionInv' /\ ClientTypes'
<1>1. CASE PipeStep \/ ProtocolStep
  BY <1>1, PipeKeeps, ProtocolKeeps, ClientKeepsTypes
<1>2. CASE UNCHANGED clientVars /\ (WorkerStep \/ PlatformStep \/ CodecBreaks)
  <2>1. SessionInv' BY <1>2, WorkerKeeps, PlatformKeeps
  <2> QED BY <1>2, <2>1 DEF ClientTypes, clientVars
<1>3. CASE WorkerCloses
  <2>1. /\ UNCHANGED <<kind, req, reply, wpc, clientVars>> /\ ClearSession
        /\ pc = "done" /\ wpc = "idle"
    BY <1>3 DEF WorkerCloses, DestroySession
  <2>2. reply = NoReply BY <2>1 DEF SessionInv, Handshake
  <2>3. SessionInv' BY <2>1, <2>2, ClearKeeps DEF WorkerQuiet, clientVars
  <2> QED BY <2>1, <2>3 DEF ClientTypes, clientVars
<1>4. CASE UNCHANGED vars
  <2>1. UNCHANGED clientVars BY <1>4 DEF vars
  <2>2. UNCHANGED <<kind, req, reply, wpc, sessionFlags, platform, stray>>
    BY <1>4 DEF vars, createVars, sessionVars
  <2>3. SessionInv'
    BY <2>1, <2>2 DEF SessionInv, WorkerTypes, Handshake, EndIsLast, OnePicture,
       Bounded, Transcoder, clientVars, sessionFlags, platform, queues
  <2> QED BY <2>1, <2>3 DEF ClientTypes, clientVars
<1> QED BY <1>1, <1>2, <1>3, <1>4 DEF Next, Over

(* The first state.                                                        *)
LEMMA InitSession ==
    ASSUME Init, SessionAssumption, PipeAssumption
    PROVE  SessionInv /\ ClientTypes
<1>1. /\ kind \in SessionKinds /\ req = NoRequest /\ reply = NoReply
      /\ wpc = "idle" /\ input_eos = FALSE /\ encoder_eos_signaled = FALSE
      /\ pending_image = None /\ last_encoder_pts = 0
      /\ inq = <<>> /\ outq = <<>> /\ surf = <<>> /\ back = <<>>
      /\ fmt = FALSE /\ broken = FALSE /\ stray = FALSE
  BY DEF Init, CreateInit, SessionInit
<1>2. InSlots \in Nat /\ OutSlots \in Nat /\ MaxImages \in Nat
  BY DEF SessionAssumption
<1>3. WorkerTypes
  BY <1>1, EmptyQueue, NoRecords, NoneAndEos DEF WorkerTypes, WorkerPcs
<1>4. Handshake BY <1>1, NoRecords DEF Handshake, Init
<1>5. EndIsLast
  <2>1. \A i \in DOMAIN <<>> : FALSE OBVIOUS
  <2> QED BY <1>1, <2>1, EmptyQueue, NoRecords, NoneAndEos DEF EndIsLast
<1>6. OnePicture BY <1>1, NoRecords DEF OnePicture
<1>7. Bounded BY <1>1, <1>2, EmptyQueue DEF Bounded
<1>8. ClientTypes
  <2>1. stream \in Seq({"frame", "config", "invalid", "eos", "truncated"})
    <3>1. CASE mode = "pipe" BY <3>1 DEF Init, PipeAssumption
    <3>2. CASE mode # "pipe"
      <4>1. stream = <<>> BY <3>2 DEF Init
      <4> QED BY <4>1
    <3> QED BY <3>1, <3>2
  <2>2. Len(stream) \in Nat BY <2>1
  <2>3. out = <<>> BY DEF Init
  <2>4. out \in Seq(OutRecord) BY <2>3
  <2>5. pos = 0 /\ frames = 0 /\ idle = 0 /\ IdleLimit \in Nat \ {0}
    BY DEF Init, PipeAssumption
  <2>6. /\ pos \in Nat /\ frames \in Nat /\ frames <= pos
        /\ pos <= Len(stream) /\ idle \in 0..IdleLimit /\ idle < IdleLimit
    BY <2>2, <2>5
  <2>7. /\ mode \in {"pipe", "protocol"} /\ pc \in ClientPcs
        /\ saw_eos \in BOOLEAN /\ result \in {0, 1}
    BY DEF Init, ClientPcs
  <2> QED BY <2>1, <2>4, <2>6, <2>7 DEF ClientTypes
<1> QED BY <1>3, <1>4, <1>5, <1>6, <1>7, <1>8 DEF SessionInv

-----------------------------------------------------------------------------
(* The order of a pipe's frames: one lemma for a group of steps again.     *)

(* What is taken away leaves the rest in order, and the bound may grow.    *)
LEMMA ChainShrinks ==
    ASSUME NEW D, NEW A, NEW W, NEW B, NEW S, NEW O, NEW I, NEW n \in Int,
           Chain(D, A, W, B, S, O, I, n), NEW m \in Int, n <= m,
           NEW D2 \in SUBSET D, NEW A2 \in SUBSET A, NEW W2 \in SUBSET W,
           NEW B2 \in SUBSET B, NEW S2 \in SUBSET S, NEW O2 \in SUBSET O,
           NEW I2 \in SUBSET I
    PROVE  Chain(D2, A2, W2, B2, S2, O2, I2, m)
<1>1. D \cup A \cup W \cup B \cup S \cup O \cup I \subseteq 1..m
  <2>1. 1..n \subseteq 1..m OBVIOUS
  <2> QED BY <2>1 DEF Chain
<1>2. D2 \cup A2 \cup W2 \cup B2 \cup S2 \cup O2 \cup I2 \subseteq 1..m BY <1>1
<1>3. /\ Below(O2, I2) /\ Below(S2, O2 \cup I2)
      /\ Below(B2, S2 \cup O2 \cup I2) /\ Below(W2, O2 \cup I2)
  BY DEF Chain, Below
<1>4. Below(A2, B2 \cup S2 \cup O2 \cup I2) BY DEF Chain, Below
<1>5. Below(D2, A2 \cup W2 \cup B2 \cup S2 \cup O2 \cup I2) BY DEF Chain, Below
<1> QED BY <1>2, <1>3, <1>4, <1>5 DEF Chain

(* The last PTS past the request grows when the worker takes the request.  *)
LEMMA LimitGrows ==
    ASSUME ClientTypes, UNCHANGED frames, Untaken' => Untaken
    PROVE  Limit \in Int /\ Limit' \in Int /\ Limit <= Limit'
<1>1. frames \in Nat BY DEF ClientTypes
<1>2. CASE Untaken /\ Untaken' BY <1>1, <1>2 DEF Limit
<1>3. CASE Untaken /\ ~Untaken' BY <1>1, <1>3 DEF Limit
<1>4. CASE ~Untaken BY <1>1, <1>4 DEF Limit
<1> QED BY <1>2, <1>3, <1>4

(* A step that only takes frames away.                                     *)
LEMMA OrderedShrinks ==
    ASSUME ClientTypes, Ordered, UNCHANGED <<out, frames>>, Untaken' => Untaken,
           Answered' \subseteq Answered, Awaited' \subseteq Awaited,
           Rising(inq') /\ Frames(inq') \subseteq Frames(inq),
           Rising(outq') /\ Frames(outq') \subseteq Frames(outq),
           Rising(surf') /\ Frames(surf') \subseteq Frames(surf),
           Rising(back') /\ Frames(back') \subseteq Frames(back)
    PROVE  Ordered'
<1>1. Limit \in Int /\ Limit' \in Int /\ Limit <= Limit' BY LimitGrows
<1>2. Delivered' = Delivered BY DEF Delivered
<1>3. Chain(Delivered, Answered, Awaited, Frames(back), Frames(surf),
            Frames(outq), Frames(inq), Limit)
  BY DEF Ordered
<1>4. Chain(Delivered, Answered', Awaited', Frames(back'), Frames(surf'),
            Frames(outq'), Frames(inq'), Limit')
  BY <1>1, <1>3, ChainShrinks
<1> QED BY <1>2, <1>4 DEF Ordered

(* While the worker is at a request there is no answer.                    *)
LEMMA NoneAnswered ==
    ASSUME reply = NoReply PROVE Answered = {}
BY NoRecords DEF Answered

(* An answer without a record, or none, answers no frame.                  *)
LEMMA AnswersNone ==
    ASSUME (\E st \in Statuses : Reply(st)) \/ reply' = NoReply
    PROVE  Answered' = {}
<1>1. CASE \E st \in Statuses : Reply(st)
  <2>1. reply'.rec.tag = "none" BY <1>1, ReplyParts
  <2> QED BY <2>1 DEF Answered
<1>2. CASE reply' = NoReply BY <1>2, NoRecords DEF Answered
<1> QED BY <1>1, <1>2

(* The worker answers without a record or goes on, and moves no frame.     *)
LEMMA TurnOrders ==
    ASSUME ClientTypes, Ordered, UNCHANGED <<req, out, frames>>,
           UNCHANGED <<pending_image, inq, outq, surf, back>>,
           Untaken' => Untaken,
           (\E st \in Statuses : Reply(st)) \/ reply' = NoReply
    PROVE  Ordered'
<1>1. Answered' = {} BY AnswersNone
<1>2. Awaited' = Awaited BY DEF Awaited
<1>3. Rising(inq) /\ Rising(outq) /\ Rising(surf) /\ Rising(back)
  BY DEF Ordered
<1> QED BY <1>1, <1>2, <1>3, OrderedShrinks

(* Without a record in the request, or before it is taken, nothing is      *)
(* taken back.                                                             *)
LEMMA StaysTaken ==
    ASSUME UNCHANGED req, reply = NoReply,
           \/ wpc \in {"idle", "take"}
           \/ req.op # "input"
           \/ wpc' = "idle" /\ reply'.status \in {"ok", "error"}
    PROVE  Untaken' => Untaken
BY NoRecords DEF Untaken

(* How frames move along the chain.                                        *)
LEMMA ChainMoves ==
    ASSUME NEW D, NEW A, NEW W, NEW B, NEW S, NEW O, NEW I, NEW n \in Int,
           Chain(D, A, W, B, S, O, I, n)
    PROVE  /\ \A S2 \in SUBSET (S \cup O), O2 \in SUBSET O :
                Below(S2, O2) => Chain(D, A, W, B, S2, O2, I, n)
           /\ \A x \in I, I2 \in SUBSET I :
                Below({x}, I2) => Chain(D, A, W, B, S, O \cup {x}, I2, n)
           /\ \A x \in S, S2 \in SUBSET S :
                Below({x}, S2) => Chain(D, A, W, B \cup {x}, S2, O, I, n)
           /\ \A x \in B, B2 \in SUBSET B :
                Below({x}, B2) => Chain(D, {x}, W, B2, S, O, I, n)
           /\ B = {} /\ S = {} => \A x \in O, O2 \in SUBSET O :
                Below({x}, O2) => /\ Chain(D, {x}, W, B, S, O2, I, n)
                                  /\ Chain(D, A, {x}, B, {x}, O2, I, n)
           /\ S = {} => Chain(D, W, {}, {}, S, O, I, n)
           /\ W = {} \/ A = {} => Chain(D \cup A, {}, W, B, S, O, I, n)
<1>1. ASSUME NEW S2 \in SUBSET (S \cup O), NEW O2 \in SUBSET O, Below(S2, O2)
      PROVE  Chain(D, A, W, B, S2, O2, I, n)
  BY <1>1 DEF Chain, Below
<1>2. ASSUME NEW x \in I, NEW I2 \in SUBSET I, Below({x}, I2)
      PROVE  Chain(D, A, W, B, S, O \cup {x}, I2, n)
  BY <1>2 DEF Chain, Below
<1>3. ASSUME NEW x \in S, NEW S2 \in SUBSET S, Below({x}, S2)
      PROVE  Chain(D, A, W, B \cup {x}, S2, O, I, n)
  BY <1>3 DEF Chain, Below
<1>4. ASSUME NEW x \in B, NEW B2 \in SUBSET B, Below({x}, B2)
      PROVE  Chain(D, {x}, W, B2, S, O, I, n)
  BY <1>4 DEF Chain, Below
<1>5. ASSUME B = {}, S = {}, NEW x \in O, NEW O2 \in SUBSET O, Below({x}, O2)
      PROVE  /\ Chain(D, {x}, W, B, S, O2, I, n)
             /\ Chain(D, A, {x}, B, {x}, O2, I, n)
  BY <1>5 DEF Chain, Below
<1>6. S = {} => Chain(D, W, {}, {}, S, O, I, n) BY DEF Chain, Below
<1>7. ASSUME W = {} \/ A = {} PROVE Chain(D \cup A, {}, W, B, S, O, I, n)
  BY <1>7 DEF Chain, Below
<1> QED BY <1>1, <1>2, <1>3, <1>4, <1>5, <1>6, <1>7

(* A frame that is past all others joins at the end.                       *)
LEMMA ChainTakes ==
    ASSUME NEW D, NEW A, NEW W, NEW B, NEW S, NEW O, NEW I, NEW n \in Nat,
           Chain(D, A, W, B, S, O, I, n - 1), n >= 1
    PROVE  /\ Chain(D, A, W, B, S, O, I \cup {n}, n)
           /\ Below(I, {n})
<1>1. \A x \in D \cup A \cup W \cup B \cup S \cup O \cup I :
          x \in 1..n /\ x < n
  BY DEF Chain
<1>2. D \cup A \cup W \cup B \cup S \cup O \cup (I \cup {n}) \subseteq 1..n
  BY <1>1
<1>3. /\ Below(O, I \cup {n}) /\ Below(S, O \cup (I \cup {n}))
      /\ Below(B, S \cup O \cup (I \cup {n}))
      /\ Below(W, O \cup (I \cup {n})) /\ Below(I, {n})
  BY <1>1 DEF Chain, Below
<1>4. Below(A, B \cup S \cup O \cup (I \cup {n})) BY <1>1 DEF Chain, Below
<1>5. Below(D, A \cup W \cup B \cup S \cup O \cup (I \cup {n}))
  BY <1>1 DEF Chain, Below
<1> QED BY <1>2, <1>3, <1>4, <1>5 DEF Chain

(* A transcoder pumps: frames go from the codec to the surface.            *)
LEMMA PumpOrders ==
    ASSUME SessionInv, SessionAssumption, ClientTypes, Ordered, Transcoder,
           PumpOk \/ PumpFails,
           UNCHANGED <<out, frames, pending_image, inq, back>>,
           Untaken' => Untaken,
           (\E st \in Statuses : Reply(st)) \/ reply' = NoReply
    PROVE  Ordered'
<1> DEFINE D == Delivered
           A == Answered
           W == Awaited
           B == Frames(back)
           I == Frames(inq)
<1>1. PumpEffect BY PumpDoes DEF SessionInv
<1>2. /\ Rising(inq) /\ Rising(outq) /\ Rising(surf) /\ Rising(back)
      /\ Chain(D, A, W, B, Frames(surf), Frames(outq), I, Limit)
  BY DEF Ordered
<1>3. Below(Frames(surf), Frames(outq)) BY <1>2 DEF Chain, Below
<1>4. /\ Frames(outq') \subseteq Frames(outq)
      /\ Frames(surf') \subseteq Frames(surf) \cup Frames(outq)
      /\ Rising(surf') /\ Rising(outq') /\ Below(Frames(surf'), Frames(outq'))
  BY <1>1, <1>2, <1>3 DEF PumpEffect
<1>5. Limit \in Int /\ Limit' \in Int /\ Limit <= Limit' BY LimitGrows
<1>6. Delivered' = D /\ Answered' = {} /\ Awaited' = W
  BY AnswersNone DEF Delivered, Awaited
<1> HIDE DEF D, A, W, B, I
<1>7. Chain(D, A, W, B, Frames(surf'), Frames(outq'), I, Limit)
  BY <1>2, <1>4, <1>5, ChainMoves
<1>8. Chain(D, {}, W, B, Frames(surf'), Frames(outq'), I, Limit')
  BY <1>5, <1>7, ChainShrinks
<1> QED BY <1>2, <1>4, <1>6, <1>8 DEF Ordered, B, I

(* A record is queued, or its buffer goes back empty.                      *)
LEMMA QueueOrders ==
    ASSUME SessionInv, ClientTypes, Ordered, UNCHANGED <<out, frames>>,
           Untaken => req.rec.pts = frames /\ frames > 0,
           QueueFails \/ QueueTakes
    PROVE  Ordered' /\ (Untaken' => Untaken)
<1> DEFINE D == Delivered
           A == Answered
           W == Awaited
           B == Frames(back)
           S == Frames(surf)
           O == Frames(outq)
           I == Frames(inq)
<1>1. /\ wpc = "take" /\ UNCHANGED <<req, pending_image, outq, surf, back>>
      /\ req.op \in {"input", "eos"} /\ reply = NoReply
  BY DEF QueueFails, QueueTakes, sessionFlags, SessionInv, Handshake
<1>2. (\E st \in {"ok", "error"} : Reply(st))
      \/ (wpc' = "pump" /\ reply' = NoReply)
  BY <1>1 DEF QueueFails, QueueTakes
<1>3. ~Untaken'
  <2>1. CASE \E st \in {"ok", "error"} : Reply(st)
    <3>1. PICK st \in {"ok", "error"} : Reply(st) BY <2>1
    <3>2. reply'.status \in {"ok", "error"} /\ wpc' = "idle"
      BY <3>1, ReplyParts DEF Statuses
    <3> QED BY <3>2 DEF Untaken
  <2>2. CASE wpc' = "pump" BY <2>2 DEF Untaken
  <2> QED BY <1>2, <2>1, <2>2
<1>4. Delivered' = D /\ Answered' = {} /\ Awaited' = W
  BY <1>1, <1>2, AnswersNone DEF Delivered, Awaited, Statuses
<1>5. Limit \in Int /\ Limit' \in Int /\ Limit <= Limit' BY <1>3, LimitGrows
<1>6. /\ Rising(inq) /\ Rising(outq) /\ Rising(surf) /\ Rising(back)
      /\ Chain(D, A, W, B, S, O, I, Limit)
  BY DEF Ordered
<1>7. PICK b \in Buffers :
         /\ inq' = Append(inq, b) \/ (inq' = inq /\ b.tag # "frame")
         /\ b.tag = "frame" => b = req.rec /\ Untaken
  <2> DEFINE e == Buffer("empty", 0, FALSE)
  <2>1. e \in Buffers /\ e.tag = "empty" BY BufferParts DEF Tags
  <2> HIDE DEF e
  <2>2. req.rec \in Buffers BY DEF SessionInv, WorkerTypes, Requests
  <2>3. req.rec.tag = "frame" => Untaken
    BY <1>1, NoneAndEos DEF Untaken, SessionInv, Handshake
  <2>4. \/ inq' = Append(inq, req.rec) \/ inq' = Append(inq, e) \/ inq' = inq
    BY DEF QueueFails, QueueTakes, e
  <2>5. CASE inq' = Append(inq, req.rec)
    BY <2>2, <2>3, <2>5
  <2>6. CASE inq' = Append(inq, e) \/ inq' = inq
    <3>1. e.tag # "frame" BY <2>1
    <3> QED BY <2>1, <2>6, <3>1
  <2> QED BY <2>4, <2>5, <2>6
<1>8. inq \in Seq(Buffers) BY DEF SessionInv, WorkerTypes
<1> HIDE DEF D, A, W, B, S, O
<1>9. CASE b.tag # "frame"
  <2>1. Rising(inq') /\ Frames(inq') = I
    BY <1>6, <1>7, <1>8, <1>9, AppendToQueue
  <2>2. Chain(D, {}, W, B, S, O, I, Limit')
    BY <1>5, <1>6, ChainShrinks
  <2> QED BY <1>1, <1>3, <1>4, <1>6, <2>1, <2>2 DEF Ordered, B, S, O
<1>10. CASE b.tag = "frame"
  <2>1. frames \in Nat /\ Limit = frames - 1 /\ Limit' = frames
    BY <1>3, <1>7, <1>10 DEF ClientTypes, Limit
  <2>2. b.pts = frames BY <1>7, <1>10
  <2>3. inq' = Append(inq, b) BY <1>7, <1>10
  <2>4. frames >= 1 BY <1>7, <1>10, <2>1
  <2>5. Chain(D, A, W, B, S, O, I \cup {frames}, frames) /\ Below(I, {frames})
    BY <1>6, <2>1, <2>4, ChainTakes
  <2>6. Frames(inq') = I \cup {frames} /\ Rising(inq')
    BY <1>6, <1>8, <1>10, <2>2, <2>3, <2>5, AppendToQueue
  <2>7. Chain(D, {}, W, B, S, O, I \cup {frames}, frames)
    BY <1>5, <2>1, <2>5, ChainShrinks
  <2> QED BY <1>1, <1>3, <1>4, <1>6, <2>1, <2>6, <2>7 DEF Ordered, B, S, O
<1> QED BY <1>9, <1>10

(* OUTPUT takes the next buffer, which may be a frame.                     *)
LEMMA RecordOrders ==
    ASSUME SessionInv, ClientTypes, Ordered, ~stray, UNCHANGED <<out, frames>>,
           OutputRecord
    PROVE  Ordered' /\ (Untaken' => Untaken)
<1> DEFINE D == Delivered
           A == Answered
           W == Awaited
           B == Frames(back)
           S == Frames(surf)
           O == Frames(outq)
           I == Frames(inq)
           h == Head(Output)
           t == Tail(Output)
<1>1. /\ wpc = "dequeue" /\ Output # <<>> /\ TakeOutput
      /\ kind = "decoder" => h.tag # "frame"
      /\ UNCHANGED <<req, pending_image, inq, surf>>
      /\ \/ ReplyRecord(h, h.pts)
         \/ \E st \in {"format", "error"} : Reply(st)
  BY DEF OutputRecord, sessionFlags
<1>2. req.op = "output" /\ reply = NoReply /\ pending_image = None
  BY <1>1 DEF SessionInv, Handshake, OnePicture
<1>3. Untaken' => Untaken BY <1>1, <1>2, StaysTaken
<1>4. Limit \in Int /\ Limit' \in Int /\ Limit <= Limit' BY <1>3, LimitGrows
<1>5. Delivered' = D /\ Awaited' = W BY <1>1 DEF Delivered, Awaited
<1>6. /\ Rising(inq) /\ Rising(outq) /\ Rising(surf) /\ Rising(back)
      /\ Chain(D, A, W, B, S, O, I, Limit)
  BY DEF Ordered
<1>7. Output \in Seq(Buffers) /\ Rising(Output)
  BY <1>6 DEF Output, SessionInv, WorkerTypes
<1>8. /\ h \in Buffers /\ Frames(t) \subseteq Frames(Output) /\ Rising(t)
      /\ h.tag = "frame" => /\ h.pts \in Frames(Output)
                            /\ Below({h.pts}, Frames(t))
  BY <1>1, <1>7, HeadOfQueue
<1>9. \/ Answered' = {}
      \/ h.tag = "frame" /\ kind # "decoder" /\ Answered' = {h.pts}
  <2>1. CASE \E st \in {"format", "error"} : Reply(st)
    BY <2>1, AnswersNone DEF Statuses
  <2>2. CASE ReplyRecord(h, h.pts)
    <3>1. h.pts \in Nat BY <1>8 DEF Buffers
    <3>2. reply'.status = "ok" /\ reply'.rec = h
      BY <1>8, <2>2, <3>1, ReplyRecordParts
    <3> QED BY <1>1, <3>2 DEF Answered
  <2> QED BY <1>1, <2>1, <2>2
<1>10. CASE Transcoder
  <2>1. Output = back /\ back' = t /\ outq' = outq
    BY <1>1, <1>10 DEF Output, TakeOutput
  <2> HIDE DEF D, A, W, S, O, I, h, t
  <2>2. CASE Answered' = {}
    <3>1. Chain(D, {}, W, Frames(t), S, O, I, Limit')
      BY <1>4, <1>6, <1>8, <2>1, ChainShrinks
    <3> QED BY <1>1, <1>3, <1>5, <1>6, <1>8, <2>1, <2>2, <3>1
            DEF Ordered, S, O, I
  <2>3. CASE h.tag = "frame" /\ Answered' = {h.pts}
    <3>1. h.pts \in B /\ Frames(t) \subseteq B /\ Below({h.pts}, Frames(t))
      BY <1>8, <2>1, <2>3
    <3> HIDE DEF B
    <3>2. Chain(D, {h.pts}, W, Frames(t), S, O, I, Limit)
      BY <1>4, <1>6, <3>1, ChainMoves
    <3>3. Chain(D, {h.pts}, W, Frames(t), S, O, I, Limit')
      BY <1>4, <3>2, ChainShrinks
    <3> QED BY <1>1, <1>3, <1>5, <1>6, <1>8, <2>1, <2>3, <3>3
            DEF Ordered, S, O, I
  <2> QED BY <1>9, <2>2, <2>3
<1>11. CASE ~Transcoder
  <2>1. Output = outq /\ outq' = t /\ back' = back
    BY <1>1, <1>11 DEF Output, TakeOutput
  <2>2. B = {} /\ S = {}
    <3>1. surf = <<>> /\ back = <<>>
      BY <1>2, <1>11 DEF OnePicture, Transcoder, SessionInv, WorkerTypes,
         SessionKinds
    <3> QED BY <3>1, EmptyQueue
  <2> HIDE DEF D, A, W, B, S, I, h, t
  <2>3. CASE Answered' = {}
    <3>1. Chain(D, {}, W, B, S, Frames(t), I, Limit')
      BY <1>4, <1>6, <1>8, <2>1, ChainShrinks
    <3> QED BY <1>1, <1>3, <1>5, <1>6, <1>8, <2>1, <2>3, <3>1
            DEF Ordered, B, S, I
  <2>4. CASE h.tag = "frame" /\ Answered' = {h.pts}
    <3>1. h.pts \in O /\ Frames(t) \subseteq O /\ Below({h.pts}, Frames(t))
      BY <1>8, <2>1, <2>4
    <3> HIDE DEF O
    <3>2. Chain(D, {h.pts}, W, B, S, Frames(t), I, Limit)
      BY <1>4, <1>6, <2>2, <3>1, ChainMoves
    <3>3. Chain(D, {h.pts}, W, B, S, Frames(t), I, Limit')
      BY <1>4, <3>2, ChainShrinks
    <3> QED BY <1>1, <1>3, <1>5, <1>6, <1>8, <2>1, <2>4, <3>3
            DEF Ordered, B, S, I
  <2> QED BY <1>9, <2>3, <2>4
<1> QED BY <1>3, <1>10, <1>11

(* OUTPUT renders a frame, whose picture it awaits.                        *)
LEMMA FrameOrders ==
    ASSUME SessionInv, ClientTypes, Ordered, ~stray, UNCHANGED <<out, frames>>,
           OutputFrame
    PROVE  Ordered' /\ (Untaken' => Untaken)
<1> DEFINE D == Delivered
           A == Answered
           W == Awaited
           B == Frames(back)
           S == Frames(surf)
           O == Frames(outq)
           I == Frames(inq)
           h == Head(outq)
           t == Tail(outq)
<1>1. /\ wpc = "dequeue" /\ outq # <<>> /\ kind = "decoder" /\ h.tag = "frame"
      /\ outq' = t /\ back' = back /\ UNCHANGED <<req, inq>>
      /\ \/ /\ pending_image' = h /\ surf' = Append(surf, h)
            /\ wpc' = "image" /\ reply' = reply
         \/ Reply("error") /\ pending_image' = pending_image /\ surf' = surf
  BY DEF OutputFrame, TakeOutput, Output, Transcoder
<1>2. req.op = "output" /\ reply = NoReply /\ pending_image = None
  BY <1>1 DEF SessionInv, Handshake, OnePicture
<1>3. Untaken' => Untaken BY <1>1, <1>2, StaysTaken
<1>4. Limit \in Int /\ Limit' \in Int /\ Limit <= Limit' BY <1>3, LimitGrows
<1>5. Delivered' = D /\ Answered' = {}
  BY <1>1, <1>2, AnswersNone DEF Delivered, Statuses
<1>6. /\ Rising(inq) /\ Rising(outq) /\ Rising(surf) /\ Rising(back)
      /\ Chain(D, A, W, B, S, O, I, Limit)
  BY DEF Ordered
<1>7. outq \in Seq(Buffers) /\ surf \in Seq(Buffers)
  BY DEF SessionInv, WorkerTypes
<1>8. /\ h \in Buffers /\ Frames(t) \subseteq O /\ Rising(t)
      /\ h.pts \in O /\ Below({h.pts}, Frames(t))
  BY <1>1, <1>6, <1>7, HeadOfQueue
<1>9. surf = <<>> /\ back = <<>> BY <1>1, <1>2 DEF SessionInv, OnePicture
<1>10. S = {} /\ B = {} BY <1>9, EmptyQueue
<1> HIDE DEF D, A, W, B, S, O, I, h, t
<1>11. CASE pending_image' = h /\ surf' = Append(surf, h)
  <2>1. h # None BY <1>1, NoneAndEos
  <2>2. Awaited' = {h.pts} BY <1>11, <2>1 DEF Awaited
  <2>3. Frames(surf') = {h.pts} /\ Rising(surf')
    <3>1. Below(Frames(surf), {h.pts}) BY <1>10 DEF Below, S
    <3>2. /\ Frames(surf') = Frames(surf) \cup {h.pts}
          /\ Rising(surf')
      BY <1>1, <1>6, <1>7, <1>8, <1>11, <3>1, AppendToQueue
    <3> QED BY <1>10, <3>2 DEF S
  <2>4. Chain(D, A, {h.pts}, B, {h.pts}, Frames(t), I, Limit)
    BY <1>4, <1>6, <1>8, <1>10, ChainMoves
  <2>5. Chain(D, {}, {h.pts}, B, {h.pts}, Frames(t), I, Limit')
    BY <1>4, <2>4, ChainShrinks
  <2> QED BY <1>1, <1>3, <1>5, <1>6, <1>8, <2>2, <2>3, <2>5 DEF Ordered, B, I
<1>12. CASE pending_image' = pending_image /\ surf' = surf
  <2>1. Awaited' = W BY <1>12 DEF Awaited, W
  <2>2. Chain(D, {}, W, B, S, Frames(t), I, Limit')
    BY <1>4, <1>6, <1>8, ChainShrinks
  <2> QED BY <1>1, <1>3, <1>5, <1>6, <1>8, <1>12, <2>1, <2>2
          DEF Ordered, B, S, I
<1> QED BY <1>1, <1>11, <1>12

(* The awaited picture is the answer, or lost.                             *)
LEMMA ImageOrders ==
    ASSUME SessionInv, ClientTypes, Ordered, ~stray, UNCHANGED <<out, frames>>,
           OutputImage
    PROVE  Ordered' /\ (Untaken' => Untaken)
<1> DEFINE D == Delivered
           A == Answered
           W == Awaited
           B == Frames(back)
           S == Frames(surf)
           O == Frames(outq)
           I == Frames(inq)
<1>1. /\ wpc = "image" /\ back # <<>> /\ back' = Tail(back)
      /\ UNCHANGED <<req, inq, outq, surf>>
      /\ \/ ReplyRecord(pending_image, Head(back).pts) /\ pending_image' = None
         \/ Reply("error") /\ pending_image' = pending_image
  BY DEF OutputImage
<1>2. /\ req.op = "output" /\ reply = NoReply /\ kind = "decoder"
      /\ pending_image # None /\ pending_image.tag = "frame"
  BY <1>1 DEF SessionInv, Handshake, OnePicture
<1>3. Untaken' => Untaken BY <1>1, <1>2, StaysTaken
<1>4. Limit \in Int /\ Limit' \in Int /\ Limit <= Limit' BY <1>3, LimitGrows
<1>5. Delivered' = D BY DEF Delivered
<1>6. /\ Rising(inq) /\ Rising(outq) /\ Rising(surf) /\ Rising(back)
      /\ Chain(D, A, W, B, S, O, I, Limit)
  BY DEF Ordered
<1>7. surf = <<>> /\ back = <<pending_image>>
  BY <1>1, <1>2 DEF SessionInv, OnePicture
<1>8. back' = <<>>
  <2>1. Tail(<<pending_image>>) = <<>> OBVIOUS
  <2> QED BY <1>1, <1>7, <2>1
<1>9. S = {} /\ Frames(back') = {} /\ Rising(back')
  BY <1>7, <1>8, EmptyQueue
<1>10. W = {pending_image.pts} BY <1>2 DEF Awaited
<1>11. \/ Answered' = W /\ Awaited' = {}
       \/ Answered' = {} /\ Awaited' = W
  <2>1. CASE Reply("error") /\ pending_image' = pending_image
    BY <2>1, AnswersNone DEF Awaited, Statuses
  <2>2. CASE ReplyRecord(pending_image, Head(back).pts) /\ pending_image' = None
    <3>1. pending_image \in Buffers /\ back \in Seq(Buffers)
      BY DEF SessionInv, WorkerTypes
    <3>2. Head(back) \in Buffers BY <1>1, <3>1, HeadOfQueue
    <3>3. Head(back).pts \in Nat BY <3>2 DEF Buffers
    <3>4. reply'.status = "ok" /\ reply'.rec = pending_image
      BY <2>2, <3>1, <3>3, ReplyRecordParts
    <3> QED BY <1>2, <1>10, <2>2, <3>4 DEF Answered, Awaited
  <2> QED BY <1>1, <2>1, <2>2
<1> HIDE DEF D, A, W, B, S, O, I
<1>12. Chain(D, W, {}, {}, S, O, I, Limit) BY <1>4, <1>6, <1>9, ChainMoves
<1>13. Chain(D, W, {}, {}, S, O, I, Limit') BY <1>4, <1>12, ChainShrinks
<1>14. Chain(D, {}, W, {}, S, O, I, Limit') BY <1>4, <1>6, ChainShrinks
<1> QED BY <1>1, <1>3, <1>5, <1>6, <1>9, <1>11, <1>13, <1>14
        DEF Ordered, S, O, I

(* Once it is closed the session has no frames.                            *)
LEMMA ClearOrders ==
    ASSUME SessionInv, ClientTypes, Ordered, UNCHANGED <<out, frames, req>>,
           ClearSession,
           \/ Reply("ok") /\ req.op # "input"
           \/ UNCHANGED <<reply, wpc>> /\ reply = NoReply /\ req = NoRequest
    PROVE  Ordered' /\ (Untaken' => Untaken)
<1>1. Answered' = {} BY AnswersNone DEF Statuses
<1>2. Awaited' = {} BY DEF Awaited, ClearSession
<1>3. req.op # "input" BY NoRecords
<1>4. Untaken' => Untaken BY <1>3 DEF Untaken
<1>5. inq' = <<>> /\ outq' = <<>> /\ surf' = <<>> /\ back' = <<>>
  BY DEF ClearSession
<1>6. /\ Rising(inq') /\ Frames(inq') \subseteq Frames(inq)
      /\ Rising(outq') /\ Frames(outq') \subseteq Frames(outq)
      /\ Rising(surf') /\ Frames(surf') \subseteq Frames(surf)
      /\ Rising(back') /\ Frames(back') \subseteq Frames(back)
  BY <1>5, EmptyQueue
<1> QED BY <1>1, <1>2, <1>4, <1>6, OrderedShrinks

(* Every step of the worker keeps a pipe's frames in order.                *)
LEMMA WorkerOrders ==
    ASSUME SessionInv, SessionAssumption, ClientTypes, mode = "pipe", PipeInv,
           WorkerStep, UNCHANGED clientVars
    PROVE  /\ UNCHANGED req /\ ~stray'
           /\ Ordered' /\ (Untaken' => Untaken)
<1>0. /\ UNCHANGED <<out, frames>> /\ Ordered /\ ~stray /\ req.op # "flush"
      /\ Untaken => req.rec.pts = frames /\ frames > 0
  BY DEF clientVars, PipeInv
<1> USE <1>0
<1>1. CASE DispatchCreate \/ RunCreate \/ CreateReplies \/ UnknownSession
           \/ KeyframeOrStats \/ QueueAgain \/ OutputAgain \/ ImageMissing
  <2>1. UNCHANGED <<req, pending_image, inq, outq, surf, back, stray>>
    BY <1>1 DEF DispatchCreate, RunCreate, CreateReplies, UnknownSession,
       KeyframeOrStats, QueueAgain, OutputAgain, ImageMissing, sessionVars,
       sessionFlags, platform, queues
  <2>2. reply = NoReply
    BY <1>1 DEF DispatchCreate, RunCreate, CreateReplies, UnknownSession,
       KeyframeOrStats, QueueAgain, OutputAgain, ImageMissing, Dispatch,
       Serving, SessionInv, Handshake
  <2>3. wpc \in {"idle", "take"} \/ req.op # "input"
    BY <1>1 DEF DispatchCreate, RunCreate, CreateReplies, UnknownSession,
       KeyframeOrStats, QueueAgain, OutputAgain, ImageMissing, Dispatch,
       Serving, SessionInv, Handshake
  <2>4. (\E st \in {"ok", "again", "error"} : Reply(st)) \/ UNCHANGED reply
    BY <1>1 DEF DispatchCreate, RunCreate, CreateReplies, UnknownSession,
       KeyframeOrStats, QueueAgain, OutputAgain, ImageMissing, sessionVars
  <2>5. (\E st \in Statuses : Reply(st)) \/ reply' = NoReply
    BY <2>2, <2>4 DEF Statuses
  <2>6. Untaken' => Untaken BY <2>1, <2>2, <2>3, StaysTaken
  <2> QED BY <2>1, <2>5, <2>6, TurnOrders
<1>2. CASE QueueStarts \/ OutputStarts \/ QueueEnds
  <2>1. UNCHANGED <<req, pending_image, inq, back, stray>>
    BY <1>2 DEF QueueStarts, OutputStarts, QueueEnds
  <2>2. reply = NoReply
    BY <1>2 DEF QueueStarts, OutputStarts, QueueEnds, Dispatch, Serving,
       SessionInv, Handshake
  <2>3. (\E st \in {"ok", "error"} : Reply(st)) \/ (UNCHANGED reply /\ wpc # "pump")
    BY <1>2 DEF QueueStarts, OutputStarts, QueueEnds, Dispatch
  <2>4. (\E st \in Statuses : Reply(st)) \/ reply' = NoReply
    BY <2>2, <2>3 DEF Statuses
  <2>5. Untaken' => Untaken
    <3>1. CASE QueueStarts \/ OutputStarts
      BY <2>1, <2>2, <3>1, StaysTaken DEF QueueStarts, OutputStarts, Dispatch
    <3>2. CASE QueueEnds
      <4>1. PICK st \in {"ok", "error"} : Reply(st) BY <3>2 DEF QueueEnds
      <4>2. reply'.status \in {"ok", "error"} /\ wpc' = "idle"
        BY <4>1, ReplyParts DEF Statuses
      <4> QED BY <2>1, <2>2, <4>2, StaysTaken
    <3> QED BY <1>2, <3>1, <3>2
  <2>6. CASE NoPump
    BY <2>1, <2>4, <2>5, <2>6, TurnOrders DEF NoPump
  <2>7. CASE Transcoder /\ (PumpOk \/ PumpFails)
    BY <2>1, <2>4, <2>5, <2>7, PumpOrders
  <2>8. NoPump \/ (Transcoder /\ (PumpOk \/ PumpFails))
    BY <1>2 DEF QueueStarts, OutputStarts, QueueEnds, SessionInv, OnePicture
  <2> QED BY <2>1, <2>5, <2>6, <2>7, <2>8
<1>3. CASE QueueFails \/ QueueTakes
  <2>1. UNCHANGED <<req, stray>> BY <1>3 DEF QueueFails, QueueTakes
  <2> QED BY <1>3, <2>1, QueueOrders
<1>4. CASE OutputRecord \/ OutputFrame \/ OutputImage
  <2>1. UNCHANGED <<req, stray>>
    BY <1>4 DEF OutputRecord, OutputFrame, OutputImage
  <2> QED BY <1>4, <2>1, RecordOrders, FrameOrders, ImageOrders
<1>5. CASE Flush \/ FlushFails
  BY <1>5 DEF Flush, FlushFails, Dispatch, Serving
<1>6. CASE Close
  <2>1. /\ UNCHANGED req /\ ClearSession /\ Reply("ok") /\ req.op = "close"
    BY <1>6 DEF Close, Dispatch, Serving
  <2>2. ~stray' BY <2>1 DEF ClearSession
  <2> QED BY <2>1, <2>2, ClearOrders
<1> QED BY <1>1, <1>2, <1>3, <1>4, <1>5, <1>6 DEF WorkerStep

(* The codec works off a frame, or drops it.                               *)
LEMMA InputOrders ==
    ASSUME SessionInv, ClientTypes, Ordered, UNCHANGED <<out, frames>>,
           PlatformQuiet, ProcessInput
    PROVE  Ordered'
<1> DEFINE D == Delivered
           A == Answered
           W == Awaited
           B == Frames(back)
           S == Frames(surf)
           O == Frames(outq)
           I == Frames(inq)
           h == Head(inq)
           t == Tail(inq)
<1>1. /\ inq # <<>> /\ inq' = t /\ UNCHANGED <<surf, back>>
      /\ \/ outq' = outq
         \/ outq' = Append(outq, h) /\ h.tag = "frame"
         \/ outq' \in WithEos(outq) /\ h.tag = "eos"
  BY DEF ProcessInput
<1>2. /\ Delivered' = D /\ Answered' = A /\ Awaited' = W /\ Limit' = Limit
  BY DEF PlatformQuiet, Delivered, Answered, Awaited, Limit, Untaken
<1>3. Limit \in Int BY LimitGrows, <1>2 DEF PlatformQuiet, Untaken
<1>4. /\ Rising(inq) /\ Rising(outq) /\ Rising(surf) /\ Rising(back)
      /\ Chain(D, A, W, B, S, O, I, Limit)
  BY DEF Ordered
<1>5. inq \in Seq(Buffers) /\ outq \in Seq(Buffers)
  BY DEF SessionInv, WorkerTypes
<1>6. /\ h \in Buffers /\ Frames(t) \subseteq I /\ Rising(t)
      /\ h.tag = "frame" => h.pts \in I /\ Below({h.pts}, Frames(t))
  BY <1>1, <1>4, <1>5, HeadOfQueue
<1> HIDE DEF D, A, W, B, S, O, I, h, t
<1>7. CASE outq' = Append(outq, h) /\ h.tag = "frame"
  <2>1. Chain(D, A, W, B, S, O \cup {h.pts}, Frames(t), Limit)
    BY <1>3, <1>4, <1>6, <1>7, ChainMoves
  <2>2. Below(O, {h.pts}) BY <1>4, <1>6, <1>7 DEF Chain, Below
  <2>3. Frames(outq') = O \cup {h.pts} /\ Rising(outq')
    BY <1>4, <1>5, <1>6, <1>7, <2>2, AppendToQueue DEF O
  <2> QED BY <1>1, <1>2, <1>4, <1>6, <2>1, <2>3 DEF Ordered, B, S
<1>8. CASE outq' = outq \/ outq' \in WithEos(outq)
  <2>1. Frames(outq') = O /\ Rising(outq')
    BY <1>4, <1>5, <1>8, EndQueue DEF O
  <2>2. Chain(D, A, W, B, S, O, Frames(t), Limit)
    BY <1>3, <1>4, <1>6, ChainShrinks
  <2> QED BY <1>1, <1>2, <1>4, <1>6, <2>1, <2>2 DEF Ordered, B, S
<1> QED BY <1>1, <1>7, <1>8

(* A rendered frame arrives at the reader or the encoder.                  *)
LEMMA SurfaceOrders ==
    ASSUME SessionInv, ClientTypes, Ordered, UNCHANGED <<out, frames>>,
           PlatformQuiet, ProcessSurface
    PROVE  Ordered'
<1> DEFINE D == Delivered
           A == Answered
           W == Awaited
           B == Frames(back)
           S == Frames(surf)
           O == Frames(outq)
           I == Frames(inq)
           h == Head(surf)
           t == Tail(surf)
<1>1. /\ surf # <<>> /\ surf' = t /\ UNCHANGED <<inq, outq>>
      /\ back' = Append(back, h) \/ back' \in WithEos(back)
  BY DEF ProcessSurface
<1>2. /\ Delivered' = D /\ Answered' = A /\ Awaited' = W /\ Limit' = Limit
  BY DEF PlatformQuiet, Delivered, Answered, Awaited, Limit, Untaken
<1>3. Limit \in Int BY LimitGrows, <1>2 DEF PlatformQuiet, Untaken
<1>4. /\ Rising(inq) /\ Rising(outq) /\ Rising(surf) /\ Rising(back)
      /\ Chain(D, A, W, B, S, O, I, Limit)
  BY DEF Ordered
<1>5. surf \in Seq(Buffers) /\ back \in Seq(Buffers)
  BY DEF SessionInv, WorkerTypes
<1>6. /\ h \in Buffers /\ Frames(t) \subseteq S /\ Rising(t)
      /\ h.tag = "frame" => h.pts \in S /\ Below({h.pts}, Frames(t))
  BY <1>1, <1>4, <1>5, HeadOfQueue
<1> HIDE DEF D, A, W, B, S, O, I, h, t
<1>7. CASE back' = Append(back, h) /\ h.tag = "frame"
  <2>1. Chain(D, A, W, B \cup {h.pts}, Frames(t), O, I, Limit)
    BY <1>3, <1>4, <1>6, <1>7, ChainMoves
  <2>2. Below(B, {h.pts}) BY <1>4, <1>6, <1>7 DEF Chain, Below
  <2>3. Frames(back') = B \cup {h.pts} /\ Rising(back')
    BY <1>4, <1>5, <1>6, <1>7, <2>2, AppendToQueue DEF B
  <2> QED BY <1>1, <1>2, <1>4, <1>6, <2>1, <2>3 DEF Ordered, O, I
<1>8. CASE (back' = Append(back, h) /\ h.tag # "frame") \/ back' \in WithEos(back)
  <2>1. Frames(back') = B /\ Rising(back')
    <3>1. CASE back' = Append(back, h) /\ h.tag # "frame"
      BY <1>4, <1>5, <1>6, <3>1, AppendToQueue DEF B
    <3>2. CASE back' \in WithEos(back) BY <1>4, <1>5, <3>2, EndQueue DEF B
    <3> QED BY <1>8, <3>1, <3>2
  <2>2. Chain(D, A, W, B, Frames(t), O, I, Limit)
    BY <1>3, <1>4, <1>6, ChainShrinks
  <2> QED BY <1>1, <1>2, <1>4, <1>6, <2>1, <2>2 DEF Ordered, O, I
<1> QED BY <1>1, <1>7, <1>8

(* Every step of the platform keeps the frames in order.                   *)
LEMMA PlatformOrders ==
    ASSUME SessionInv, ClientTypes, Ordered, PlatformStep \/ CodecBreaks,
           UNCHANGED clientVars
    PROVE  /\ UNCHANGED <<req, stray>>
           /\ Ordered' /\ (Untaken' => Untaken)
<1>1. PlatformQuiet
  BY DEF PlatformQuiet, PlatformStep, AnnounceFormat, ProcessInput,
         ProcessSurface, CodecBreaks, createVars, sessionFlags, clientVars
<1>2. UNCHANGED <<out, frames>> BY DEF clientVars
<1>3. Untaken' => Untaken BY <1>1 DEF PlatformQuiet, Untaken
<1>4. Answered' = Answered /\ Awaited' = Awaited
  BY <1>1 DEF PlatformQuiet, Answered, Awaited
<1>5. Rising(inq) /\ Rising(outq) /\ Rising(surf) /\ Rising(back)
  BY DEF Ordered
<1>6. ASSUME AnnounceFormat PROVE Ordered'
  <2>1. PICK c \in {<<>>, <<Buffer("config", 0, FALSE)>>} :
          /\ UNCHANGED <<inq, surf>>
          /\ \/ outq' = outq /\ back' = <<Buffer("format", 0, FALSE)>> \o c
             \/ back' = back /\ outq' = <<Buffer("format", 0, FALSE)>> \o c
    BY <1>6 DEF AnnounceFormat
  <2> DEFINE first == <<Buffer("format", 0, FALSE)>> \o c
  <2>2. Frames(first) = {} /\ Rising(first) BY FirstBuffers
  <2> HIDE DEF first
  <2>3. /\ UNCHANGED <<inq, surf>>
        /\ outq' \in {outq, first} /\ back' \in {back, first}
    BY <2>1 DEF first
  <2> QED BY <1>2, <1>3, <1>4, <1>5, <2>2, <2>3, OrderedShrinks
<1>7. ASSUME CodecBreaks PROVE Ordered'
  <2>1. UNCHANGED <<inq, outq, surf, back>> BY <1>7 DEF CodecBreaks, queues
  <2> QED BY <1>2, <1>3, <1>4, <1>5, <2>1, OrderedShrinks
<1>8. ASSUME ProcessInput \/ ProcessSurface PROVE Ordered'
  BY <1>1, <1>2, <1>8, InputOrders, SurfaceOrders
<1>9. Ordered' BY <1>6, <1>7, <1>8 DEF PlatformStep
<1> QED BY <1>1, <1>3, <1>9 DEF PlatformQuiet

(* A step of the pipe asks for something else, or offers the same record   *)
(* again, or the next one: what is past the request does not shrink.       *)
LEMMA PipeAsks ==
    ASSUME SessionInv, ClientTypes, PipeInv, mode = "pipe", PipeStep
    PROVE  /\ Quiet /\ reply' = NoReply /\ req'.op # "flush"
           /\ Untaken' => req'.rec.pts = frames' /\ frames' > 0
           /\ Limit \in Int /\ Limit' \in Int /\ Limit <= Limit'
<1> DEFINE Goal == /\ Untaken' => req'.rec.pts = frames' /\ frames' > 0
                   /\ Limit \in Int /\ Limit' \in Int /\ Limit <= Limit'
<1>1. Quiet
  BY DEF PipeStep, PipeStart, PipeCreated, PipeKeyframe, PipeRead, PipeInput,
         PipeEos, PipeDrain, PipeFinal, PipeStats, PipeClosed
<1>2. reply' = NoReply
  BY DEF PipeStep, PipeStart, PipeCreated, PipeKeyframe, PipeRead, PipeInput,
         PipeEos, PipeDrain, PipeFinal, PipeStats, PipeClosed, Send, Proceed,
         Abandon
<1>3. frames \in Nat /\ Limit \in Int /\ Limit <= frames
  BY DEF ClientTypes, Limit
<1>4. ASSUME req'.op # "input", UNCHANGED frames PROVE Goal
  <2>1. ~Untaken' BY <1>4 DEF Untaken
  <2>2. Limit' = frames BY <1>4, <2>1 DEF Limit
  <2> QED BY <1>3, <2>1, <2>2
<1>5. CASE PipeRead
  <2>1. req = NoRequest BY <1>5 DEF PipeRead, SessionInv, Handshake
  <2>2. CASE Send("eos", "eos", Eos) /\ UNCHANGED frames
    BY <1>1, <1>2, <1>4, <2>2 DEF Send
  <2>3. CASE Abandon /\ UNCHANGED frames
    BY <1>1, <1>2, <1>4, <2>3 DEF Send, Abandon
  <2>4. ASSUME NEW tag \in {"frame", "config", "invalid"},
               frames' = frames + IF tag = "frame" THEN 1 ELSE 0,
               Send("input", "input", Buffer(tag, frames', FALSE))
        PROVE  Goal /\ req'.op # "flush"
    <3>1. frames' \in Nat BY <1>3, <2>4
    <3>2. tag \in Tags BY DEF Tags
    <3>3. req'.op = "input" /\ req'.rec.tag = tag /\ req'.rec.pts = frames'
      BY <2>4, <3>1, <3>2, BufferParts DEF Send
    <3>4. CASE tag = "frame"
      <4>1. frames' = frames + 1 BY <2>4, <3>4
      <4>2. Limit' \in {frames', frames' - 1} BY DEF Limit
      <4>3. Limit <= Limit' /\ Limit' \in Int /\ frames' > 0
        BY <1>3, <4>1, <4>2
      <4> QED BY <1>3, <3>3, <4>3
    <3>5. CASE tag # "frame"
      <4>1. ~Untaken' BY <3>3, <3>5 DEF Untaken
      <4>2. frames' = frames BY <1>3, <2>4, <3>5
      <4>3. Limit' = frames BY <4>1, <4>2 DEF Limit
      <4> QED BY <1>3, <3>3, <4>1, <4>3
    <3> QED BY <3>4, <3>5
  <2> QED BY <1>1, <1>2, <1>5, <2>2, <2>3, <2>4, ReadRecord
<1>6. CASE PipeInput
  <2>1. UNCHANGED frames /\ req.op = "input"
    BY <1>6 DEF PipeInput, SessionInv, Handshake
  <2>2. CASE Send("drain", "output", None)
    BY <1>1, <1>2, <1>4, <2>1, <2>2 DEF Send
  <2>3. CASE Abandon BY <1>1, <1>2, <1>4, <2>1, <2>3 DEF Send, Abandon
  <2>4. CASE Answers("again") /\ Send("input", "input", req.rec)
    <3>1. req' = [op |-> "input", rec |-> req.rec] BY <2>4 DEF Send
    <3>2. req'.op = "input" /\ req'.rec = req.rec BY <3>1
    <3>3. Untaken' => Untaken
      <4>1. wpc = "idle" /\ reply.status = "again"
        BY <2>4, NoRecords DEF Answers, SessionInv, Handshake
      <4> QED BY <2>1, <3>2, <4>1 DEF Untaken
    <3>4. Limit \in Int /\ Limit' \in Int /\ Limit <= Limit'
      BY <2>1, <3>3, LimitGrows
    <3> QED BY <1>1, <1>2, <2>1, <3>2, <3>3, <3>4 DEF PipeInv
  <2> QED BY <1>6, <2>2, <2>3, <2>4 DEF PipeInput
<1>7. CASE PipeStart \/ PipeCreated \/ PipeKeyframe \/ PipeEos \/ PipeDrain
           \/ PipeFinal \/ PipeStats \/ PipeClosed
  <2>1. UNCHANGED frames /\ req'.op \notin {"input", "flush"}
    BY <1>7, NoRecords DEF PipeStart, PipeCreated, PipeKeyframe, PipeEos,
       PipeDrain, PipeFinal, PipeStats, PipeClosed, Send, Proceed, Abandon
  <2> QED BY <1>1, <1>2, <1>4, <2>1
<1> QED BY <1>5, <1>6, <1>7 DEF PipeStep

(* A frame that is written comes after all others, with its own picture.   *)
LEMMA WrittenInOrder ==
    ASSUME ClientTypes, reply \in Replies, Written, OutGaps,
           Below(Delivered, Answered),
           reply.rec.tag = "frame" => reply.img = reply.rec.pts
    PROVE  /\ Delivered' = Delivered \/ Delivered' = Delivered \cup Answered
           /\ OutGaps'
<1>1. CASE out' = out BY <1>1 DEF Delivered, OutGaps
<1>2. CASE reply.rec.tag = "frame"
           /\ out' = Append(out, [pts |-> reply.rec.pts, img |-> reply.img])
  <2> DEFINE r == [pts |-> reply.rec.pts, img |-> reply.img]
             n == Len(out)
             x == reply.rec.pts
  <2>1. r \in OutRecord /\ r.pts = x /\ r.img = x
    BY <1>2 DEF Replies, Buffers, OutRecord
  <2>2. out \in Seq(OutRecord) BY DEF ClientTypes
  <2>3. /\ x \in Nat /\ n \in Nat /\ DOMAIN out = 1..n
        /\ \A i \in 1..n : out[i].pts \in Nat
    <3>1. x \in Nat BY DEF Replies, Buffers
    <3>2. n \in Nat /\ DOMAIN out = 1..n BY <2>2
    <3>3. \A i \in 1..n : out[i] \in OutRecord BY <2>2, ElementOfSeq
    <3> QED BY <3>1, <3>2, <3>3 DEF OutRecord
  <2>4. Answered = {x} BY <1>2 DEF Answered, Written, Answers
  <2>5. \A i \in 1..n : out[i].pts < x
    BY <2>3, <2>4 DEF Below, Delivered
  <2> HIDE DEF r, x
  <2>6. out' = Append(out, r) BY <1>2 DEF r
  <2>7. /\ DOMAIN out' = 1..(n + 1) /\ out'[n + 1] = r
        /\ \A i \in 1..n : out'[i] = out[i]
    <3>1. /\ out' \in Seq(OutRecord) /\ Len(out') = n + 1
          /\ \A i \in 1..n : out'[i] = out[i]
          /\ out'[n + 1] = r
      BY <2>1, <2>2, <2>6, AppendProperties
    <3>2. DOMAIN out' = 1..Len(out') BY <3>1
    <3> QED BY <3>1, <3>2
  <2>8. Delivered' = Delivered \cup {x}
    <3>1. Delivered = {out[i].pts : i \in 1..n} BY <2>3 DEF Delivered
    <3>2. Delivered' = {out'[i].pts : i \in 1..(n + 1)}
      BY <2>7 DEF Delivered
    <3>3. 1..(n + 1) = 1..n \cup {n + 1} BY <2>3
    <3> HIDE DEF n
    <3> QED BY <2>1, <2>7, <3>1, <3>2, <3>3
  <2>9. ASSUME NEW i \in DOMAIN out' PROVE out'[i].img = out'[i].pts
    <3>1. CASE i = n + 1 BY <2>1, <2>7, <3>1
    <3>2. CASE i # n + 1
      <4>1. i \in 1..n BY <2>3, <2>7, <3>2
      <4> QED BY <2>3, <2>7, <4>1 DEF OutGaps
    <3> QED BY <3>1, <3>2
  <2>10. ASSUME NEW i \in DOMAIN out', NEW j \in DOMAIN out', i < j
         PROVE  j - i <= out'[j].pts - out'[i].pts
    <3>1. i \in 1..n /\ out'[i] = out[i] BY <2>3, <2>7, <2>10
    <3>2. CASE j = n + 1
      <4>1. out'[j].pts = x BY <2>1, <2>7, <3>2
      <4>2. n \in 1..n /\ out[n].pts < x /\ out[n].pts \in Nat
        <5>1. n \in 1..n BY <2>3, <3>1
        <5> QED BY <2>3, <2>5, <5>1
      <4>3. n - i <= out[n].pts - out[i].pts
        <5>1. CASE i = n BY <2>3, <3>1, <4>2, <5>1
        <5>2. CASE i # n
          <6>1. i < n BY <2>3, <3>1, <5>2
          <6> QED BY <2>3, <3>1, <4>2, <6>1 DEF OutGaps
        <5> QED BY <5>1, <5>2
      <4>4. out[i].pts \in Nat BY <2>3, <3>1
      <4> QED BY <2>3, <3>1, <3>2, <4>1, <4>2, <4>3, <4>4
    <3>3. CASE j # n + 1
      <4>1. j \in 1..n /\ out'[j] = out[j] BY <2>3, <2>7, <3>3
      <4> QED BY <2>3, <2>10, <3>1, <4>1 DEF OutGaps
    <3> QED BY <3>2, <3>3
  <2> QED BY <2>4, <2>8, <2>9, <2>10 DEF OutGaps
<1> QED BY <1>1, <1>2, WrittenOut

(* The exit status: 0 only after the whole stream.                         *)
LEMMA PipeJudges ==
    ASSUME ClientTypes, Judged, mode = "pipe", PipeStep
    PROVE  Judged'
<1> USE DEF Send, Proceed, Abandon
<1>1. CASE PipeStart \/ PipeCreated \/ PipeKeyframe \/ PipeInput \/ PipeEos
  BY <1>1 DEF PipeStart, PipeCreated, PipeKeyframe, PipeInput, PipeEos, Judged
<1>2. CASE PipeRead
  <2>1. pc' \in {"eos", "input"} \/ result' = 1 BY <1>2 DEF PipeRead
  <2> QED BY <2>1 DEF Judged
<1>3. CASE PipeDrain
  <2>1. pc' \in {"read", "drain"} \/ result' = 1 BY <1>3 DEF PipeDrain
  <2> QED BY <2>1 DEF Judged
<1>4. CASE PipeFinal
  <2>1. /\ UNCHANGED frames
        /\ \/ pc' = "final" \/ result' = 1
           \/ Complete(Len(out'), saw_eos')
    BY <1>4 DEF PipeFinal
  <2>2. frames \in Nat BY DEF ClientTypes
  <2> QED BY <2>1, <2>2 DEF Judged, Complete
<1>5. CASE PipeStats \/ PipeClosed
  BY <1>5 DEF PipeStats, PipeClosed, Judged
<1> QED BY <1>1, <1>2, <1>3, <1>4, <1>5 DEF PipeStep

(* Every step of the pipe keeps what holds of its frames.                  *)
LEMMA PipeOrders ==
    ASSUME SessionInv, ClientTypes, PipeInv, mode = "pipe", PipeStep
    PROVE  PipeInv'
<1> DEFINE D == Delivered
           A == Answered
           W == Awaited
           B == Frames(back)
           S == Frames(surf)
           O == Frames(outq)
           I == Frames(inq)
<1>1. /\ Quiet /\ reply' = NoReply /\ req'.op # "flush"
      /\ Untaken' => req'.rec.pts = frames' /\ frames' > 0
      /\ Limit \in Int /\ Limit' \in Int /\ Limit <= Limit'
  BY PipeAsks
<1>2. /\ ~stray /\ Ordered /\ OutGaps /\ Judged BY DEF PipeInv
<1>3. UNCHANGED <<mode, stray, pending_image, inq, outq, surf, back>>
  BY <1>1 DEF Quiet, sessionFlags, platform, queues
<1>4. out' = out \/ Written
  BY DEF PipeStep, PipeStart, PipeCreated, PipeKeyframe, PipeRead, PipeInput,
         PipeEos, PipeDrain, PipeFinal, PipeStats, PipeClosed
<1>5. /\ Rising(inq) /\ Rising(outq) /\ Rising(surf) /\ Rising(back)
      /\ Chain(D, A, W, B, S, O, I, Limit)
  BY <1>2 DEF Ordered
<1>6. Answered' = {} /\ Awaited' = W
  BY <1>1, <1>3, AnswersNone DEF Awaited
<1>7. W = {} \/ A = {}
  BY <1>2 DEF Awaited, Answered, SessionInv, OnePicture
<1>8. (Delivered' = D \/ Delivered' = D \cup A) /\ OutGaps'
  <2>1. CASE out' = out BY <1>2, <2>1 DEF Delivered, OutGaps
  <2>2. CASE Written
    <3>1. Below(D, A) BY <1>5 DEF Chain, Below
    <3>2. reply \in Replies BY DEF SessionInv, WorkerTypes
    <3>3. reply.rec.tag = "frame" => reply.img = reply.rec.pts
      BY <1>2, <2>2 DEF Written, Answers, SessionInv, OnePicture
    <3> QED BY <1>2, <2>2, <3>1, <3>2, <3>3, WrittenInOrder
  <2> QED BY <1>4, <2>1, <2>2
<1>9. Judged' BY <1>2, PipeJudges
<1> HIDE DEF D, A, W, B, S, O, I
<1>10. Chain(D \cup A, {}, W, B, S, O, I, Limit) BY <1>1, <1>5, <1>7, ChainMoves
<1>11. Chain(Delivered', {}, W, B, S, O, I, Limit')
  <2>1. Delivered' \subseteq D \cup A BY <1>8
  <2> QED BY <1>1, <1>10, <2>1, ChainShrinks
<1>12. Ordered' BY <1>3, <1>5, <1>6, <1>11 DEF Ordered, B, S, O, I
<1> QED BY <1>1, <1>2, <1>3, <1>8, <1>9, <1>12 DEF PipeInv

(* Every step keeps what holds of a pipe.                                  *)
LEMMA StepPipe ==
    ASSUME SessionInv, ClientTypes, PipeInv, SessionAssumption, [Next]_vars
    PROVE  PipeInv'
<1>1. CASE mode # "pipe"
  <2>1. UNCHANGED mode
    BY DEF Next, Over, vars, clientVars, WorkerCloses, PipeStep, PipeStart,
       PipeCreated, PipeKeyframe, PipeRead, PipeInput, PipeEos, PipeDrain,
       PipeFinal, PipeStats, PipeClosed, ProtocolStep, ProtocolRequest,
       ProtocolReply, ProtocolClose, Quiet
  <2> QED BY <1>1, <2>1 DEF PipeInv
<1>2. CASE mode = "pipe"
  <2>1. /\ Ordered /\ OutGaps /\ Judged /\ ~stray /\ req.op # "flush"
        /\ Untaken => req.rec.pts = frames /\ frames > 0
    BY <1>2 DEF PipeInv
  <2>2. ASSUME UNCHANGED clientVars, UNCHANGED req, ~stray', Ordered',
               Untaken' => Untaken
        PROVE  PipeInv'
    <3>1. UNCHANGED <<mode, pc, frames, out, saw_eos, result>>
      BY <2>2 DEF clientVars
    <3>2. OutGaps' /\ Judged' BY <2>1, <3>1 DEF OutGaps, Judged
    <3> QED BY <2>1, <2>2, <3>1, <3>2 DEF PipeInv
  <2>3. CASE PipeStep BY <1>2, <2>3, PipeOrders
  <2>4. CASE ProtocolStep
    BY <1>2, <2>4 DEF ProtocolStep, ProtocolRequest, ProtocolReply,
       ProtocolClose, SessionInv, Handshake
  <2>5. CASE WorkerStep /\ UNCHANGED clientVars
    BY <1>2, <2>2, <2>5, WorkerOrders
  <2>6. CASE (PlatformStep \/ CodecBreaks) /\ UNCHANGED clientVars
    BY <2>1, <2>2, <2>6, PlatformOrders
  <2>7. CASE WorkerCloses
    <3>1. /\ UNCHANGED clientVars /\ UNCHANGED <<req, reply, wpc>>
          /\ ClearSession /\ pc = "done"
      BY <2>7 DEF WorkerCloses
    <3>2. reply = NoReply /\ req = NoRequest
      BY <3>1 DEF SessionInv, Handshake
    <3>3. UNCHANGED <<out, frames>> /\ ~stray'
      BY <3>1 DEF clientVars, ClearSession
    <3> QED BY <2>1, <2>2, <3>1, <3>2, <3>3, ClearOrders
  <2>8. CASE UNCHANGED vars
    <3>1. /\ UNCHANGED clientVars
          /\ UNCHANGED <<req, reply, wpc, stray, pending_image,
                         inq, outq, surf, back, out, frames>>
      BY <2>8 DEF vars, sessionVars, sessionFlags, platform, queues, clientVars
    <3>2. /\ Untaken' <=> Untaken
          /\ Answered' = Answered /\ Awaited' = Awaited
      BY <3>1 DEF Untaken, Answered, Awaited
    <3>3. Rising(inq) /\ Rising(outq) /\ Rising(surf) /\ Rising(back)
      BY <2>1 DEF Ordered
    <3>4. Ordered' BY <2>1, <3>1, <3>2, <3>3, OrderedShrinks
    <3> QED BY <2>1, <2>2, <3>1, <3>2, <3>4
  <2> QED BY <2>3, <2>4, <2>5, <2>6, <2>7, <2>8 DEF Next, Over
<1> QED BY <1>1, <1>2

(* A pipe starts with nothing on its way.                                  *)
LEMMA InitPipe ==
    ASSUME Init PROVE PipeInv
<1>1. /\ req = NoRequest /\ reply = NoReply /\ pending_image = None /\ ~stray
      /\ inq = <<>> /\ outq = <<>> /\ surf = <<>> /\ back = <<>>
      /\ out = <<>> /\ pc = "start"
  BY DEF Init, SessionInit
<1>2. req.op = "none" /\ ~Untaken BY <1>1, NoRecords DEF Untaken
<1>3. Answered = {} /\ Awaited = {} BY <1>1, NoneAnswered DEF Awaited
<1>4. \A i \in DOMAIN out : FALSE BY <1>1
<1>5. Delivered = {} BY <1>4 DEF Delivered
<1>6. OutGaps BY <1>4 DEF OutGaps
<1>7. Judged BY <1>1 DEF Judged
<1>8. Chain({}, {}, {}, {}, {}, {}, {}, Limit) BY DEF Chain, Below
<1>9. Ordered BY <1>1, <1>3, <1>5, <1>8, EmptyQueue DEF Ordered
<1> QED BY <1>1, <1>2, <1>6, <1>7, <1>9 DEF PipeInv

(* As many records as frames, each a gap apart at least and none past the  *)
(* last frame: every frame is there, once and in order.                    *)
LEMMA NoGapLeft ==
    ASSUME ClientTypes, OutGaps, Delivered \subseteq 1..frames,
           Len(out) = frames
    PROVE  out = [i \in 1..frames |-> [pts |-> i, img |-> i]]
<1>1. frames \in Nat /\ out \in Seq(OutRecord) BY DEF ClientTypes
<1>2. DOMAIN out = 1..frames BY <1>1
<1>3. ASSUME NEW i \in 1..frames PROVE out[i] = [pts |-> i, img |-> i]
  <2>1. 1 \in 1..frames /\ frames \in 1..frames BY <1>1
  <2>2. \A k \in 1..frames : out[k].pts \in 1..frames
    BY <1>2 DEF Delivered
  <2>3. out[i].pts >= i
    <3>1. CASE i = 1 BY <2>2, <3>1
    <3>2. CASE i # 1
      <4>1. i - 1 <= out[i].pts - out[1].pts
        BY <1>2, <2>1, <3>2 DEF OutGaps
      <4>2. out[1].pts \in 1..frames /\ out[i].pts \in 1..frames BY <2>1, <2>2
      <4> QED BY <1>1, <4>1, <4>2
    <3> QED BY <3>1, <3>2
  <2>4. out[i].pts <= i
    <3>1. CASE i = frames BY <2>2, <3>1
    <3>2. CASE i # frames
      <4>1. frames - i <= out[frames].pts - out[i].pts
        BY <1>1, <1>2, <2>1, <3>2 DEF OutGaps
      <4>2. out[frames].pts \in 1..frames /\ out[i].pts \in 1..frames
        BY <2>1, <2>2
      <4> QED BY <1>1, <4>1, <4>2
    <3> QED BY <3>1, <3>2
  <2>5. out[i].pts = i BY <1>1, <2>2, <2>3, <2>4
  <2>6. out[i].img = i BY <1>2, <2>5 DEF OutGaps
  <2>7. out[i] \in OutRecord BY <1>1, <1>2, ElementOfSeq
  <2> QED BY <2>5, <2>6, <2>7 DEF OutRecord
<1>4. out = [i \in DOMAIN out |-> out[i]] BY <1>1
<1> QED BY <1>2, <1>3, <1>4

-----------------------------------------------------------------------------
(* What a session keeps, for pipes and protocol clients, is invariant.     *)
THEOREM SessionInvariant == Spec => [](SessionInv /\ ClientTypes)
<1>1. Init => SessionInv /\ ClientTypes
  BY InitSession, SessionAssumption, PipeAssumption
<1>2. SessionInv /\ ClientTypes /\ [Next]_vars => (SessionInv /\ ClientTypes)'
  BY StepSession, SessionAssumption, PipeAssumption
<1> QED BY <1>1, <1>2, PTL DEF Spec

(* Every decoded picture is delivered under the PTS of its own frame, for  *)
(* every client, every number of images and over every FLUSH that leaves   *)
(* no image on its way.                                                    *)
THEOREM AlwaysPaired == Spec => []PairedUnlessStray
<1>1. SessionInv => PairedUnlessStray
  BY DEF SessionInv, OnePicture, PairedUnlessStray
<1> QED BY <1>1, SessionInvariant, PTL

(* The record with the end of the stream comes after everything the session*)
(* accepted, for every kind of session and every size of the queues.       *)
THEOREM EosAlwaysLast == Spec => []EosIsLast
<1>1. SessionInv => EosIsLast
  <2>1. SUFFICES ASSUME SessionInv, reply.status = "ok", reply.rec.eos, ~stray
                 PROVE  \A q \in {inq, outq, surf, back} :
                            \A i \in DOMAIN q : q[i].tag \notin {"frame", "eos"}
    BY DEF EosIsLast
  <2>2. inq = <<>> /\ outq = <<>> /\ surf = <<>> /\ back = <<>>
    BY <2>1 DEF SessionInv, EndIsLast
  <2>3. \A i \in DOMAIN <<>> : FALSE OBVIOUS
  <2> QED BY <2>2, <2>3
<1> QED BY <1>1, SessionInvariant, PTL

(* Every variable keeps its type; no codec has more buffers in use than it *)
(* has, and the pipe gives up after IdleLimit empty answers.               *)
THEOREM CommandTypes == Spec => []TypeOK
<1>1. CreateSpec => []CreateInv
  BY InitAccounts, StepAccounts, PTL DEF CreateSpec
<1>2. SessionInv /\ ClientTypes /\ CreateInv => TypeOK
  <2>1. SUFFICES ASSUME SessionInv, ClientTypes, CreateInv
                 PROVE  TypeOK
    OBVIOUS
  <2>2. kind \in SessionKinds /\ cpc \in CreatePcs /\ owned \subseteq Resources
    BY <2>1 DEF CreateInv, Shape, OwnsItsObjects, SessionObjects, Resources,
                SessionKinds
  <2>3. req # NoRequest => pc \notin {"start", "read", "any", "done"}
    BY <2>1 DEF SessionInv, Handshake
  <2> QED BY <2>1, <2>2, <2>3 DEF TypeOK, SessionInv, Bounded, ClientTypes
<1> QED BY <1>1, <1>2, SessionInvariant, CommandCreates, PTL

(* What holds of a session and of the frames of a pipe is invariant.       *)
THEOREM StreamInvariant == Spec => []StreamInv
<1>1. Init => StreamInv
  BY InitSession, InitPipe, SessionAssumption, PipeAssumption DEF StreamInv
<1>2. StreamInv /\ [Next]_vars => StreamInv'
  BY StepSession, StepPipe, SessionAssumption, PipeAssumption DEF StreamInv
<1> QED BY <1>1, <1>2, PTL DEF Spec

(* A pipe that exits with 0 has written every frame it read, once, in order*)
(* and each with its own picture, and the end of the stream: for every     *)
(* stream, every number of buffers and whatever the codec dropped, refused *)
(* or delayed.                                                             *)
THEOREM SuccessAlwaysComplete == Spec => []SuccessIsComplete
<1>1. StreamInv => SuccessIsComplete
  <2>1. SUFFICES ASSUME StreamInv, mode = "pipe", pc = "done", result = 0
                 PROVE  /\ saw_eos /\ frames > 0
                        /\ out = [i \in 1..frames |-> [pts |-> i, img |-> i]]
    BY DEF SuccessIsComplete
  <2>2. /\ SessionInv /\ ClientTypes /\ Ordered /\ OutGaps /\ Judged
    BY <2>1 DEF StreamInv, PipeInv
  <2>3. saw_eos /\ frames > 0 /\ Len(out) = frames BY <2>1, <2>2 DEF Judged
  <2>4. ~Untaken
    BY <2>1, <2>2, NoRecords DEF Untaken, SessionInv, Handshake
  <2>5. Limit = frames BY <2>4 DEF Limit
  <2>6. Delivered \subseteq 1..frames BY <2>2, <2>5 DEF Ordered, Chain
  <2> QED BY <2>2, <2>3, <2>6, NoGapLeft
<1> QED BY <1>1, StreamInvariant, PTL
=============================================================================
