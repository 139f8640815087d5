----------------------------- MODULE CodecCreate -----------------------------
(***************************************************************************)
(* Creation and destruction of a codec session in the worker               *)
(* (dscw_codec_create, dscw_codec_create_transcoder, dscw_codec_destroy in *)
(* dawnshell_codec_ndk.c): candidates are tried one after the other, each  *)
(* acquires several platform objects, and any call may fail.  One action   *)
(* per platform call; its outcome is the platform's choice.                *)
(*                                                                         *)
(* live counts the objects that exist, whoever still points to them: the   *)
(* session record, its media format, the image reader, the codec (of a     *)
(* transcoder, its decoder), the transcoder's encoder and input surface.   *)
(***************************************************************************)
EXTENDS Naturals, Sequences

CONSTANTS
    MaxCandidates,  \* MAX_CANDIDATES, 24 in the code
    Listed,         \* components the platform lists: name, hardware
    Legacy,         \* names of add_legacy_candidates
    Colors          \* input colour formats an encoder is tried with, 3

ASSUME CreateAssumption ==
    /\ MaxCandidates \in Nat \ {0}
    /\ Listed \in Seq([name : STRING, hardware : BOOLEAN])
    /\ Legacy \in Seq(STRING)
    /\ Colors \in Nat \ {0}

VARIABLES
    kind,       \* decoder, encoder or (Surface) transcoder
    cpc,        \* control point of the creation; ready: the session exists
    cands,      \* the candidates collected, in order
    ci, cj,     \* indices of the outer and of the inner loop
    live,       \* objects of each sort that exist
    owned       \* objects the session record points to

createVars == <<kind, cpc, cands, ci, cj, live, owned>>

SessionKinds == {"decoder", "encoder", "transcoder"}
Resources == {"session", "format", "reader", "codec", "encoder", "surface"}
CreatePcs == {"none", "reader", "window", "new", "format", "configure",
              "encNew", "encFormat", "encConfigure", "encSurface", "encStart",
              "describe", "ready", "failed"}

-----------------------------------------------------------------------------
(* add_candidate: neither beyond the table nor twice.                      *)
AddCandidate(list, name, proven) ==
    IF Len(list) >= MaxCandidates \/ \E i \in DOMAIN list : list[i].name = name
    THEN list
    ELSE Append(list, [name |-> name, proven |-> proven])

(* collect_candidates: what the platform lists as hardware, where it can be*)
(* asked (api), the names known from older devices, and last the platform's*)
(* own choice, which has still to prove that it is hardware.               *)
CollectCandidates(api) ==
    LET hardware == IF api THEN SelectSeq(Listed, LAMBDA c : c.hardware)
                           ELSE <<>>
        offered == [i \in DOMAIN hardware |-> hardware[i].name] \o Legacy
        taken[k \in 0..Len(offered)] ==
            IF k = 0 THEN <<>>
            ELSE AddCandidate(taken[k - 1], offered[k], TRUE)
    IN AddCandidate(taken[Len(offered)], "", FALSE)

Acquire(r) == live' = [live EXCEPT ![r] = @ + 1]

Release(rs) ==
    live' = [r \in Resources |-> IF r \in rs THEN live[r] - 1 ELSE live[r]]

CreateInit ==
    /\ kind \in SessionKinds
    /\ cpc = "none" /\ cands = <<>> /\ ci = 0 /\ cj = 0
    /\ live = [r \in Resources |-> 0]
    /\ owned = {}

(* Parameters out of bounds, no Surface API, or no memory for the session. *)
RejectCreate(k) ==
    /\ cpc \in {"none", "failed"}
    /\ kind' = k
    /\ cpc' = "failed"
    /\ UNCHANGED <<cands, ci, cj, live, owned>>

BeginCreate(k) ==
    /\ cpc \in {"none", "failed"}
    /\ kind' = k
    /\ cpc' = CASE k = "decoder" -> "reader"
                [] k = "encoder" -> "new"
                [] k = "transcoder" -> "encNew"
    /\ \E api \in BOOLEAN : cands' = CollectCandidates(api)
    /\ ci' = 1 /\ cj' = 1
    /\ Acquire("session")
    /\ UNCHANGED owned

-----------------------------------------------------------------------------
(* The innermost loop: the next reader and codec, the next colour (and then*)
(* candidate) of an encoder, the next decoder for the Surface encoder.     *)
NextTry ==
    \/ /\ kind = "decoder"
       /\ cpc' = "reader" /\ ci' = ci + 1 /\ UNCHANGED cj
    \/ /\ kind = "encoder"
       /\ cpc' = "new"
       /\ IF cj < Colors THEN cj' = cj + 1 /\ UNCHANGED ci
                         ELSE cj' = 1 /\ ci' = ci + 1
    \/ /\ kind = "transcoder"
       /\ cpc' = "new" /\ cj' = cj + 1 /\ UNCHANGED ci

NextEncoder == cpc' = "encNew" /\ ci' = ci + 1 /\ cj' = 1

(* Objects of the attempt in hand besides the session and its encoder.     *)
Attempt == IF kind = "decoder" THEN {"codec", "reader"} ELSE {"codec"}

TryIndex == IF kind = "transcoder" /\ cpc = "new" THEN cj ELSE ci

(* new_codec: the candidate was listed as hardware or is one of the known  *)
(* names, or the component tells its name and hardware_name finds one of   *)
(* its vendors' prefixes there (vendor).  Without a name the candidate's is*)
(* tested, which is empty.                                                 *)
Proven(candidate, readable, vendor) ==
    candidate.proven \/ (readable /\ vendor)

(* AMediaCodec_create... and getName of the candidate in hand; codec says  *)
(* whether new_codec returned one.                                         *)
NewCodec(codec) ==
    \E created, readable, vendor \in BOOLEAN :
        codec <=> created /\ Proven(cands[TryIndex], readable, vendor)

NewReader ==
    /\ cpc = "reader"
    /\ ci <= Len(cands)
    /\ \/ Acquire("reader") /\ cpc' = "window" /\ UNCHANGED <<ci, cj>>
       \/ NextTry /\ UNCHANGED live
    /\ UNCHANGED <<kind, cands, owned>>

GetWindow ==
    /\ cpc = "window"
    /\ \/ cpc' = "new" /\ UNCHANGED <<ci, cj, live>>
       \/ Release({"reader"}) /\ NextTry
    /\ UNCHANGED <<kind, cands, owned>>

(* Mutant of OpenCodec: a missing codec leaves the image reader behind.    *)
OpenCodecKeepsReader ==
    /\ cpc = "new"
    /\ TryIndex <= Len(cands)
    /\ \/ /\ NewCodec(TRUE)
          /\ Acquire("codec")
          /\ cpc' = "format"
          /\ UNCHANGED <<ci, cj>>
       \/ /\ NewCodec(FALSE)
          /\ NextTry
          /\ UNCHANGED live
    /\ UNCHANGED <<kind, cands, owned>>

(* create_encoder, create_decoder and the decoder of a transcoder.         *)
OpenCodec ==
    /\ cpc = "new"
    /\ TryIndex <= Len(cands)
    /\ \/ /\ NewCodec(TRUE)
          /\ Acquire("codec")
          /\ cpc' = "format"
          /\ UNCHANGED <<ci, cj>>
       \/ /\ NewCodec(FALSE)
          /\ Release(Attempt \ {"codec"})
          /\ NextTry
    /\ UNCHANGED <<kind, cands, owned>>

(* Without a format a transcoder tries on; otherwise the creation fails.   *)
VideoFormat ==
    /\ cpc = "format"
    /\ \/ Acquire("format") /\ cpc' = "configure" /\ UNCHANGED <<ci, cj>>
       \/ kind = "transcoder" /\ Release(Attempt) /\ NextTry
       \/ /\ kind # "transcoder"
          /\ Release(Attempt \cup {"session"})
          /\ cpc' = "failed"
          /\ UNCHANGED <<ci, cj>>
    /\ UNCHANGED <<kind, cands, owned>>

(* AMediaCodec_configure and AMediaCodec_start.                            *)
ConfigureStart ==
    /\ cpc = "configure"
    /\ \/ /\ Release({"format"})
          /\ owned' = Attempt \cup IF kind = "transcoder"
                                   THEN {"encoder", "surface"} ELSE {}
          /\ cpc' = "describe"
          /\ UNCHANGED <<ci, cj>>
       \/ /\ Release(Attempt \cup {"format"})
          /\ NextTry
          /\ UNCHANGED owned
    /\ UNCHANGED <<kind, cands>>

-----------------------------------------------------------------------------
(* configure_surface_encoder                                               *)

NewEncoder ==
    /\ cpc = "encNew"
    /\ ci <= Len(cands)
    /\ \/ /\ NewCodec(TRUE)
          /\ Acquire("encoder")
          /\ cpc' = "encFormat"
          /\ UNCHANGED <<ci, cj>>
       \/ /\ NewCodec(FALSE)
          /\ NextEncoder
          /\ UNCHANGED live
    /\ UNCHANGED <<kind, cands, owned>>

EncoderFormat ==
    /\ cpc = "encFormat"
    /\ \/ Acquire("format") /\ cpc' = "encConfigure" /\ UNCHANGED <<ci, cj>>
       \/ Release({"encoder"}) /\ NextEncoder
    /\ UNCHANGED <<kind, cands, owned>>

EncoderConfigure ==
    /\ cpc = "encConfigure"
    /\ \/ Release({"format"}) /\ cpc' = "encSurface" /\ UNCHANGED <<ci, cj>>
       \/ Release({"format", "encoder"}) /\ NextEncoder
    /\ UNCHANGED <<kind, cands, owned>>

EncoderSurface ==
    /\ cpc = "encSurface"
    /\ \/ Acquire("surface") /\ cpc' = "encStart" /\ UNCHANGED <<ci, cj>>
       \/ Release({"encoder"}) /\ NextEncoder
    /\ UNCHANGED <<kind, cands, owned>>

EncoderStart ==
    /\ cpc = "encStart"
    /\ \/ cpc' = "new" /\ UNCHANGED <<ci, cj, live>>
       \/ Release({"surface", "encoder"}) /\ NextEncoder
    /\ UNCHANGED <<kind, cands, owned>>

(* No decoder for this Surface encoder: stop_delete_codec, surface release.*)
DropEncoder ==
    /\ kind = "transcoder"
    /\ cpc = "new"
    /\ cj > Len(cands)
    /\ Release({"encoder", "surface"})
    /\ NextEncoder
    /\ UNCHANGED <<kind, cands, owned>>

-----------------------------------------------------------------------------
(* All candidates failed: the session record is destroyed.                 *)
GiveUp ==
    /\ cpc \in {"reader", "encNew"} \/ (cpc = "new" /\ kind = "encoder")
    /\ ci > Len(cands)
    /\ Release({"session"} \cup owned)
    /\ cpc' = "failed"
    /\ UNCHANGED <<kind, cands, ci, cj, owned>>

(* The description fits into the reply, or the session is destroyed.       *)
DescribeSession ==
    /\ cpc = "describe"
    /\ \/ cpc' = "ready" /\ UNCHANGED <<live, owned>>
       \/ cpc' = "failed" /\ Release({"session"} \cup owned) /\ owned' = {}
    /\ cands' = <<>> /\ ci' = 0 /\ cj' = 0
    /\ UNCHANGED kind

(* dscw_codec_destroy of a session in use: CLOSE, or the worker's exit.    *)
DestroySession ==
    /\ cpc = "ready"
    /\ Release({"session"} \cup owned)
    /\ owned' = {}
    /\ cpc' = "none"
    /\ UNCHANGED <<kind, cands, ci, cj>>

CreateStep ==
    \/ NewReader \/ GetWindow \/ OpenCodec \/ VideoFormat \/ ConfigureStart
    \/ NewEncoder \/ EncoderFormat \/ EncoderConfigure \/ EncoderSurface
    \/ EncoderStart \/ DropEncoder \/ GiveUp \/ DescribeSession

CreateNext ==
    \/ \E k \in SessionKinds : RejectCreate(k) \/ BeginCreate(k)
    \/ CreateStep \/ DestroySession

CreateSpec == CreateInit /\ [][CreateNext]_createVars

-----------------------------------------------------------------------------
SessionObjects(k) ==
    {"session"} \cup CASE k = "decoder" -> {"codec", "reader"}
                       [] k = "encoder" -> {"codec"}
                       [] OTHER -> {"codec", "encoder", "surface"}

(* Whichever platform call fails, a creation that failed and a session that*)
(* was closed leave no codec, reader, surface, format or session behind,   *)
(* and an open session holds exactly one of each object of its kind.       *)
NoLeak ==
    /\ cpc \in {"none", "failed"} => \A r \in Resources : live[r] = 0
    /\ cpc = "ready" =>
          \A r \in Resources :
              live[r] = IF r \in SessionObjects(kind) THEN 1 ELSE 0
=============================================================================
