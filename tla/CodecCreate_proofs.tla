------------------------- MODULE CodecCreate_proofs -------------------------
(***************************************************************************)
(* The creation of a codec session leaks nothing, for every list of        *)
(* candidates, every number of colour formats and every outcome of the     *)
(* platform calls.  The inductive invariant says which objects exist at    *)
(* every control point, and that each of them exists once.                 *)
(***************************************************************************)
EXTENDS CodecCreate, TLAPS

(* What the code between two platform calls is responsible for.            *)
Holding ==
    CASE cpc \in {"none", "failed"} -> {}
      [] cpc \in {"reader", "encNew"} -> {"session"}
      [] cpc = "window" -> {"session", "reader"}
      [] cpc \in {"encFormat", "encSurface"} -> {"session", "encoder"}
      [] cpc = "encConfigure" -> {"session", "encoder", "format"}
      [] cpc = "encStart" -> {"session", "encoder", "surface"}
      [] cpc = "new" -> SessionObjects(kind) \ {"codec"}
      [] cpc = "configure" -> SessionObjects(kind) \cup {"format"}
      [] OTHER -> SessionObjects(kind)

(* Each object the code is responsible for exists once, all others do not. *)
Accounted ==
    live = [r \in Resources |-> IF r \in Holding THEN 1 ELSE 0]

(* The session record points to its objects once it is complete.           *)
OwnsItsObjects ==
    owned = IF cpc \in {"describe", "ready"}
            THEN SessionObjects(kind) \ {"session"} ELSE {}

(* Which control points belong to which kind of session.                   *)
Shape ==
    /\ kind \in SessionKinds
    /\ cpc \in CreatePcs
    /\ cpc \in {"reader", "window"} => kind = "decoder"
    /\ cpc \in {"encNew", "encFormat", "encConfigure", "encSurface",
                "encStart"} => kind = "transcoder"

CreateInv == Shape /\ Accounted /\ OwnsItsObjects

(* Nothing exists before the first CREATE.                                 *)
LEMMA InitAccounts == CreateInit => CreateInv
BY DEF CreateInit, CreateInv, Shape, Accounted, OwnsItsObjects, Holding,
       SessionKinds, CreatePcs, Resources

(* An object that is acquired has to be held afterwards.                   *)
LEMMA AcquireAccounts ==
    ASSUME Accounted, NEW r \in Resources, r \notin Holding, Acquire(r),
           Holding' = Holding \cup {r}
    PROVE  Accounted'
BY DEF Accounted, Acquire

(* Objects that are released must have been held, and are not any more.    *)
LEMMA ReleaseAccounts ==
    ASSUME Accounted, NEW rs, rs \subseteq Holding, Release(rs),
           Holding' = Holding \ rs
    PROVE  Accounted'
BY DEF Accounted, Release

(* A step that changes no object holds what was held.                      *)
LEMMA KeepAccounts ==
    ASSUME Accounted, UNCHANGED live, Holding' = Holding
    PROVE  Accounted'
BY DEF Accounted

(* CREATE takes over the session record, or nothing.                       *)
LEMMA BeginAccounts ==
    ASSUME CreateInv, NEW k \in SessionKinds, RejectCreate(k) \/ BeginCreate(k)
    PROVE  CreateInv'
<1> USE DEF CreateInv, Shape, OwnsItsObjects, SessionKinds, CreatePcs
<1>1. CASE RejectCreate(k)
  <2>1. Holding' = Holding BY <1>1 DEF RejectCreate, Holding
  <2>2. Accounted' BY <1>1, <2>1, KeepAccounts DEF RejectCreate
  <2> QED BY <1>1, <2>2 DEF RejectCreate
<1>2. CASE BeginCreate(k)
  <2>1. kind' = k /\ cpc' = CASE k = "decoder" -> "reader"
                               [] k = "encoder" -> "new"
                               [] k = "transcoder" -> "encNew"
    BY <1>2 DEF BeginCreate
  <2>2. Shape' BY <2>1
  <2>3. Holding = {} BY <1>2 DEF BeginCreate, Holding
  <2>4. Holding' = {"session"} BY <2>1 DEF Holding, SessionObjects
  <2>5. Accounted'
    BY <1>2, <2>3, <2>4, AcquireAccounts DEF BeginCreate, Resources
  <2>6. OwnsItsObjects' BY <1>2, <2>1 DEF BeginCreate
  <2> QED BY <2>2, <2>5, <2>6
<1> QED BY <1>1, <1>2

(* The next attempt of a kind starts where only its outer objects are held.*)
LEMMA NextTryShape ==
    ASSUME Shape, UNCHANGED kind, NextTry
    PROVE  /\ Shape'
           /\ cpc' = IF kind = "decoder" THEN "reader" ELSE "new"
           /\ Holding' = SessionObjects(kind) \ Attempt
BY DEF Shape, NextTry, Holding, SessionObjects, Attempt, SessionKinds, CreatePcs

(* The next Surface encoder starts with the session record alone.          *)
LEMMA NextEncoderShape ==
    ASSUME Shape, kind = "transcoder", UNCHANGED kind, NextEncoder
    PROVE  Shape' /\ cpc' = "encNew" /\ Holding' = {"session"}
BY DEF Shape, NextEncoder, Holding, SessionKinds, CreatePcs

(* The objects of an attempt are objects of the session.                   *)
LEMMA AttemptObjects ==
    ASSUME kind \in SessionKinds
    PROVE  /\ Attempt \subseteq SessionObjects(kind) \ {"session"}
           /\ "codec" \in Attempt /\ "format" \notin SessionObjects(kind)
           /\ "session" \in SessionObjects(kind)
           /\ SessionObjects(kind) \subseteq Resources
           /\ Attempt \cup (IF kind = "transcoder" THEN {"encoder", "surface"}
                                                    ELSE {})
                 = SessionObjects(kind) \ {"session"}
BY DEF SessionKinds, SessionObjects, Attempt, Resources

(* The image reader and its window.                                        *)
LEMMA ReaderAccounts ==
    ASSUME CreateInv, NewReader \/ GetWindow
    PROVE  CreateInv'
<1> USE DEF CreateInv
<1>1. /\ kind = "decoder" /\ kind' = kind /\ owned = {} /\ owned' = owned
      /\ SessionObjects(kind) = {"session", "codec", "reader"}
      /\ Attempt = {"codec", "reader"}
  BY DEF Shape, OwnsItsObjects, NewReader, GetWindow, SessionObjects, Attempt
<1>2. CASE NewReader /\ Acquire("reader") /\ cpc' = "window"
  <2>1. Holding = {"session"} /\ Holding' = {"session", "reader"}
    BY <1>2 DEF NewReader, Holding
  <2>2. Accounted' BY <1>2, <2>1, AcquireAccounts DEF Resources
  <2> QED BY <1>1, <1>2, <2>2 DEF Shape, OwnsItsObjects, CreatePcs
<1>3. CASE NewReader /\ NextTry /\ UNCHANGED live
  <2>1. Holding = {"session"} BY <1>3 DEF NewReader, Holding
  <2>2. Shape' /\ cpc' = "reader" /\ Holding' = {"session"}
    BY <1>1, <1>3, NextTryShape
  <2>3. Accounted' BY <1>3, <2>1, <2>2, KeepAccounts
  <2> QED BY <1>1, <2>2, <2>3 DEF OwnsItsObjects
<1>4. CASE GetWindow /\ cpc' = "new" /\ UNCHANGED live
  <2>1. Holding = {"session", "reader"} BY <1>4 DEF GetWindow, Holding
  <2>2. Holding' = {"session", "reader"}
    BY <1>1, <1>4 DEF Holding, SessionObjects
  <2>3. Accounted' BY <1>4, <2>1, <2>2, KeepAccounts
  <2> QED BY <1>1, <1>4, <2>3 DEF Shape, OwnsItsObjects, CreatePcs
<1>5. CASE GetWindow /\ Release({"reader"}) /\ NextTry
  <2>1. Holding = {"session", "reader"} BY <1>5 DEF GetWindow, Holding
  <2>2. Shape' /\ cpc' = "reader" /\ Holding' = {"session"}
    BY <1>1, <1>5, NextTryShape
  <2>3. Accounted' BY <1>5, <2>1, <2>2, ReleaseAccounts
  <2> QED BY <1>1, <2>2, <2>3 DEF OwnsItsObjects
<1> QED BY <1>2, <1>3, <1>4, <1>5 DEF NewReader, GetWindow

(* A step that keeps a session incomplete gives it no object to point to.  *)
LEMMA StaysIncomplete ==
    ASSUME OwnsItsObjects, cpc \notin {"describe", "ready"},
           cpc' \notin {"describe", "ready"}, UNCHANGED owned
    PROVE  owned = {} /\ OwnsItsObjects'
BY DEF OwnsItsObjects

(* The first codec is opened, or the candidate is given up.                *)
LEMMA CodecAccounts ==
    ASSUME CreateInv, OpenCodec
    PROVE  CreateInv'
<1> USE DEF CreateInv
<1>1. cpc = "new" /\ UNCHANGED <<kind, owned>> /\ kind \in SessionKinds
  BY DEF OpenCodec, Shape
<1>2. Holding = SessionObjects(kind) \ {"codec"} BY <1>1 DEF Holding
<1>3. CASE Acquire("codec") /\ cpc' = "format"
  <2>1. Holding' = SessionObjects(kind) BY <1>1, <1>3 DEF Holding
  <2>2. Holding' = Holding \cup {"codec"} /\ "codec" \in Resources
    BY <1>1, <1>2, <2>1, AttemptObjects DEF Resources
  <2>3. Accounted' BY <1>2, <1>3, <2>2, AcquireAccounts
  <2>4. OwnsItsObjects' BY <1>1, <1>3, StaysIncomplete
  <2> QED BY <1>1, <1>3, <2>3, <2>4 DEF Shape, CreatePcs
<1>4. CASE Release(Attempt \ {"codec"}) /\ NextTry
  <2>1. /\ Shape' /\ cpc' \in {"reader", "new"}
        /\ Holding' = SessionObjects(kind) \ Attempt
    BY <1>1, <1>4, NextTryShape
  <2>2. /\ Holding' = Holding \ (Attempt \ {"codec"})
        /\ Attempt \ {"codec"} \subseteq Holding
    BY <1>1, <1>2, <2>1, AttemptObjects
  <2>3. Accounted' BY <1>4, <2>2, ReleaseAccounts
  <2>4. OwnsItsObjects' BY <1>1, <2>1, StaysIncomplete
  <2> QED BY <2>1, <2>3, <2>4
<1> QED BY <1>3, <1>4 DEF OpenCodec

(* Its format.                                                             *)
LEMMA FormatAccounts ==
    ASSUME CreateInv, VideoFormat
    PROVE  CreateInv'
<1> USE DEF CreateInv
<1>1. cpc = "format" /\ UNCHANGED <<kind, owned>> /\ kind \in SessionKinds
  BY DEF VideoFormat, Shape
<1>2. Holding = SessionObjects(kind) BY <1>1 DEF Holding
<1>3. CASE Acquire("format") /\ cpc' = "configure"
  <2>1. Holding' = Holding \cup {"format"} BY <1>1, <1>2, <1>3 DEF Holding
  <2>2. "format" \notin Holding /\ "format" \in Resources
    BY <1>1, <1>2, AttemptObjects DEF Resources
  <2>3. Accounted' BY <1>3, <2>1, <2>2, AcquireAccounts
  <2>4. OwnsItsObjects' BY <1>1, <1>3, StaysIncomplete
  <2> QED BY <1>1, <1>3, <2>3, <2>4 DEF Shape, CreatePcs
<1>4. CASE Release(Attempt) /\ NextTry
  <2>1. /\ Shape' /\ cpc' \in {"reader", "new"}
        /\ Holding' = SessionObjects(kind) \ Attempt
    BY <1>1, <1>4, NextTryShape
  <2>2. Attempt \subseteq Holding BY <1>1, <1>2, AttemptObjects
  <2>3. Accounted' BY <1>2, <1>4, <2>1, <2>2, ReleaseAccounts
  <2>4. OwnsItsObjects' BY <1>1, <2>1, StaysIncomplete
  <2> QED BY <2>1, <2>3, <2>4
<1>5. CASE /\ kind # "transcoder"
           /\ Release(Attempt \cup {"session"}) /\ cpc' = "failed"
  <2>1. Holding' = {} BY <1>5 DEF Holding
  <2>2. Holding = Attempt \cup {"session"}
    BY <1>1, <1>2, <1>5 DEF SessionObjects, Attempt, SessionKinds
  <2>3. Accounted' BY <1>5, <2>1, <2>2, ReleaseAccounts
  <2>4. OwnsItsObjects' BY <1>1, <1>5, StaysIncomplete
  <2> QED BY <1>1, <1>5, <2>3, <2>4 DEF Shape, CreatePcs
<1> QED BY <1>3, <1>4, <1>5 DEF VideoFormat

(* It is configured and started.                                           *)
LEMMA StartAccounts ==
    ASSUME CreateInv, ConfigureStart
    PROVE  CreateInv'
<1> USE DEF CreateInv
<1>1. cpc = "configure" /\ UNCHANGED kind /\ kind \in SessionKinds
  BY DEF ConfigureStart, Shape
<1>2. Holding = SessionObjects(kind) \cup {"format"} BY <1>1 DEF Holding
<1>3. CASE /\ Release({"format"}) /\ cpc' = "describe"
           /\ owned' = Attempt \cup IF kind = "transcoder"
                                    THEN {"encoder", "surface"} ELSE {}
  <2>1. Holding' = SessionObjects(kind) BY <1>1, <1>3 DEF Holding
  <2>2. Holding' = Holding \ {"format"}
    BY <1>1, <1>2, <2>1, AttemptObjects
  <2>3. Accounted' BY <1>2, <1>3, <2>2, ReleaseAccounts
  <2>4. OwnsItsObjects' BY <1>1, <1>3, AttemptObjects DEF OwnsItsObjects
  <2> QED BY <1>1, <1>3, <2>3, <2>4 DEF Shape, CreatePcs
<1>4. CASE Release(Attempt \cup {"format"}) /\ NextTry /\ UNCHANGED owned
  <2>1. /\ Shape' /\ cpc' \in {"reader", "new"}
        /\ Holding' = SessionObjects(kind) \ Attempt
    BY <1>1, <1>4, NextTryShape
  <2>2. /\ Attempt \cup {"format"} \subseteq Holding
        /\ Holding' = Holding \ (Attempt \cup {"format"})
    BY <1>1, <1>2, <2>1, AttemptObjects
  <2>3. Accounted' BY <1>4, <2>2, ReleaseAccounts
  <2>4. OwnsItsObjects' BY <1>1, <1>4, <2>1, StaysIncomplete
  <2> QED BY <2>1, <2>3, <2>4
<1> QED BY <1>3, <1>4 DEF ConfigureStart

(* The encoder of a transcoder, up to its start.                           *)
LEMMA EncoderAccounts ==
    ASSUME CreateInv,
           \/ NewEncoder \/ EncoderFormat \/ EncoderConfigure
           \/ EncoderSurface \/ EncoderStart
    PROVE  CreateInv'
<1> USE DEF CreateInv
<1>1. /\ cpc \in {"encNew", "encFormat", "encConfigure", "encSurface",
                  "encStart"}
      /\ UNCHANGED <<kind, owned>> /\ kind = "transcoder"
  BY DEF Shape, NewEncoder, EncoderFormat, EncoderConfigure, EncoderSurface,
         EncoderStart
<1>2. SUFFICES ASSUME TRUE
               PROVE  /\ Shape' /\ Accounted'
                      /\ cpc' \notin {"describe", "ready"}
  BY <1>1, StaysIncomplete
<1>3. NextEncoder => /\ Shape' /\ Holding' = {"session"}
                     /\ cpc' \notin {"describe", "ready"}
  BY <1>1, NextEncoderShape
<1>4. CASE NewEncoder
  <2>1. Holding = {"session"} BY <1>4 DEF NewEncoder, Holding
  <2>2. CASE Acquire("encoder") /\ cpc' = "encFormat"
    <3>1. Holding' = {"session", "encoder"} BY <2>2 DEF Holding
    <3>2. Accounted' BY <2>1, <2>2, <3>1, AcquireAccounts DEF Resources
    <3> QED BY <1>1, <2>2, <3>2 DEF Shape, CreatePcs
  <2>3. CASE NextEncoder /\ UNCHANGED live
    BY <1>3, <2>1, <2>3, KeepAccounts
  <2> QED BY <1>4, <2>2, <2>3 DEF NewEncoder
<1>5. CASE EncoderFormat
  <2>1. Holding = {"session", "encoder"} BY <1>5 DEF EncoderFormat, Holding
  <2>2. CASE Acquire("format") /\ cpc' = "encConfigure"
    <3>1. Holding' = {"session", "encoder", "format"} BY <2>2 DEF Holding
    <3>2. Accounted' BY <2>1, <2>2, <3>1, AcquireAccounts DEF Resources
    <3> QED BY <1>1, <2>2, <3>2 DEF Shape, CreatePcs
  <2>3. CASE Release({"encoder"}) /\ NextEncoder
    BY <1>3, <2>1, <2>3, ReleaseAccounts
  <2> QED BY <1>5, <2>2, <2>3 DEF EncoderFormat
<1>6. CASE EncoderConfigure
  <2>1. Holding = {"session", "encoder", "format"}
    BY <1>6 DEF EncoderConfigure, Holding
  <2>2. CASE Release({"format"}) /\ cpc' = "encSurface"
    <3>1. Holding' = {"session", "encoder"} BY <2>2 DEF Holding
    <3>2. Accounted' BY <2>1, <2>2, <3>1, ReleaseAccounts
    <3> QED BY <1>1, <2>2, <3>2 DEF Shape, CreatePcs
  <2>3. CASE Release({"format", "encoder"}) /\ NextEncoder
    BY <1>3, <2>1, <2>3, ReleaseAccounts
  <2> QED BY <1>6, <2>2, <2>3 DEF EncoderConfigure
<1>7. CASE EncoderSurface
  <2>1. Holding = {"session", "encoder"} BY <1>7 DEF EncoderSurface, Holding
  <2>2. CASE Acquire("surface") /\ cpc' = "encStart"
    <3>1. Holding' = {"session", "encoder", "surface"} BY <2>2 DEF Holding
    <3>2. Accounted' BY <2>1, <2>2, <3>1, AcquireAccounts DEF Resources
    <3> QED BY <1>1, <2>2, <3>2 DEF Shape, CreatePcs
  <2>3. CASE Release({"encoder"}) /\ NextEncoder
    BY <1>3, <2>1, <2>3, ReleaseAccounts
  <2> QED BY <1>7, <2>2, <2>3 DEF EncoderSurface
<1>8. CASE EncoderStart
  <2>1. Holding = {"session", "encoder", "surface"}
    BY <1>8 DEF EncoderStart, Holding
  <2>2. CASE cpc' = "new" /\ UNCHANGED live
    <3>1. Holding' = {"session", "encoder", "surface"}
      BY <1>1, <2>2 DEF Holding, SessionObjects
    <3>2. Accounted' BY <2>1, <2>2, <3>1, KeepAccounts
    <3> QED BY <1>1, <2>2, <3>2 DEF Shape, CreatePcs
  <2>3. CASE Release({"surface", "encoder"}) /\ NextEncoder
    BY <1>3, <2>1, <2>3, ReleaseAccounts
  <2> QED BY <1>8, <2>2, <2>3 DEF EncoderStart
<1> QED BY <1>4, <1>5, <1>6, <1>7, <1>8

(* Dropping a Surface encoder, giving up, describing, destroying.          *)
LEMMA EndAccounts ==
    ASSUME CreateInv,
           DropEncoder \/ GiveUp \/ DescribeSession \/ DestroySession
    PROVE  CreateInv'
<1> USE DEF CreateInv
<1>1. kind \in SessionKinds /\ UNCHANGED kind
  BY DEF Shape, DropEncoder, GiveUp, DescribeSession, DestroySession
<1>2. CASE DropEncoder
  <2>1. /\ Holding = {"session", "encoder", "surface"}
        /\ cpc = "new" /\ kind = "transcoder"
    BY <1>2 DEF DropEncoder, Holding, SessionObjects
  <2>2. Shape' /\ cpc' = "encNew" /\ Holding' = {"session"}
    BY <1>1, <1>2, <2>1, NextEncoderShape DEF DropEncoder
  <2>3. Accounted'
    BY <1>2, <2>1, <2>2, ReleaseAccounts DEF DropEncoder
  <2>4. OwnsItsObjects' BY <1>2, <2>1, <2>2, StaysIncomplete DEF DropEncoder
  <2> QED BY <2>2, <2>3, <2>4
<1>3. CASE GiveUp
  <2>1. cpc \in {"reader", "encNew", "new"} /\ cpc' = "failed"
    BY <1>3 DEF GiveUp
  <2>2. owned = {} /\ OwnsItsObjects' BY <1>3, <2>1, StaysIncomplete DEF GiveUp
  <2>3. Holding = {"session"} BY <1>3 DEF GiveUp, Holding, SessionObjects
  <2>4. Holding' = {} BY <2>1 DEF Holding
  <2>5. Accounted' BY <1>3, <2>2, <2>3, <2>4, ReleaseAccounts DEF GiveUp
  <2> QED BY <1>1, <2>1, <2>2, <2>5 DEF Shape, CreatePcs
<1>4. CASE DescribeSession /\ cpc' = "ready"
  <2>1. Holding' = Holding BY <1>1, <1>4 DEF Holding, DescribeSession
  <2>2. UNCHANGED <<live, owned>> BY <1>4 DEF DescribeSession
  <2>3. Accounted' BY <2>1, <2>2, KeepAccounts
  <2> QED BY <1>1, <1>4, <2>2, <2>3
          DEF DescribeSession, Shape, CreatePcs, OwnsItsObjects
<1>5. CASE /\ DescribeSession \/ DestroySession
           /\ Release({"session"} \cup owned) /\ owned' = {}
           /\ cpc' \in {"failed", "none"}
  <2>1. cpc \in {"describe", "ready"}
    BY <1>5 DEF DescribeSession, DestroySession
  <2>2. Holding = SessionObjects(kind) /\ Holding' = {}
    BY <1>5, <2>1 DEF Holding
  <2>3. {"session"} \cup owned = SessionObjects(kind)
    BY <1>1, <2>1, AttemptObjects DEF OwnsItsObjects
  <2>4. Accounted' BY <1>5, <2>2, <2>3, ReleaseAccounts
  <2> QED BY <1>1, <1>5, <2>4 DEF Shape, CreatePcs, OwnsItsObjects
<1> QED BY <1>2, <1>3, <1>4, <1>5 DEF DescribeSession, DestroySession

(* Every step, and every stuttering step, keeps the account.               *)
LEMMA StepAccounts == CreateInv /\ [CreateNext]_createVars => CreateInv'
<1> SUFFICES ASSUME CreateInv, [CreateNext]_createVars PROVE CreateInv'
  OBVIOUS
<1>1. CASE UNCHANGED createVars
  BY <1>1 DEF createVars, CreateInv, Shape, Accounted, OwnsItsObjects, Holding
<1>2. CASE \E k \in SessionKinds : RejectCreate(k) \/ BeginCreate(k)
  BY <1>2, BeginAccounts
<1>3. CASE CreateStep \/ DestroySession
  BY <1>3, ReaderAccounts, CodecAccounts, FormatAccounts, StartAccounts,
     EncoderAccounts, EndAccounts DEF CreateStep
<1> QED BY <1>1, <1>2, <1>3 DEF CreateNext

(* The account is exact where no creation is under way.                    *)
LEMMA AccountIsExact == CreateInv => NoLeak
<1> SUFFICES ASSUME CreateInv PROVE NoLeak OBVIOUS
<1>1. ASSUME cpc \in {"none", "failed"}
      PROVE  \A r \in Resources : live[r] = 0
  BY <1>1 DEF CreateInv, Accounted, Holding
<1>2. ASSUME cpc = "ready"
      PROVE  \A r \in Resources :
                 live[r] = IF r \in SessionObjects(kind) THEN 1 ELSE 0
  BY <1>2 DEF CreateInv, Accounted, Holding
<1> QED BY <1>1, <1>2 DEF NoLeak

(* For every list of candidates and whatever platform calls fail, neither  *)
(* dscw_codec_create nor dscw_codec_destroy leaks an object, and an open   *)
(* session holds exactly the objects of its kind.                          *)
THEOREM NothingLeaks == CreateSpec => []NoLeak
BY InitAccounts, StepAccounts, AccountIsExact, PTL DEF CreateSpec
=============================================================================
