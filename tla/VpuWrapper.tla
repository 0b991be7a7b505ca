----------------------------- MODULE VpuWrapper -----------------------------
(***************************************************************************)
(* packages/net/chromium/imx, imxvpucodec_fslwrapper.c: a decoder on top   *)
(* of Freescale's VPU library.                                             *)
(*                                                                         *)
(* The library does not say how many framebuffers are free, so the wrapper *)
(* counts.  A codec that tells when a frame was consumed (H.264) lets it   *)
(* count what is decoded; with the other ones (VP8) it counts what is      *)
(* shown.  After a flush it takes the frames its user holds for the ones   *)
(* in use.                                                                 *)
(*                                                                         *)
(* A decoder is a record; an operation is an operator from a decoder to    *)
(* the next one, or to the set of what it may return.  The library is not  *)
(* part of the repository.  It is modelled by what the wrapper relies on:  *)
(* it decodes into free frames, keeps at most Kept of them back, shows a   *)
(* frame once and leaves it alone until the user has displayed it.         *)
(***************************************************************************)
EXTENDS Integers, FiniteSets

CONSTANTS
    Framebuffers,  \* as many as the accelerator registers
    Kept,          \* the most frames the VPU keeps to show them later
    MinRequired,   \* MIN_NUM_FREE_FB_REQUIRED
    MaxUpsets      \* bound: changes of the resolution, and frames a failed call
                   \* leaves uncounted, together

Number == Cardinality(Framebuffers)

\* The framebuffers are numbered from 0, like the elements of the accelerator's vector.
ASSUME FramebuffersAssumption ==
    /\ IsFiniteSet(Framebuffers) /\ Framebuffers = 0 .. Number - 1
    /\ MinRequired \in Nat \ {0}
    /\ MaxUpsets \in Nat

\* A codec that says which frame a buffer was decoded into.
ConsumptionInfo(d) == d.codec = "H264"

DecOpen(codec) ==
    [ codec |-> codec,
      vpu |-> "opened",       \* then "info" and, with framebuffers, "registered"
      frames |-> [f \in Framebuffers |-> "free"],  \* or "decoded", or "shown"
      framebuffers |-> FALSE, \* the pointers to the framebuffers and to
      userData |-> FALSE,     \* the user data of each are set
      recalculate |-> FALSE,  \* recalculate_num_avail_framebuffers
      available |-> 0,        \* num_available_framebuffers
      decremented |-> 0,      \* num_times_counter_decremented
      inUse |-> 0,            \* num_framebuffers_in_use
      crashed |-> FALSE,      \* it wrote through a null pointer
      changes |-> 0,          \* (history) changes of the resolution
      flushed |-> FALSE,      \* (history) the VPU was flushed by its own wish
      missed |-> 0,           \* (history) frames that were to be counted, and were not
      unreturned |-> {} ]     \* (history) shown, and nobody has them to give back

\* imx_vpu_dec_close: all is gone; what is opened next has nothing of it.
DecClose(d) == DecOpen(d.codec)

Are(d, state) == {f \in Framebuffers : d.frames[f] = state}

Upsets(d) == d.changes + d.missed

\* The frames the user has to give back.
Owed(d) == Are(d, "shown") \ d.unreturned

----------------------------------------------------------------------------
\* The VPU library.
\* VPU_DecFlushAll, VPU_DecReset: what is shown stays with the user.
FlushAll(d) ==
    [d EXCEPT !.frames = [f \in Framebuffers |-> IF @[f] = "decoded" THEN "free" ELSE @[f]]]

Answer(codes, d, f) == [ok |-> TRUE, codes |-> codes, decoder |-> d, frame |-> f]
Failure(d) == [ok |-> FALSE, codes |-> {}, decoder |-> d, frame |-> 0]
Set(d, f, state) == [d EXCEPT !.frames[f] = state]

\* A frame is shown or, unless too many are kept back, none.
Shows(d, codes) ==
    {Answer(codes \cup {c}, Set(d, f, "shown"), f) :
        c \in {"OUTPUT_DIS", "OUTPUT_MOSAIC_DIS"}, f \in Are(d, "decoded")}
    \cup {a \in {Answer(codes \cup {"OUTPUT_NODIS"}, d, 0)} :
            Cardinality(Are(d, "decoded")) <= Kept}

Decodes(d) ==
    IF ConsumptionInfo(d)
    THEN UNION {Shows(Set(d, f, "decoded"), {"INPUT_USED", "ONE_FRM_CONSUMED"}) : f \in Are(d, "free")}
    ELSE {Answer({"INPUT_USED", "OUTPUT_DIS"}, Set(d, f, "shown"), f) : f \in Are(d, "free")}

\* VPU_DecDecodeBuf with data.
DecodesData(d) ==
    IF d.vpu = "opened"
    THEN { Answer({"INPUT_USED"}, d, 0),
           Answer({"INPUT_USED", "INIT_OK"}, [d EXCEPT !.vpu = "info"], 0) }
    ELSE Decodes(d)
         \cup { Answer({"INPUT_USED", "OUTPUT_NODIS"}, d, 0),
                Answer({"INPUT_USED", "OUTPUT_DROPPED"}, d, 0),
                Answer({"INPUT_USED", "OUTPUT_NODIS", "FLUSH"}, d, 0) }
         \cup {a \in {Answer({"NO_ENOUGH_BUF"}, d, 0)} : Are(d, "free") = {}}
         \cup {a \in { Answer({"RESOLUTION_CHANGED"},
                              [d EXCEPT !.vpu = "info", !.changes = @ + 1,
                                        !.frames = [f \in Framebuffers |-> "free"],
                                        !.unreturned = {}], 0) } :
                 Upsets(d) < MaxUpsets}

\* And without, to drain it.
Drains(d) ==
    IF Are(d, "decoded") = {}
    THEN {Answer({"OUTPUT_EOS"}, d, 0)}
    ELSE {Answer({"OUTPUT_DIS"}, Set(d, f, "shown"), f) : f \in Are(d, "decoded")}

DecodeBuf(d, data) ==
    {Failure(d)} \cup
    IF d.vpu = "info" THEN {} ELSE IF data THEN DecodesData(d) ELSE Drains(d)

----------------------------------------------------------------------------
\* imx_vpu_dec_decode_frame, in the order of the code.
\* The counter is only ever compared with zero: it stops at the number of frames.
Decrement(d) ==
    [d EXCEPT !.available = @ - 1, !.decremented = IF @ < Number THEN @ + 1 ELSE @]

\* A call of the VPU has failed: nothing is counted, and of frames nobody hears.
Missing(d, frames) == [d EXCEPT !.missed = @ + 1, !.unreturned = @ \cup frames]
MayMiss(d, frames) == {e \in {Missing(d, frames)} : Upsets(d) < MaxUpsets}

Returned(d, f) ==
    LET e == [Set(d, f, "free") EXCEPT !.unreturned = @ \ {f}]
    IN  IF d.decremented > 0
        THEN [e EXCEPT !.available = @ + 1, !.decremented = @ - 1, !.inUse = @ - 1]
        ELSE e

\* The VPU refuses a frame that is not shown, and may refuse one that is. The
\* frame is then forgotten, and nothing is counted.
MarkDisplayed(d, f) ==
    IF d.frames[f] = "shown"
    THEN { [ok |-> TRUE, decoder |-> Returned(d, f)],
           [ok |-> FALSE, decoder |-> [d EXCEPT !.unreturned = @ \cup {f}]] }
    ELSE {[ok |-> FALSE, decoder |-> d]}

\* A frame that is shown may not be to be had.
GetDecodedFrame(d, f) ==
    {[ok |-> TRUE, decoder |-> [d EXCEPT !.inUse = @ + 1]]}
    \cup {[ok |-> FALSE, decoder |-> e] : e \in MayMiss(d, {f})}

Recalculate(d) ==
    IF d.recalculate
    THEN [d EXCEPT !.available = Number - d.inUse, !.recalculate = FALSE]
    ELSE d

\* The flush the VPU asks for; or, after a timeout, a reset.
FlushInside(d, codes) ==
    IF "FLUSH" \in codes THEN [FlushAll(d) EXCEPT !.flushed = TRUE] ELSE d

ForgetFrames(d, codes) ==
    IF "RESOLUTION_CHANGED" \in codes
    THEN [d EXCEPT !.recalculate = FALSE, !.userData = FALSE]
    ELSE d

Consumed(codes) == "ONE_FRM_CONSUMED" \in codes /\ "OUTPUT_DROPPED" \notin codes

\* Without consumption info the user data is stored as the newest.
StoreUserData(d, codes) ==
    IF ~Consumed(codes) /\ ~ConsumptionInfo(d) /\ d.framebuffers
    THEN [d EXCEPT !.crashed = ~d.userData]
    ELSE d

Count(d, codes) == IF Consumed(codes) THEN Decrement(d) ELSE d

\* A mosaic frame is fetched and given back at once.
CountShown(d, codes, f) ==
    IF "OUTPUT_DIS" \in codes /\ ~ConsumptionInfo(d) THEN {[ok |-> TRUE, decoder |-> Decrement(d)]}
    ELSE IF "OUTPUT_MOSAIC_DIS" \in codes
    THEN UNION {IF r.ok THEN MarkDisplayed(r.decoder, f) ELSE {r} : r \in GetDecodedFrame(d, f)}
    ELSE {[ok |-> TRUE, decoder |-> d]}

\* The frame of an answer that shows one.
Shown(a) == IF a.codes \cap {"OUTPUT_DIS", "OUTPUT_MOSAIC_DIS"} = {} THEN {} ELSE {a.frame}

\* After the flush, a failed one as well as one that went right. What was consumed
\* may not be told: then nothing that follows is done.
AfterFlush(a) ==
    LET forgot == ForgetFrames(FlushInside(Recalculate(a.decoder), a.codes), a.codes)
        stored == StoreUserData(forgot, a.codes)
    IN  {IF r.ok THEN [a EXCEPT !.decoder = r.decoder] ELSE Failure(r.decoder) :
            r \in CountShown(Count(stored, a.codes), a.codes, a.frame)}
        \cup {Failure(d) : d \in {e \in MayMiss(forgot, Shown(a)) : Consumed(a.codes)}}
        \cup {b \in {Failure([Recalculate(a.decoder) EXCEPT !.flushed = TRUE])} : "FLUSH" \in a.codes}

\* What comes back: [ok, codes, decoder, frame], the frame if one is shown.
DecodeFrame(d, data) ==
    UNION {IF a.ok THEN AfterFlush(a) ELSE {a} : a \in DecodeBuf(d, data)}

----------------------------------------------------------------------------
\* Mutants.
FlushKeepsCount(d) == {FlushAll(d)}
RegisterAdds(d) ==
    [d EXCEPT !.vpu = "registered", !.framebuffers = TRUE, !.userData = TRUE,
              !.available = @ + Number]

\* imx_vpu_dec_flush: both codecs of the accelerator have flush_vpu_upon_reset.
\* When the flush fails the VPU keeps its frames, and they will not be counted.
DecFlush(d) ==
    {[FlushAll(d) EXCEPT !.recalculate = TRUE]}
    \cup {e \in {[d EXCEPT !.recalculate = TRUE, !.missed = @ + Cardinality(Are(d, "decoded"))]} :
             Upsets(e) <= MaxUpsets}

\* What is in use, and how often the counter was decremented, is not reset.
RegisterFramebuffers(d) ==
    [d EXCEPT !.vpu = "registered", !.framebuffers = TRUE, !.userData = TRUE,
              !.available = Number]
=============================================================================
