--------------------------- MODULE VpuAccelerator ---------------------------
(***************************************************************************)
(* packages/net/chromium/imx, imxvpu_video_decode_accelerator.cc: the      *)
(* browser's video decoder, between a client that lends it bitstream       *)
(* buffers and picture buffers and the VPU that decodes into framebuffers. *)
(*                                                                         *)
(* A handler runs under lock_ and never calls the client: what it has to   *)
(* say is posted, and reaches the client later, in order.  A bitstream     *)
(* buffer waits in input_queue_ while too few framebuffers are free.  A    *)
(* picture is a framebuffer bound to a texture: the client holds it until  *)
(* ReusePictureBuffer.                                                     *)
(*                                                                         *)
(* The session is one of several that share the VPU; of the other ones     *)
(* only Initialize and Destroy matter.  The client is not part of the      *)
(* repository.                                                             *)
(***************************************************************************)
EXTENDS VpuWrapper, VpuLoad, SequencesExt

CONSTANTS
    Me,       \* the session
    Buffers,  \* the ids of the client's bitstream buffers
    Codecs    \* of the profiles asked for

VARIABLES
    decoder,   \* vpu_decoder_
    queue,     \* input_queue_
    received,  \* initial_info_received_
    pictures,  \* the ids in output_picture_buffers_
    tags,      \* framebuffer.user_data, the id of the picture buffer
    draining,  \* inside the loop of Flush
    tasks,     \* posted to the message loop: <<what, id>>
    lent,      \* bitstream buffers that are not the client's
    held,      \* pictures the client shows
    asked,     \* "none", "flush", "reset": what the client waits for
    wants,     \* ProvidePictureBuffers calls the client has yet to answer
    nextId,    \* of the client's next picture buffer
    lost       \* (history) buffers whose end will not be told

accelerator == <<decoder, queue, received, pictures, tags, draining>>
client == <<lent, held, asked, wants, nextId>>
vars == <<load, accelerator, tasks, client, lost>>

Init ==
    /\ LoadInit
    /\ decoder \in {DecOpen(codec) : codec \in Codecs}
    /\ queue = <<>> /\ received = FALSE /\ pictures = {}
    /\ tags = [f \in Framebuffers |-> 0]
    /\ draining = FALSE /\ tasks = <<>>
    /\ lent = {} /\ held = {} /\ asked = "none" /\ wants = 0 /\ nextId = 0
    /\ lost = {}

\* The handlers wait for lock_, and run only between Initialize and Destroy.
Running == phase[Me] = "open" /\ ~draining /\ ~decoder.crashed

----------------------------------------------------------------------------
\* ProcessInput.
End(input) == IF input = <<>> THEN <<>> ELSE <<<<"end", input[1]>>>>

\* AllocateAndRegisterVPUFramebuffers: there may not be the memory, or before it
\* not the initial info.
AllocateAndRegister(d) ==
    {[ok |-> FALSE, decoder |-> d], [ok |-> TRUE, decoder |-> RegisterFramebuffers(d)]}

\* The client is asked for pictures, for framebuffers that have none yet.
Informed(r, input, ids) ==
    [ decoder |-> r.decoder,
      tags |-> IF r.ok THEN [f \in Framebuffers |-> 0] ELSE ids,
      informed |-> r.ok,
      posted |-> IF r.ok THEN Append(End(input), <<"provide", 0>>) ELSE End(input),
      ok |-> r.ok ]

\* The picture of a frame is posted; or the frame has none, or was not to be had.
Sent(d, input, id, ids) ==
    [ decoder |-> d, tags |-> ids, informed |-> FALSE,
      posted |-> Append(End(input), <<"ready", id>>), ok |-> TRUE ]
Unsent(d, input, ids) ==
    [decoder |-> d, tags |-> ids, informed |-> FALSE, posted |-> End(input), ok |-> FALSE]

\* Mutant: the frame goes back to the VPU as soon as it is sent.
DisplayedAtOnce(a, input, pics, ids) ==
    UNION {IF ~r.ok THEN {Unsent(r.decoder, input, ids)}
           ELSE {IF ids[a.frame] \in pics THEN Sent(m.decoder, input, ids[a.frame], ids)
                                          ELSE Unsent(m.decoder, input, ids) :
                    m \in MarkDisplayed(r.decoder, a.frame)} :
              r \in GetDecodedFrame(a.decoder, a.frame)}

\* The picture of the frame; without one the frame goes back to the VPU, if it
\* takes it. The pointer to a framebuffer that was fetched is never null.
ProcessOutput(a, input, pics, ids) ==
    UNION {IF ~r.ok THEN {Unsent(r.decoder, input, ids)}
           ELSE IF ids[a.frame] \in pics THEN {Sent(r.decoder, input, ids[a.frame], ids)}
           ELSE {Unsent(m.decoder, input, ids) : m \in MarkDisplayed(r.decoder, a.frame)} :
              r \in GetDecodedFrame(a.decoder, a.frame)}

\* A buffer whose decoding fails is not ended.
Undecoded(a, ids) ==
    [decoder |-> a.decoder, tags |-> ids, informed |-> FALSE, posted |-> <<>>, ok |-> FALSE]

Nothing(a, input, ids) ==
    [ decoder |-> a.decoder, tags |-> ids, informed |-> FALSE, posted |-> End(input),
      ok |-> "OUTPUT_EOS" \notin a.codes ]

Processed(a, input, pics, ids) ==
    IF ~a.ok \/ a.decoder.crashed THEN {Undecoded(a, ids)}
    ELSE IF a.codes \cap {"INIT_OK", "RESOLUTION_CHANGED"} # {}
    THEN {Informed(r, input, ids) : r \in AllocateAndRegister(a.decoder)}
    ELSE IF "OUTPUT_DIS" \in a.codes THEN ProcessOutput(a, input, pics, ids)
    ELSE {Nothing(a, input, ids)}

\* Of the decoder d; input is <<buffer>>, or <<>> to drain it.
ProcessInput(d, input, pics, ids) ==
    UNION {Processed(a, input, pics, ids) : a \in DecodeFrame(d, input # <<>>)}

Outcome(r) ==
    /\ decoder' = r.decoder /\ tags' = r.tags
    /\ received' = (received \/ r.informed)
    /\ tasks' = tasks \o r.posted

\* Mutant: more than the required number must be free.
WaitsForMore(d, q, pics) ==
    \/ q = <<>>
    \/ received /\ pics = {}
    \/ received /\ d.available <= MinRequired

\* ProcessQueuedInput: one buffer, which leaves the queue whatever comes of it.
Waits(d, q, pics) ==
    \/ q = <<>>
    \/ received /\ pics = {}
    \/ received /\ d.available < MinRequired

ProcessQueuedInput(d, q, pics, ids) ==
    /\ pictures' = pics
    /\ IF Waits(d, q, pics)
       THEN /\ decoder' = d /\ queue' = q /\ tags' = ids
            /\ UNCHANGED <<received, tasks, lost>>
       ELSE \E r \in ProcessInput(d, <<Head(q)>>, pics, ids) :
            /\ Outcome(r)
            /\ queue' = Tail(q)
            /\ lost' = IF r.posted = <<>> THEN lost \cup {Head(q)} ELSE lost

----------------------------------------------------------------------------
\* The calls of the client.
Decode(b) ==
    /\ Running /\ b \notin lent
    /\ lent' = lent \cup {b}
    /\ ProcessQueuedInput(decoder, Append(queue, b), pictures, tags)
    /\ UNCHANGED <<load, draining, held, asked, wants, nextId>>

\* As many as asked for, with new ids; those of an earlier resolution stay.
AssignPictureBuffers ==
    /\ Running /\ wants > 0
    /\ wants' = wants - 1 /\ nextId' = nextId + Number
    /\ LET ids == [f \in Framebuffers |-> nextId + f]
       IN  ProcessQueuedInput(decoder, queue,
                              pictures \cup {ids[f] : f \in Framebuffers}, ids)
    /\ UNCHANGED <<load, draining, lent, held, asked>>

\* The first framebuffer of that id. When the VPU refuses it, nothing else is done.
ReusePictureBuffer(p) ==
    /\ Running /\ p \in held
    /\ held' = held \ {p}
    /\ IF \E f \in Framebuffers : tags[f] = p
       THEN LET f == CHOOSE f \in Framebuffers :
                         tags[f] = p /\ \A g \in Framebuffers : tags[g] = p => f <= g
            IN  \E r \in MarkDisplayed(decoder, f) :
                    IF r.ok THEN ProcessQueuedInput(r.decoder, queue, pictures, tags)
                    ELSE decoder' = r.decoder /\ UNCHANGED <<queue, received, pictures, tags, tasks, lost>>
       ELSE UNCHANGED <<decoder, queue, received, pictures, tags, tasks, lost>>
    /\ UNCHANGED <<load, draining, lent, asked, wants, nextId>>

Flush ==
    /\ Running /\ asked = "none"
    /\ asked' = "flush" /\ draining' = TRUE
    /\ ProcessQueuedInput(decoder, queue, pictures, tags)
    /\ UNCHANGED <<load, lent, held, wants, nextId>>

\* The loop of Flush: until it fails or nothing is left.
Drain ==
    /\ draining /\ ~decoder.crashed
    /\ \E r \in ProcessInput(decoder, <<>>, pictures, tags) :
        /\ decoder' = r.decoder /\ tags' = r.tags
        /\ received' = (received \/ r.informed)
        /\ draining' = r.ok
        /\ tasks' = tasks \o r.posted \o IF r.ok THEN <<>> ELSE <<<<"done", 0>>>>
    /\ UNCHANGED <<load, queue, pictures, client, lost>>

\* Mutant: the end of the reset is posted before those of the buffers.
DoneFirst ==
    /\ Running /\ asked = "none"
    /\ asked' = "reset"
    /\ decoder' \in DecFlush(decoder)
    /\ queue' = <<>>
    /\ tasks' = Append(tasks, <<"done", 0>>) \o [i \in DOMAIN queue |-> <<"end", queue[i]>>]
    /\ UNCHANGED <<load, received, pictures, tags, draining, lent, held, wants, nextId, lost>>

Reset ==
    /\ Running /\ asked = "none"
    /\ asked' = "reset"
    /\ decoder' \in DecFlush(decoder)
    /\ queue' = <<>>
    /\ tasks' = tasks \o [i \in DOMAIN queue |-> <<"end", queue[i]>>] \o <<<<"done", 0>>>>
    /\ UNCHANGED <<load, received, pictures, tags, draining, lent, held, wants, nextId, lost>>

\* The client hears of what was posted.
Hear(what) ==
    /\ phase[Me] = "open" /\ ~draining /\ ~decoder.crashed
    /\ tasks # <<>> /\ Head(tasks)[1] = what
    /\ tasks' = Tail(tasks)
    /\ UNCHANGED <<load, accelerator, nextId, lost>>

NotifyEndOfBitstreamBuffer ==
    /\ Hear("end") /\ lent' = lent \ {Head(tasks)[2]}
    /\ UNCHANGED <<held, asked, wants>>

ProvidePictureBuffers ==
    /\ Hear("provide") /\ wants' = wants + 1
    /\ UNCHANGED <<lent, held, asked>>

PictureReady ==
    /\ Hear("ready") /\ held' = held \cup {Head(tasks)[2]}
    /\ UNCHANGED <<lent, asked, wants>>

NotifyDone ==
    /\ Hear("done") /\ asked' = "none"
    /\ UNCHANGED <<lent, held, wants>>

\* Cleanup and delete: all that the session had is gone. client_ is a weak
\* pointer: what was posted does not arrive any more.
DestroySession(s) ==
    /\ s = Me => ~draining /\ ~decoder.crashed
    /\ Destroy(s)
    /\ IF s = Me
       THEN /\ decoder' = DecClose(decoder) /\ queue' = <<>> /\ tasks' = <<>>
            /\ pictures' = {} /\ tags' = [f \in Framebuffers |-> 0] /\ received' = FALSE
            /\ lent' = {} /\ held' = {} /\ asked' = "none" /\ wants' = 0 /\ lost' = {}
            /\ UNCHANGED <<draining, nextId>>
       ELSE UNCHANGED <<accelerator, tasks, client, lost>>

InitializeSession(s) == Initialize(s) /\ UNCHANGED <<accelerator, tasks, client, lost>>

Next ==
    \/ \E b \in Buffers : Decode(b)
    \/ AssignPictureBuffers
    \/ \E p \in held : ReusePictureBuffer(p)
    \/ Flush \/ Drain \/ Reset
    \/ NotifyEndOfBitstreamBuffer \/ ProvidePictureBuffers \/ PictureReady \/ NotifyDone
    \/ \E s \in Sessions : InitializeSession(s) \/ DestroySession(s)

\* The tasks are run and the loop of Flush goes on; the stream does not end, and
\* the client provides pictures and gives back what it has shown.
Fairness ==
    /\ WF_vars(Drain \/ NotifyEndOfBitstreamBuffer \/ ProvidePictureBuffers
               \/ PictureReady \/ NotifyDone)
    /\ SF_vars(\E b \in Buffers : Decode(b))
    /\ SF_vars(AssignPictureBuffers \/ \E p \in held : ReusePictureBuffer(p))

Spec == Init /\ [][Next]_vars /\ Fairness

----------------------------------------------------------------------------
Ready == {t[2] : t \in {u \in Range(tasks) : u[1] = "ready"}}

\* Every variable has its type; the counters of the wrapper stay within the number
\* of framebuffers, but for the frames that were missed, and except that frames in
\* use pile up when the resolution changes.
TypeOK ==
    /\ LoadTypeOK
    /\ decoder.frames \in [Framebuffers -> {"free", "decoded", "shown"}]
    /\ decoder.available \in -(Number * decoder.changes + decoder.missed) .. Number + decoder.missed
    /\ decoder.decremented \in 0 .. Number
    /\ decoder.inUse \in -decoder.missed .. Number * (decoder.changes + 1) + decoder.missed
    /\ decoder.changes \in Nat /\ decoder.missed \in Nat /\ Upsets(decoder) <= MaxUpsets
    /\ decoder.unreturned \subseteq Are(decoder, "shown")
    /\ Range(queue) \subseteq Buffers /\ lent \subseteq Buffers /\ lost \subseteq lent
    /\ received \in BOOLEAN /\ draining \in BOOLEAN /\ wants \in 0 .. decoder.changes + 1
    /\ pictures \subseteq 0 .. nextId - 1 /\ held \subseteq pictures

\* The counter of free framebuffers, on which the queue waits, promises more than
\* the VPU has only by the frames it did not hear of because a call failed, and is
\* right when there are none, except between a reset and the next buffer, when the
\* VPU was flushed by its own wish, and after a change of the resolution, which
\* leaves too many in use (imxvpucodec_fslwrapper.c 747, 829, 871, 886, 952, 1039).
CountIsRight ==
    decoder.vpu = "registered" =>
        /\ decoder.available <= Cardinality(Are(decoder, "free")) + decoder.missed
        /\ decoder.changes + decoder.missed = 0 /\ ~decoder.recalculate /\ ~decoder.flushed =>
               decoder.available = Cardinality(Are(decoder, "free"))

\* Until the resolution changes, what the client shows or is about to be sent is
\* a framebuffer the VPU keeps its hands off, no picture is sent twice, and every
\* framebuffer that is shown is the client's to give back, but for those that a
\* failed call has left with nobody (imxvpu_video_decode_accelerator.cc:613, 640).
ShownIsTheClients ==
    decoder.changes = 0 =>
        /\ {tags[f] : f \in Owed(decoder)} = held \cup Ready
        /\ Cardinality(Owed(decoder))
           = Cardinality(held) + Cardinality({i \in DOMAIN tasks : tasks[i][1] = "ready"})

\* What excuses a buffer that does not end, see EveryBufferEnds.
Excused ==
    \/ lost # {} \/ decoder.unreturned # {}
    \/ decoder.changes > 0 \/ decoder.flushed \/ phase[Me] # "open"

\* As long as no call of the VPU fails, the resolution does not change and the VPU
\* does not flush itself, no buffer is stuck: the client hears of its end
\* (imxvpu_video_decode_accelerator.cc:478, one buffer a call). A failure can
\* leave the buffers queued behind it stuck: nothing calls for the next one.
EveryBufferEnds == \A b \in Buffers : b \in lent ~> (b \notin lent \/ Excused)

\* What the client was promised about its buffers, see BufferExchange. A reset
\* waits for the ends that were posted before it.
Due ==
    IF asked # "reset" THEN {}
    ELSE {tasks[i][2] : i \in {j \in DOMAIN tasks :
              tasks[j][1] = "end" /\ \E k \in DOMAIN tasks : k > j /\ tasks[k][1] = "done"}}
Exchange == INSTANCE BufferExchange WITH due <- Due

\* Every step of the accelerator is a step of BufferExchange, or changes nothing of
\* it: no buffer ends twice or without having been lent, and the client hears that
\* a reset is done only after the ends of all buffers it lent before
\* (imxvpu_video_decode_accelerator.cc:258-294).
KeepsPromise == Exchange!Spec

=============================================================================
