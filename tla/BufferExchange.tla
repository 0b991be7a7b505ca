--------------------------- MODULE BufferExchange ---------------------------
(***************************************************************************)
(* What a video decode accelerator promises to its client about the        *)
(* bitstream buffers: a buffer is the decoder's from Decode until the      *)
(* client is told of its end, once; and when a reset is reported done, the *)
(* client has back every buffer that it had lent before, except those the  *)
(* decoder failed on, which it never hears of again.                       *)
(***************************************************************************)
CONSTANT Buffers

VARIABLES
    lent,   \* the decoder's
    lost,   \* lent, and given up without a word
    asked,  \* "none", "flush" or "reset": what the client waits for
    due     \* what must be back before the reset is done

exchange == <<lent, lost, asked, due>>

Init == lent = {} /\ lost = {} /\ asked = "none" /\ due = {}

\* One call decodes at most one buffer, and may fail on it.
MayLose(S) == lost' = lost \/ \E b \in S \ due : lost' = lost \cup {b}

Lend(b) ==
    /\ b \notin lent
    /\ lent' = lent \cup {b}
    /\ MayLose(lent')
    /\ UNCHANGED <<asked, due>>

Return(b) ==
    /\ b \in lent \ lost
    /\ lent' = lent \ {b}
    /\ due' = due \ {b}
    /\ UNCHANGED <<lost, asked>>

Work == MayLose(lent) /\ UNCHANGED <<lent, asked, due>>

Flush ==
    /\ asked = "none" /\ asked' = "flush"
    /\ MayLose(lent)
    /\ UNCHANGED <<lent, due>>

Reset ==
    /\ asked = "none" /\ asked' = "reset"
    /\ due' = lent \ lost
    /\ UNCHANGED <<lent, lost>>

Done ==
    /\ asked # "none" /\ asked' = "none"
    /\ due = {}
    /\ UNCHANGED <<lent, lost, due>>

\* The client is done with the decoder.
Destroy == lent' = {} /\ lost' = {} /\ asked' = "none" /\ due' = {}

Next ==
    \/ \E b \in Buffers : Lend(b) \/ Return(b)
    \/ Work \/ Flush \/ Reset \/ Done \/ Destroy

Spec == Init /\ [][Next]_exchange
=============================================================================
