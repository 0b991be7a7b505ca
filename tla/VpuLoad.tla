------------------------------ MODULE VpuLoad ------------------------------
(***************************************************************************)
(* packages/net/chromium/imx: the video decoders of the browser share one  *)
(* VPU, which is loaded by the first of them (imx_vpu_dec_load) and        *)
(* unloaded again (imx_vpu_dec_unload), under the lock of                  *)
(* ImxVpuLoadSingleton.  A session is one ImxVpuVideoDecodeAccelerator     *)
(* from Initialize to Destroy.                                             *)
(***************************************************************************)
EXTENDS Naturals

CONSTANT Sessions

VARIABLES
    counter,  \* vpu_load_inst_counter
    loaded,   \* the VPU is loaded
    phase     \* of each session: "new", "open", "failed", "gone"

load == <<counter, loaded, phase>>

LoadInit ==
    /\ counter = 0
    /\ loaded = FALSE
    /\ phase = [s \in Sessions |-> "new"]

\* With a VPU that is loaded already there is nothing to do, not even to count.
DecLoad == counter' = 1 /\ loaded' = TRUE

DecUnload == counter' = 0 /\ loaded' = FALSE

\* A session that gets no memory or cannot be opened unloads what it loaded; one
\* with an unsupported profile, or whose VPU cannot be loaded, leaves it alone.
Initialize(s) ==
    /\ phase[s] = "new"
    /\ \/ DecLoad /\ phase' = [phase EXCEPT ![s] = "open"]
       \/ DecUnload /\ phase' = [phase EXCEPT ![s] = "failed"]
       \/ UNCHANGED <<counter, loaded>> /\ phase' = [phase EXCEPT ![s] = "failed"]

\* The client destroys a session that could not be initialized, too.
Destroy(s) ==
    /\ phase[s] \in {"open", "failed"}
    /\ DecUnload
    /\ phase' = [phase EXCEPT ![s] = "gone"]

LoadTypeOK ==
    /\ counter \in Nat /\ loaded \in BOOLEAN
    /\ phase \in [Sessions -> {"new", "open", "failed", "gone"}]

\* "Thanks to an internal reference counter, it is safe to call these functions
\* more than once" (imxvpucodec.h:371): no session is open on a VPU that another
\* one has unloaded.
LoadedWhileOpen == \A s \in Sessions : phase[s] = "open" => loaded
=============================================================================
