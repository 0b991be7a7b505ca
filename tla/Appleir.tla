------------------------------ MODULE Appleir ------------------------------
(***************************************************************************)
(* packages/drivers/appleir: the kernel driver of Apple's infrared remote. *)
(*                                                                         *)
(* The remote tells when a key goes down and, while it is held, that it    *)
(* still is.  It never tells that the key was released, so the driver      *)
(* releases it: when another key goes down, or by a timer.                 *)
(*                                                                         *)
(* Three things run at the same time, without a lock: the completion       *)
(* handler of the USB request (appleir_urb), the timer (key_up_tick) and   *)
(* the process that probes, opens, closes or disconnects.  The USB, timer  *)
(* and input layers of the kernel are modelled by what the driver needs:   *)
(* usb_kill_urb and del_timer_sync wait for a handler that is running, and *)
(* the input layer forgets what it had as pressed when a device goes.      *)
(***************************************************************************)
EXTENDS Naturals

CONSTANTS Keys  \* the codes in keymap, KEY_RESERVED left out

Reserved == 0   \* KEY_RESERVED, also "no key" in current_key

ASSUME KeysAssumption == Reserved \notin Keys

Codes == Keys \cup {Reserved}

VARIABLES
    process,   \* where the process is, "idle" when in none of the functions
    users,     \* the input device is open
    memory,    \* struct appleir is allocated
    urb,       \* the request: "idle", "flying", or its handler "running"
    handler,   \* the line of the handler
    packet,    \* the key of the packet it works on
    pending,   \* the timer is set
    tick,      \* the line of the timer's function
    seen,      \* what the timer's function read from current_key
    current,   \* appleir->current_key
    down,      \* the keys the input layer has as pressed
    leftover,  \* (history) keys that were down when the device was closed
    raced      \* (history) timer and handler were at a key at the same time

vars == <<process, users, memory, urb, handler, packet, pending, tick, seen,
          current, down, leftover, raced>>

driver == <<users, memory, process>>
requests == <<urb, handler, packet>>
timer == <<pending, tick, seen>>
keys == <<current, down, leftover>>

Init ==
    /\ process = "unbound" /\ users = FALSE /\ memory = FALSE
    /\ urb = "idle" /\ handler = "idle" /\ packet = Reserved
    /\ pending = FALSE /\ tick = "idle" /\ seen = Reserved
    /\ current = Reserved /\ down = {} /\ leftover = {}
    /\ raced = FALSE

----------------------------------------------------------------------------
\* What the input layer does with a report: KEY_RESERVED is not in keybit.
KeyUp(k) == down' = down \ {k} /\ leftover' = leftover \ {k}
KeyDown(k) == down' = down \cup ({k} \cap Keys) /\ UNCHANGED leftover

\* The completion handler.  It is called with a packet, or with an error after
\* which it only submits the request again.
HandlerGoes(from, to) == handler = from /\ handler' = to

Completed(line, k) ==
    /\ urb = "flying" /\ urb' = "running"
    /\ handler' = line /\ packet' = k
    /\ UNCHANGED <<driver, timer, keys>>

PacketDown == \E k \in Codes : Completed("test", k)
PacketRepeat == Completed("repeat", Reserved)
PacketOther == Completed("resubmit", Reserved)

\* The device was pulled out: the request ends and is not submitted again.
Shutdown ==
    /\ urb = "flying" /\ urb' = "idle"
    /\ UNCHANGED <<driver, handler, packet, timer, keys>>

TestNot ==   \* Mutant: the key that is down is not taken up first.
    /\ HandlerGoes("test", "set")
    /\ UNCHANGED <<driver, urb, packet, timer, keys>>

NewDataTest ==
    /\ HandlerGoes("test", IF current # Reserved THEN "up" ELSE "set")
    /\ UNCHANGED <<driver, urb, packet, timer, keys>>

NewDataUp ==
    /\ HandlerGoes("up", "set")
    /\ KeyUp(current)
    /\ UNCHANGED <<driver, urb, packet, timer, current>>

NewDataSet ==
    /\ HandlerGoes("set", "down")
    /\ current' = packet
    /\ UNCHANGED <<driver, urb, packet, timer, down, leftover>>

NewDataRepeat ==
    /\ HandlerGoes("repeat", "down")
    /\ packet' = current
    /\ UNCHANGED <<driver, urb, timer, keys>>

\* The compiler may keep what it has just stored or load it again.
NewDataDown ==
    /\ HandlerGoes("down", "settimer")
    /\ \E k \in {packet, current} : KeyDown(k)
    /\ UNCHANGED <<driver, urb, packet, timer, current>>

TimerUnset ==   \* Mutant: no mod_timer.
    /\ HandlerGoes("settimer", "resubmit")
    /\ UNCHANGED <<driver, urb, packet, timer, keys>>

NewDataTimer ==
    /\ HandlerGoes("settimer", "resubmit")
    /\ pending' = TRUE
    /\ UNCHANGED <<driver, urb, packet, tick, seen, keys>>

\* Submitting may fail, and does while usb_kill_urb waits.
Resubmit ==
    /\ HandlerGoes("resubmit", "idle")
    /\ urb' \in {"idle", "flying"}
    /\ packet' = Reserved
    /\ UNCHANGED <<driver, timer, keys>>

Handler ==
    \/ PacketDown \/ PacketRepeat \/ PacketOther \/ Shutdown
    \/ NewDataTest \/ NewDataUp \/ NewDataSet \/ NewDataRepeat \/ NewDataDown
    \/ NewDataTimer \/ Resubmit

----------------------------------------------------------------------------
\* key_up_tick.
TickTest ==
    /\ pending /\ tick = "idle"
    /\ pending' = FALSE
    /\ IF current # Reserved THEN tick' = "up" /\ seen' = current
                             ELSE UNCHANGED <<tick, seen>>
    /\ UNCHANGED <<driver, requests, keys>>

TickUp ==
    /\ tick = "up" /\ tick' = "clear"
    /\ \E k \in {seen, current} : KeyUp(k)
    /\ UNCHANGED <<driver, requests, pending, seen, current>>

TickClear ==
    /\ tick = "clear" /\ tick' = "idle"
    /\ seen' = Reserved
    /\ current' = Reserved
    /\ UNCHANGED <<driver, requests, pending, down, leftover>>

Tick == TickTest \/ TickUp \/ TickClear

----------------------------------------------------------------------------
\* The process.
Goes(from, to) == process = from /\ process' = to

\* The structure comes cleared (kzalloc).  A failure leaves nothing behind that
\* is used again.
Probe ==
    /\ Goes("unbound", "idle")
    /\ memory' = TRUE
    /\ current' = Reserved
    /\ UNCHANGED <<users, requests, timer, down, leftover>>

Open ==
    /\ Goes("idle", "idle")
    /\ ~users /\ users' = TRUE
    /\ urb' = "flying"
    /\ UNCHANGED <<memory, handler, packet, timer, keys>>

\* usb_kill_urb: a request that flies ends with -ENOENT, and appleir_urb
\* returns; a handler that runs ends by itself.
KillUrb ==
    /\ handler = "idle"
    /\ urb' = "idle"
    /\ UNCHANGED <<handler, packet>>

DelTimerSync ==
    /\ tick = "idle"
    /\ pending' = FALSE
    /\ UNCHANGED <<tick, seen>>

\* Closing because the last user goes, or because input_unregister_device
\* takes the device from its users.
CloseTimerFirst(then) ==   \* Mutant: the other order.
    \/ Goes(then[1], then[2]) /\ DelTimerSync /\ UNCHANGED <<requests, users, keys>>
    \/ /\ Goes(then[2], then[3]) /\ KillUrb /\ UNCHANGED timer
       /\ users' = FALSE /\ leftover' = down /\ UNCHANGED <<current, down>>

CloseKeepsUrb(then) ==   \* Mutant: no usb_kill_urb.
    /\ Goes(then[1], then[3]) /\ DelTimerSync /\ UNCHANGED requests
    /\ users' = FALSE /\ leftover' = down /\ UNCHANGED <<current, down>>

AppleirClose(then) ==
    \/ Goes(then[1], then[2]) /\ KillUrb /\ UNCHANGED <<timer, users, keys>>
    \/ /\ Goes(then[2], then[3]) /\ DelTimerSync /\ UNCHANGED requests
       /\ users' = FALSE /\ leftover' = down /\ UNCHANGED <<current, down>>

CloseBegins ==
    /\ Goes("idle", "kill") /\ users
    /\ UNCHANGED <<users, memory, requests, timer, keys>>

Close == AppleirClose(<<"kill", "deltimer", "idle">>) /\ UNCHANGED memory

StaysRegistered ==   \* Mutant: no input_unregister_device.
    /\ Goes("idle", "disdeltimer")
    /\ UNCHANGED <<users, memory, requests, timer, keys>>

\* The input layer releases what is pressed before it closes.
Unregister ==
    /\ Goes("idle", IF users THEN "unkill" ELSE "disdeltimer")
    /\ down' = {} /\ leftover' = {}
    /\ UNCHANGED <<users, memory, requests, timer, current>>

UnregisterClose ==
    AppleirClose(<<"unkill", "undeltimer", "disdeltimer">>) /\ UNCHANGED memory

DisconnectDelTimer ==
    /\ Goes("disdeltimer", "diskill") /\ DelTimerSync
    /\ UNCHANGED <<users, memory, requests, keys>>

DisconnectKill ==
    /\ Goes("diskill", "free") /\ KillUrb
    /\ UNCHANGED <<users, memory, timer, keys>>

\* kfree; the input device is gone with what was pressed on it.
DisconnectFree ==
    /\ Goes("free", "unbound")
    /\ memory' = FALSE
    /\ down' = {} /\ leftover' = {}
    /\ UNCHANGED <<users, requests, timer, current>>

Process ==
    \/ Probe \/ Open \/ CloseBegins \/ Close \/ Unregister \/ UnregisterClose
    \/ DisconnectDelTimer \/ DisconnectKill \/ DisconnectFree

\* The timer's function is at work while the handler is between choosing a key
\* and reporting it as pressed.
Overlap == tick # "idle" /\ handler = "down"

Next ==
    /\ Handler \/ Tick \/ Process
    /\ raced' = (memory' /\ (raced \/ Overlap'))

Spec == Init /\ [][Next]_vars

----------------------------------------------------------------------------
\* Every variable has its type; without the structure nobody has the input
\* device open and nothing is pressed on it.
TypeOK ==
    /\ process \in {"unbound", "idle", "kill", "deltimer", "unkill", "undeltimer",
                   "disdeltimer", "diskill", "free"}
    /\ memory = (process # "unbound")
    /\ users \in BOOLEAN /\ urb \in {"idle", "flying", "running"}
    /\ handler \in {"idle", "test", "up", "set", "repeat", "down", "settimer",
                   "resubmit"}
    /\ (urb = "running") = (handler # "idle")
    /\ packet \in Codes /\ seen \in Codes /\ current \in Codes
    /\ pending \in BOOLEAN /\ tick \in {"idle", "up", "clear"}
    /\ leftover \subseteq down /\ down \subseteq Keys
    /\ raced \in BOOLEAN
    /\ ~memory => ~users /\ down = {}

Quiet == urb = "idle" /\ handler = "idle" /\ ~pending /\ tick = "idle"

AtRest == process = "idle" /\ handler = "idle" /\ tick = "idle"

\* Neither the handler nor the timer runs, or is still to run, once
\* appleir_disconnect has freed the structure that both work on.  It deletes the
\* timer BEFORE it kills the request, whose handler sets the timer: what makes
\* that safe is appleir_close, which has run by then in the other order.
NoUseAfterFree == ~memory => Quiet

\* A device nobody has open reports no key: closing leaves neither a request
\* nor a timer.
QuietWhenClosed == AtRest /\ ~users => Quiet

\* As long as timer and handler never met at a key, whatever is pressed while
\* the device is open will be released by the timer, except what was already
\* pressed when it was opened; and that the next key releases.
HeldHasTimer == AtRest /\ users /\ ~raced => down \subseteq leftover \/ pending

\* As long as timer and handler never met at a key, the only key that may be down
\* is the current key, which new_data takes up before it marks another.
PressedIsCurrent == AtRest /\ ~raced => down \subseteq {current}

=============================================================================
