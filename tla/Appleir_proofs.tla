--------------------------- MODULE Appleir_proofs ---------------------------
(***************************************************************************)
(* Proofs about the driver of the remote, for every set of keys.           *)
(*                                                                         *)
(* Two facts carry the invariants.  Where the process is says what can     *)
(* still run (Phases): from the moment the request is killed nothing sets  *)
(* the timer any more.  And as long as timer and handler never met, down   *)
(* and current_key move together (Together).                               *)
(***************************************************************************)
EXTENDS Appleir, TLAPS

\* What can still run at each line of the process.
Phases ==
    /\ process = "unbound" => Quiet
    /\ process = "idle" /\ ~users => Quiet
    /\ process \in {"kill", "deltimer", "unkill", "undeltimer"} => users
    /\ process \in {"deltimer", "undeltimer"} => urb = "idle"
    /\ process \in {"disdeltimer", "diskill", "free"} => Quiet /\ ~users

\* What is pressed is the current key, and nothing where handler or timer rely on
\* it; and whatever is pressed has a timer, or one of them is about to see to it.
Together ==
    /\ ~Overlap
    /\ down \subseteq {current}
    /\ tick = "up" => seen = current
    /\ tick = "clear" => down = {}
    /\ handler = "set" => down = {}
    /\ handler = "down" => packet = current
    /\ down \subseteq leftover \/ pending \/ handler = "settimer" \/ tick = "up"

IInv == TypeOK /\ Phases /\ (raced \/ Together)

----------------------------------------------------------------------------
\* What Phases and TypeOK say together: nothing runs on memory that is not there.
LEMMA QuietIsIdle ==
    ASSUME TypeOK, Phases, ~memory
    PROVE  Quiet /\ down = {} /\ process = "unbound"
BY DEF TypeOK, Phases

\* No step of the driver spoils a type.
LEMMA TypeStep ==
    ASSUME TypeOK, Phases, Next
    PROVE  TypeOK'
<1> USE KeysAssumption DEF TypeOK, Phases, Quiet, Codes, driver, requests, timer, keys,
                           Goes, HandlerGoes, KeyUp, KeyDown
<1>r. raced' \in BOOLEAN
  BY DEF Next
<1>1. CASE PacketDown
  BY <1>1, <1>r DEF PacketDown, Completed
<1>2. CASE PacketRepeat
  BY <1>2, <1>r DEF PacketRepeat, Completed
<1>3. CASE PacketOther
  BY <1>3, <1>r DEF PacketOther, Completed
<1>4. CASE Shutdown
  BY <1>4, <1>r DEF Shutdown
<1>5. CASE NewDataTest
  BY <1>5, <1>r DEF NewDataTest
<1>6. CASE NewDataUp
  BY <1>6, <1>r DEF NewDataUp
<1>7. CASE NewDataSet
  BY <1>7, <1>r DEF NewDataSet
<1>8. CASE NewDataRepeat
  BY <1>8, <1>r DEF NewDataRepeat
<1>9. CASE NewDataDown
  BY <1>9, <1>r DEF NewDataDown
<1>10. CASE NewDataTimer
  BY <1>10, <1>r DEF NewDataTimer
<1>11. CASE Resubmit
  BY <1>11, <1>r DEF Resubmit
<1>12. CASE TickTest
  BY <1>12, <1>r DEF TickTest
<1>13. CASE TickUp
  BY <1>13, <1>r DEF TickUp
<1>14. CASE TickClear
  BY <1>14, <1>r DEF TickClear
<1>15. CASE Probe
  BY <1>15, <1>r DEF Probe
<1>16. CASE Open
  BY <1>16, <1>r DEF Open
<1>17. CASE CloseBegins
  BY <1>17, <1>r DEF CloseBegins
<1>18. CASE Close
  BY <1>18, <1>r DEF Close, AppleirClose, KillUrb, DelTimerSync
<1>19. CASE Unregister
  BY <1>19, <1>r DEF Unregister
<1>20. CASE UnregisterClose
  BY <1>20, <1>r DEF UnregisterClose, AppleirClose, KillUrb, DelTimerSync
<1>21. CASE DisconnectDelTimer
  BY <1>21, <1>r DEF DisconnectDelTimer, DelTimerSync
<1>22. CASE DisconnectKill
  BY <1>22, <1>r DEF DisconnectKill, KillUrb
<1>23. CASE DisconnectFree
  BY <1>23, <1>r DEF DisconnectFree
<1> QED
  BY <1>1, <1>2, <1>3, <1>4, <1>5, <1>6, <1>7, <1>8, <1>9, <1>10, <1>11, <1>12,
     <1>13, <1>14, <1>15, <1>16, <1>17, <1>18, <1>19, <1>20, <1>21, <1>22, <1>23
  DEF Next, Handler, Tick, Process

\* Wherever the process goes, what must have ended by then has ended.
LEMMA PhasesStep ==
    ASSUME TypeOK, Phases, Next
    PROVE  Phases'
<1> USE DEF TypeOK, Phases, Quiet, driver, requests, timer, keys, Goes, HandlerGoes,
            KeyUp, KeyDown
<1>1. CASE PacketDown
  BY <1>1 DEF PacketDown, Completed
<1>2. CASE PacketRepeat
  BY <1>2 DEF PacketRepeat, Completed
<1>3. CASE PacketOther
  BY <1>3 DEF PacketOther, Completed
<1>4. CASE Shutdown
  BY <1>4 DEF Shutdown
<1>5. CASE NewDataTest
  BY <1>5 DEF NewDataTest
<1>6. CASE NewDataUp
  BY <1>6 DEF NewDataUp
<1>7. CASE NewDataSet
  BY <1>7 DEF NewDataSet
<1>8. CASE NewDataRepeat
  BY <1>8 DEF NewDataRepeat
<1>9. CASE NewDataDown
  BY <1>9 DEF NewDataDown
<1>10. CASE NewDataTimer
  BY <1>10 DEF NewDataTimer
<1>11. CASE Resubmit
  BY <1>11 DEF Resubmit
<1>12. CASE TickTest
  BY <1>12 DEF TickTest
<1>13. CASE TickUp
  BY <1>13 DEF TickUp
<1>14. CASE TickClear
  BY <1>14 DEF TickClear
<1>15. CASE Probe
  BY <1>15 DEF Probe
<1>16. CASE Open
  BY <1>16 DEF Open
<1>17. CASE CloseBegins
  BY <1>17 DEF CloseBegins
<1>18. CASE Close
  BY <1>18 DEF Close, AppleirClose, KillUrb, DelTimerSync
<1>19. CASE Unregister
  BY <1>19 DEF Unregister
<1>20. CASE UnregisterClose
  BY <1>20 DEF UnregisterClose, AppleirClose, KillUrb, DelTimerSync
<1>21. CASE DisconnectDelTimer
  BY <1>21 DEF DisconnectDelTimer, DelTimerSync
<1>22. CASE DisconnectKill
  BY <1>22 DEF DisconnectKill, KillUrb
<1>23. CASE DisconnectFree
  BY <1>23 DEF DisconnectFree
<1> QED
  BY <1>1, <1>2, <1>3, <1>4, <1>5, <1>6, <1>7, <1>8, <1>9, <1>10, <1>11, <1>12,
     <1>13, <1>14, <1>15, <1>16, <1>17, <1>18, <1>19, <1>20, <1>21, <1>22, <1>23
  DEF Next, Handler, Tick, Process

\* As long as timer and handler do not meet, down and current_key stay together.
LEMMA TogetherStep ==
    ASSUME TypeOK, Phases, Together, Next, ~Overlap'
    PROVE  Together'
<1> USE KeysAssumption DEF TypeOK, Phases, Quiet, Together, Overlap, Codes, driver, requests,
                           timer, keys, Goes, HandlerGoes, KeyUp, KeyDown
<1>1. CASE PacketDown
  BY <1>1 DEF PacketDown, Completed
<1>2. CASE PacketRepeat
  BY <1>2 DEF PacketRepeat, Completed
<1>3. CASE PacketOther
  BY <1>3 DEF PacketOther, Completed
<1>4. CASE Shutdown
  BY <1>4 DEF Shutdown
<1>5. CASE NewDataTest
  BY <1>5 DEF NewDataTest
<1>6. CASE NewDataUp
  BY <1>6 DEF NewDataUp
<1>7. CASE NewDataSet
  BY <1>7 DEF NewDataSet
<1>8. CASE NewDataRepeat
  BY <1>8 DEF NewDataRepeat
<1>9. CASE NewDataDown
  BY <1>9 DEF NewDataDown
<1>10. CASE NewDataTimer
  BY <1>10 DEF NewDataTimer
<1>11. CASE Resubmit
  BY <1>11 DEF Resubmit
<1>12. CASE TickTest
  BY <1>12 DEF TickTest
<1>13. CASE TickUp
  BY <1>13 DEF TickUp
<1>14. CASE TickClear
  BY <1>14 DEF TickClear
<1>15. CASE Probe
  BY <1>15 DEF Probe
<1>16. CASE Open
  BY <1>16 DEF Open
<1>17. CASE CloseBegins
  BY <1>17 DEF CloseBegins
<1>18. CASE Close
  BY <1>18 DEF Close, AppleirClose, KillUrb, DelTimerSync
<1>19. CASE Unregister
  BY <1>19 DEF Unregister
<1>20. CASE UnregisterClose
  BY <1>20 DEF UnregisterClose, AppleirClose, KillUrb, DelTimerSync
<1>21. CASE DisconnectDelTimer
  BY <1>21 DEF DisconnectDelTimer, DelTimerSync
<1>22. CASE DisconnectKill
  BY <1>22 DEF DisconnectKill, KillUrb
<1>23. CASE DisconnectFree
  BY <1>23 DEF DisconnectFree
<1> QED
  BY <1>1, <1>2, <1>3, <1>4, <1>5, <1>6, <1>7, <1>8, <1>9, <1>10, <1>11, <1>12,
     <1>13, <1>14, <1>15, <1>16, <1>17, <1>18, <1>19, <1>20, <1>21, <1>22, <1>23
  DEF Next, Handler, Tick, Process

\* A history that says timer and handler did not meet is that of a driver in which
\* they never did: it begins anew only when the structure is freed.
LEMMA RacedStep ==
    ASSUME TypeOK, Phases, raced \/ Together, TypeOK', Phases', Next
    PROVE  raced' \/ Together'
<1>1. raced' = (memory' /\ (raced \/ Overlap'))
  BY DEF Next
<1>2. CASE ~memory'
  BY <1>2 DEF TypeOK, Phases, Quiet, Together, Overlap
<1>3. CASE memory' /\ ~raced /\ ~Overlap'
  BY <1>3, TogetherStep
<1> QED
  BY <1>1, <1>2, <1>3

\* The initial state satisfies the inductive invariant.
LEMMA InitIInv == Init => IInv
BY KeysAssumption DEF Init, IInv, TypeOK, Phases, Together, Overlap, Quiet, Codes

\* Every step keeps the inductive invariant, and so does doing nothing.
LEMMA NextIInv == IInv /\ [Next]_vars => IInv'
<1> SUFFICES ASSUME IInv, [Next]_vars PROVE IInv'
  OBVIOUS
<1>1. CASE Next
  BY <1>1, TypeStep, PhasesStep, RacedStep DEF IInv
<1>2. CASE UNCHANGED vars
  BY <1>2 DEF IInv, TypeOK, Phases, Together, Overlap, Quiet, Codes, vars
<1> QED
  BY <1>1, <1>2

\* The inductive invariant holds in every state the driver can reach.
LEMMA Inductive == Spec => []IInv
BY InitIInv, NextIInv, PTL DEF Spec

----------------------------------------------------------------------------
\* The variables of the driver keep their types.
THEOREM TypeCorrect == Spec => []TypeOK
<1>1. IInv => TypeOK
  BY DEF IInv
<1> QED
  BY Inductive, <1>1, PTL

\* appleir_disconnect frees the structure when neither the handler nor the timer
\* can touch it any more, although it deletes the timer first.
THEOREM NoUseAfterFreeHolds == Spec => []NoUseAfterFree
<1>1. IInv => NoUseAfterFree
  BY QuietIsIdle DEF IInv, NoUseAfterFree
<1> QED
  BY Inductive, <1>1, PTL

\* appleir_close leaves neither a request nor a timer.
THEOREM QuietWhenClosedHolds == Spec => []QuietWhenClosed
<1>1. IInv => QuietWhenClosed
  BY DEF IInv, Phases, QuietWhenClosed, AtRest
<1> QED
  BY Inductive, <1>1, PTL

\* What is pressed while the device is open has a timer that will release it,
\* unless timer and handler met at a key.
THEOREM HeldHasTimerHolds == Spec => []HeldHasTimer
<1>1. IInv => HeldHasTimer
  BY DEF IInv, Together, HeldHasTimer, AtRest
<1> QED
  BY Inductive, <1>1, PTL

\* Only the current key is pressed, unless timer and handler met at a key.
THEOREM PressedIsCurrentHolds == Spec => []PressedIsCurrent
<1>1. IInv => PressedIsCurrent
  BY DEF IInv, Together, PressedIsCurrent, AtRest
<1> QED
  BY Inductive, <1>1, PTL

=============================================================================
