----------------------------- MODULE HookProofs ----------------------------
(***************************************************************************)
(* Proofs about Hook, for every number of calls, waits and steals, with    *)
(* and without timeouts and failures of addEvent, and about Sleeps, for    *)
(* every width of an int.                                                  *)
(***************************************************************************)
EXTENDS Hook, Sleeps, TLAPS

(* Where the fiber can be while its event is registered, while it is in the *)
(* queue, and while its timer is armed; and that only one of the event, the *)
(* queue and the timer of a sleep has hold of it.                           *)
HoldInv ==
  /\ registered => pc \in {"yield", "held"} /\ op # "sleep" /\ scheduled = 0
  /\ scheduled = 1 => pc \in {"yield", "held"}
  /\ op = "sleep" => pc \in {"out", "arm", "yield", "held"}
  /\ op = "direct" => pc = "out"
  /\ pc # "out" => call > 0

TimerInv ==
  /\ \A k \in Waits : of[k] <= call
  /\ \A k \in Waits :
       tm[k] = "armed" =>
         /\ k = timer /\ of[k] = call
         /\ pc \in {"add", "yield", "held", "woken", "failed"}
  /\ \A k \in Waits :
       op = "sleep" /\ of[k] = call /\ tm[k] \in {"armed", "queued"} =>
         k = timer /\ pc \in {"yield", "held"} /\ scheduled = 0
  /\ \A k \in Waits : tm[k] \in {"locked", "set"} => of[k] > 0

(* A call that was cancelled has a timer whose callback cancelled it. *)
CancelInv ==
  /\ \A c \in cancelled : \E k \in Waits : of[k] = c /\ tm[k] \in {"set", "done"}
  /\ result = "timedout" => call \in cancelled

HookInv == TypeOK /\ HoldInv /\ TimerInv /\ CancelInv


(* The initial state satisfies the invariant. *)
LEMMA HookInit == Init => HookInv
<1>. SUFFICES ASSUME Init PROVE HookInv
  OBVIOUS
<1>1. MaxCalls \in Nat /\ MaxWaits \in Nat
  BY HookAssumption
<1>2. registered \in BOOLEAN /\ ready \in BOOLEAN /\ timed \in BOOLEAN
  BY Zenon DEF Init
<1>3. TypeOK
  BY <1>1, <1>2 DEF Init, TypeOK, PC, Waits
<1>4. HoldInv
  BY HookAssumption DEF Init, HoldInv
<1>5. TimerInv
  <2>1. \A k \in Waits : of[k] = 0 /\ tm[k] = "none" /\ call = 0
    BY DEF Init
  <2>. QED
    BY <2>1 DEF TimerInv
<1>6. CancelInv
  BY DEF Init, CancelInv
<1>. QED
  BY <1>3, <1>4, <1>5, <1>6 DEF HookInv

(* Every action preserves the invariant. *)
LEMMA HookNext == HookInv /\ [Next]_vars => HookInv'
<1>. SUFFICES ASSUME HookInv, [Next]_vars PROVE HookInv'
  OBVIOUS
<1>. TypeOK /\ HoldInv /\ TimerInv /\ CancelInv
  BY DEF HookInv
<1>. MaxCalls \in Nat /\ MaxWaits \in Nat /\ MaxSteals \in Nat
     /\ Kinds \subseteq {"io", "connect"} /\ Timeouts \subseteq BOOLEAN
  BY HookAssumption
<1>1. CASE Unhooked
  <2>1. TypeOK'
    BY <1>1 DEF Unhooked, kernel, TypeOK, PC, Waits
  <2>2. HoldInv'
    BY <1>1 DEF Unhooked, kernel, HoldInv, TypeOK, TimerInv
  <2>3. TimerInv'
    BY <1>1 DEF Unhooked, kernel, TimerInv, HoldInv, TypeOK, Waits
  <2>4. CancelInv'
    BY <1>1 DEF Unhooked, kernel, CancelInv, TimerInv, TypeOK, Waits
  <2>. QED
    BY <2>1, <2>2, <2>3, <2>4 DEF HookInv
<1>2. ASSUME NEW kind \in Kinds, NEW timeout \in Timeouts, Begin(kind, timeout)
      PROVE  HookInv'
  <2>1. TypeOK'
    BY <1>2 DEF Begin, kernel, TypeOK, PC, Waits
  <2>2. HoldInv'
    BY <1>2 DEF Begin, kernel, HoldInv, TypeOK, TimerInv
  <2>3. TimerInv'
    BY <1>2 DEF Begin, kernel, TimerInv, HoldInv, TypeOK, Waits
  <2>4. CancelInv'
    BY <1>2 DEF Begin, kernel, CancelInv, TimerInv, TypeOK, Waits
  <2>. QED
    BY <2>1, <2>2, <2>3, <2>4 DEF HookInv
<1>3. CASE Sleep
  <2>1. TypeOK'
    BY <1>3 DEF Sleep, kernel, TypeOK, PC, Waits
  <2>2. HoldInv'
    BY <1>3 DEF Sleep, kernel, HoldInv, TypeOK, TimerInv
  <2>3. TimerInv'
    BY <1>3 DEF Sleep, kernel, TimerInv, HoldInv, TypeOK, Waits
  <2>4. CancelInv'
    BY <1>3 DEF Sleep, kernel, CancelInv, TimerInv, TypeOK, Waits
  <2>. QED
    BY <2>1, <2>2, <2>3, <2>4 DEF HookInv
<1>4. CASE TryIo
  <2>1. TypeOK'
    BY <1>4 DEF TryIo, Return, kernel, TypeOK, PC, Waits
  <2>2. HoldInv'
    BY <1>4 DEF TryIo, Return, kernel, HoldInv, TypeOK, TimerInv
  <2>3. TimerInv'
    BY <1>4 DEF TryIo, Return, kernel, TimerInv, HoldInv, TypeOK, Waits
  <2>4. CancelInv'
    BY <1>4 DEF TryIo, Return, kernel, CancelInv, TimerInv, TypeOK, Waits
  <2>. QED
    BY <2>1, <2>2, <2>3, <2>4 DEF HookInv
<1>5. CASE TryConnect
  <2>1. TypeOK'
    BY <1>5 DEF TryConnect, Return, kernel, TypeOK, PC, Waits
  <2>2. HoldInv'
    BY <1>5 DEF TryConnect, Return, kernel, HoldInv, TypeOK, TimerInv
  <2>3. TimerInv'
    BY <1>5 DEF TryConnect, Return, kernel, TimerInv, HoldInv, TypeOK, Waits
  <2>4. CancelInv'
    BY <1>5 DEF TryConnect, Return, kernel, CancelInv, TimerInv, TypeOK, Waits
  <2>. QED
    BY <2>1, <2>2, <2>3, <2>4 DEF HookInv
<1>6. CASE Arm
  <2>1. TypeOK'
    <3>1. pc' \in PC
      BY <1>6 DEF Arm, PC
    <3>2. /\ timer' \in 0..MaxWaits /\ of' \in [Waits -> 0..MaxCalls]
          /\ tm' \in [Waits -> {"none", "armed", "off", "queued", "locked", "set", "done"}]
      <4>1. CASE timed \/ op = "sleep"
        <5>1. PICK k \in Waits : /\ timer' = k
                                 /\ tm' = [tm EXCEPT ![k] = "armed"]
                                 /\ of' = [of EXCEPT ![k] = call]
          BY <1>6, <4>1 DEF Arm
        <5>. QED
          BY <5>1 DEF TypeOK, Waits
      <4>2. CASE ~(timed \/ op = "sleep")
        BY <1>6, <4>2 DEF Arm, TypeOK
      <4>. QED
        BY <4>1, <4>2
    <3>. QED
      BY <1>6, <3>1, <3>2 DEF Arm, kernel, TypeOK
  <2>2. HoldInv'
    BY <1>6 DEF Arm, kernel, HoldInv, TypeOK, TimerInv
  <2>3. TimerInv'
    BY <1>6, SMTT(30) DEF Arm, kernel, TimerInv, HoldInv, TypeOK, Waits
  <2>4. CancelInv'
    BY <1>6 DEF Arm, kernel, CancelInv, TimerInv, TypeOK, Waits
  <2>. QED
    BY <2>1, <2>2, <2>3, <2>4 DEF HookInv
<1>7. CASE AddEvent
  <2>1. TypeOK'
    BY <1>7 DEF AddEvent, kernel, TypeOK, PC, Waits
  <2>2. HoldInv'
    BY <1>7 DEF AddEvent, kernel, HoldInv, TypeOK, TimerInv
  <2>3. TimerInv'
    BY <1>7 DEF AddEvent, kernel, TimerInv, HoldInv, TypeOK, Waits
  <2>4. CancelInv'
    BY <1>7 DEF AddEvent, kernel, CancelInv, TimerInv, TypeOK, Waits
  <2>. QED
    BY <2>1, <2>2, <2>3, <2>4 DEF HookInv
<1>8. CASE AddEventFails
  <2>1. TypeOK'
    BY <1>8 DEF AddEventFails, kernel, TypeOK, PC, Waits
  <2>2. HoldInv'
    BY <1>8 DEF AddEventFails, kernel, HoldInv, TypeOK, TimerInv
  <2>3. TimerInv'
    BY <1>8 DEF AddEventFails, kernel, TimerInv, HoldInv, TypeOK, Waits
  <2>4. CancelInv'
    BY <1>8 DEF AddEventFails, kernel, CancelInv, TimerInv, TypeOK, Waits
  <2>. QED
    BY <2>1, <2>2, <2>3, <2>4 DEF HookInv
<1>9. CASE Failed
  <2>1. TypeOK'
    BY <1>9 DEF Failed, Return, CancelTimer, kernel, TypeOK, PC, Waits
  <2>2. HoldInv'
    BY <1>9 DEF Failed, Return, CancelTimer, kernel, HoldInv, TypeOK, TimerInv
  <2>3. TimerInv'
    BY <1>9 DEF Failed, Return, CancelTimer, kernel, TimerInv, HoldInv, TypeOK, Waits
  <2>4. CancelInv'
    BY <1>9 DEF Failed, Return, CancelTimer, kernel, CancelInv, TimerInv, TypeOK, Waits
  <2>. QED
    BY <2>1, <2>2, <2>3, <2>4 DEF HookInv
<1>10. CASE YieldToHold
  <2>1. TypeOK'
    BY <1>10 DEF YieldToHold, kernel, TypeOK, PC, Waits
  <2>2. HoldInv'
    BY <1>10 DEF YieldToHold, kernel, HoldInv, TypeOK, TimerInv
  <2>3. TimerInv'
    BY <1>10 DEF YieldToHold, kernel, TimerInv, HoldInv, TypeOK, Waits
  <2>4. CancelInv'
    BY <1>10 DEF YieldToHold, kernel, CancelInv, TimerInv, TypeOK, Waits
  <2>. QED
    BY <2>1, <2>2, <2>3, <2>4 DEF HookInv
<1>11. CASE Resume
  <2>1. TypeOK'
    BY <1>11 DEF Resume, Return, kernel, TypeOK, PC, Waits
  <2>2. HoldInv'
    BY <1>11 DEF Resume, Return, kernel, HoldInv, TypeOK, TimerInv
  <2>3. TimerInv'
    BY <1>11 DEF Resume, Return, kernel, TimerInv, HoldInv, TypeOK, Waits
  <2>4. CancelInv'
    BY <1>11 DEF Resume, Return, kernel, CancelInv, TimerInv, TypeOK, Waits
  <2>. QED
    BY <2>1, <2>2, <2>3, <2>4 DEF HookInv
<1>12. CASE Woken
  <2>1. TypeOK'
    BY <1>12 DEF Woken, CancelTimer, kernel, TypeOK, PC, Waits
  <2>2. HoldInv'
    BY <1>12 DEF Woken, CancelTimer, kernel, HoldInv, TypeOK, TimerInv
  <2>3. TimerInv'
    BY <1>12 DEF Woken, CancelTimer, kernel, TimerInv, HoldInv, TypeOK, Waits
  <2>4. CancelInv'
    BY <1>12 DEF Woken, CancelTimer, kernel, CancelInv, TimerInv, TypeOK, Waits
  <2>. QED
    BY <2>1, <2>2, <2>3, <2>4 DEF HookInv
<1>13. CASE Check
  <2>1. TypeOK'
    BY <1>13 DEF Check, Return, kernel, TypeOK, PC, Waits
  <2>2. HoldInv'
    BY <1>13 DEF Check, Return, kernel, HoldInv, TypeOK, TimerInv
  <2>3. TimerInv'
    BY <1>13 DEF Check, Return, kernel, TimerInv, HoldInv, TypeOK, Waits
  <2>4. CancelInv'
    BY <1>13 DEF Check, Return, kernel, CancelInv, TimerInv, TypeOK, Waits
  <2>. QED
    BY <2>1, <2>2, <2>3, <2>4 DEF HookInv
<1>14. CASE SockOpt
  <2>1. TypeOK'
    BY <1>14 DEF SockOpt, Return, kernel, TypeOK, PC, Waits
  <2>2. HoldInv'
    BY <1>14 DEF SockOpt, Return, kernel, HoldInv, TypeOK, TimerInv
  <2>3. TimerInv'
    BY <1>14 DEF SockOpt, Return, kernel, TimerInv, HoldInv, TypeOK, Waits
  <2>4. CancelInv'
    BY <1>14 DEF SockOpt, Return, kernel, CancelInv, TimerInv, TypeOK, Waits
  <2>. QED
    BY <2>1, <2>2, <2>3, <2>4 DEF HookInv
<1>15. CASE ReportEvent
  <2>1. TypeOK'
    <3>1. scheduled' \in {0, 1}
      BY <1>15 DEF ReportEvent, HoldInv
    <3>2. registered' \in BOOLEAN
      BY <1>15 DEF ReportEvent
    <3>. QED
      BY <1>15, <3>1, <3>2 DEF ReportEvent, kernel, TypeOK
  <2>2. HoldInv'
    BY <1>15 DEF ReportEvent, kernel, HoldInv, TypeOK, TimerInv
  <2>3. TimerInv'
    BY <1>15 DEF ReportEvent, kernel, TimerInv, HoldInv, TypeOK, Waits
  <2>4. CancelInv'
    BY <1>15 DEF ReportEvent, kernel, CancelInv, TimerInv, TypeOK, Waits
  <2>. QED
    BY <2>1, <2>2, <2>3, <2>4 DEF HookInv
<1>16. CASE BecomeReady
  <2>1. TypeOK'
    BY <1>16 DEF BecomeReady, kernel, TypeOK, PC, Waits
  <2>2. HoldInv'
    BY <1>16 DEF BecomeReady, kernel, HoldInv, TypeOK, TimerInv
  <2>3. TimerInv'
    BY <1>16 DEF BecomeReady, kernel, TimerInv, HoldInv, TypeOK, Waits
  <2>4. CancelInv'
    BY <1>16 DEF BecomeReady, kernel, CancelInv, TimerInv, TypeOK, Waits
  <2>. QED
    BY <2>1, <2>2, <2>3, <2>4 DEF HookInv
<1>17. CASE Steal
  <2>1. TypeOK'
    <3>1. ready' \in BOOLEAN
      BY <1>17 DEF Steal
    <3>2. steals' \in Nat
      BY <1>17 DEF Steal, TypeOK
    <3>. QED
      BY <1>17, <3>1, <3>2 DEF Steal, TypeOK
  <2>2. HoldInv'
    BY <1>17 DEF Steal, kernel, HoldInv, TypeOK, TimerInv
  <2>3. TimerInv'
    BY <1>17 DEF Steal, kernel, TimerInv, HoldInv, TypeOK, Waits
  <2>4. CancelInv'
    BY <1>17 DEF Steal, kernel, CancelInv, TimerInv, TypeOK, Waits
  <2>. QED
    BY <2>1, <2>2, <2>3, <2>4 DEF HookInv
<1>18. ASSUME NEW k \in Waits, Expire(k)
      PROVE  HookInv'
  <2>1. TypeOK'
    BY <1>18 DEF Expire, kernel, TypeOK, PC, Waits
  <2>2. HoldInv'
    BY <1>18 DEF Expire, kernel, HoldInv, TypeOK, TimerInv
  <2>3. TimerInv'
    BY <1>18 DEF Expire, kernel, TimerInv, HoldInv, TypeOK, Waits
  <2>4. CancelInv'
    BY <1>18 DEF Expire, kernel, CancelInv, TimerInv, TypeOK, Waits
  <2>. QED
    BY <2>1, <2>2, <2>3, <2>4 DEF HookInv
<1>19. ASSUME NEW k \in Waits, WakeSleeper(k)
      PROVE  HookInv'
  <2>1. TypeOK'
    BY <1>19 DEF WakeSleeper, kernel, TypeOK, TimerInv
  <2>2. HoldInv'
    BY <1>19 DEF WakeSleeper, kernel, HoldInv, TypeOK, TimerInv
  <2>3. TimerInv'
    BY <1>19 DEF WakeSleeper, kernel, TimerInv, HoldInv, TypeOK, Waits
  <2>4. CancelInv'
    BY <1>19 DEF WakeSleeper, kernel, CancelInv, TimerInv, TypeOK, Waits
  <2>. QED
    BY <2>1, <2>2, <2>3, <2>4 DEF HookInv
<1>20. ASSUME NEW k \in Waits, OnTimer(k)
      PROVE  HookInv'
  <2>1. TypeOK'
    BY <1>20 DEF OnTimer, Live, kernel, TypeOK, PC, Waits
  <2>2. HoldInv'
    BY <1>20 DEF OnTimer, Live, kernel, HoldInv, TypeOK, TimerInv
  <2>3. TimerInv'
    BY <1>20 DEF OnTimer, Live, kernel, TimerInv, HoldInv, TypeOK, Waits
  <2>4. CancelInv'
    BY <1>20 DEF OnTimer, Live, kernel, CancelInv, TimerInv, TypeOK, Waits
  <2>. QED
    BY <2>1, <2>2, <2>3, <2>4 DEF HookInv
<1>21. ASSUME NEW k \in Waits, SetCancelled(k)
      PROVE  HookInv'
  <2>1. TypeOK'
    <3>1. of[k] \in 1..MaxCalls
      BY <1>21 DEF SetCancelled, TypeOK, TimerInv
    <3>. QED
      BY <1>21, <3>1 DEF SetCancelled, kernel, TypeOK
  <2>2. HoldInv'
    BY <1>21 DEF SetCancelled, kernel, HoldInv, TypeOK, TimerInv
  <2>3. TimerInv'
    BY <1>21 DEF SetCancelled, kernel, TimerInv, HoldInv, TypeOK, Waits
  <2>4. CancelInv'
    BY <1>21 DEF SetCancelled, kernel, CancelInv, TimerInv, TypeOK, Waits
  <2>. QED
    BY <2>1, <2>2, <2>3, <2>4 DEF HookInv
<1>22. ASSUME NEW k \in Waits, CancelEvent(k)
      PROVE  HookInv'
  <2>1. TypeOK'
    <3>1. scheduled' \in {0, 1}
      BY <1>22 DEF CancelEvent, TypeOK, HoldInv
    <3>2. registered' \in BOOLEAN
      BY <1>22 DEF CancelEvent
    <3>. QED
      BY <1>22, <3>1, <3>2 DEF CancelEvent, kernel, TypeOK
  <2>2. HoldInv'
    BY <1>22 DEF CancelEvent, kernel, HoldInv, TypeOK, TimerInv
  <2>3. TimerInv'
    BY <1>22 DEF CancelEvent, kernel, TimerInv, HoldInv, TypeOK, Waits
  <2>4. CancelInv'
    BY <1>22 DEF CancelEvent, kernel, CancelInv, TimerInv, TypeOK, Waits
  <2>. QED
    BY <2>1, <2>2, <2>3, <2>4 DEF HookInv
<1>23. CASE UNCHANGED vars
  <2>1. TypeOK'
    BY <1>23 DEF kernel, vars, TypeOK, PC, Waits
  <2>2. HoldInv'
    BY <1>23 DEF kernel, vars, HoldInv, TypeOK, TimerInv
  <2>3. TimerInv'
    BY <1>23 DEF kernel, vars, TimerInv, HoldInv, TypeOK, Waits
  <2>4. CancelInv'
    BY <1>23 DEF kernel, vars, CancelInv, TimerInv, TypeOK, Waits
  <2>. QED
    BY <2>1, <2>2, <2>3, <2>4 DEF HookInv
<1>. QED
  BY <1>1, <1>2, <1>3, <1>4, <1>5, <1>6, <1>7, <1>8, <1>9, <1>10, <1>11, <1>12,
     <1>13, <1>14, <1>15, <1>16, <1>17, <1>18, <1>19, <1>20, <1>21, <1>22, <1>23
  DEF Next, Fiber, Callback

-----------------------------------------------------------------------------
(* However the event, the timeouts of this call and late timeouts of        *)
(* earlier calls race, the fiber is in the scheduler's queue at most once.  *)
THEOREM HookTypeCorrect == Spec => []TypeOK
<1>1. HookInv => TypeOK
  BY DEF HookInv
<1>. QED
  BY HookInit, HookNext, <1>1, PTL DEF Spec

(* A hooked call that has returned has no event registered, no entry in the *)
(* queue and no armed timer left.                                           *)
THEOREM CallsCleanUp == Spec => []NothingLeftBehind
<1>1. HookInv => NothingLeftBehind
  BY DEF HookInv, HoldInv, TimerInv, TypeOK, NothingLeftBehind
<1>. QED
  BY HookInit, HookNext, <1>1, PTL DEF Spec

(* ETIMEDOUT is always the doing of a timer that was armed in the same call.*)
THEOREM OwnTimerTimesOut == Spec => []TimedOutByOwnTimer
<1>1. HookInv => TimedOutByOwnTimer
  BY DEF HookInv, CancelInv, TimedOutByOwnTimer
<1>. QED
  BY HookInit, HookNext, <1>1, PTL DEF Spec

-----------------------------------------------------------------------------
(* What brings a fiber back                                                *)

(* A fiber on its way into a hold, or in it, is in the queue, or its event  *)
(* is registered, or the timer of its sleep has yet to schedule it: nobody  *)
(* holds with nothing left to end the hold.                                 *)
HoldEnds ==
  pc \in {"yield", "held"} =>
    \/ scheduled = 1
    \/ registered /\ op # "sleep"
    \/ /\ op = "sleep" /\ timer \in Waits
       /\ of[timer] = call /\ tm[timer] \in {"armed", "queued"}

(* A call with a timeout that waits has its timer before it, or a timer of  *)
(* this call has marked it as cancelled already.                            *)
TimeoutPending ==
  pc \in {"add", "yield", "held"} /\ timed /\ op # "sleep" =>
    \/ /\ timer \in Waits
       /\ of[timer] = call /\ tm[timer] \in {"armed", "queued", "locked"}
    \/ call \in cancelled

LEMMA HoldsInit == Init => HoldEnds /\ TimeoutPending
BY DEF Init, HoldEnds, TimeoutPending

LEMMA HoldsNext ==
  ASSUME HookInv, HoldEnds, TimeoutPending, [Next]_vars
  PROVE  HoldEnds' /\ TimeoutPending'
<1>. TypeOK /\ HoldInv /\ TimerInv
  BY DEF HookInv
<1>. MaxCalls \in Nat /\ MaxWaits \in Nat /\ Kinds \subseteq {"io", "connect"}
  BY HookAssumption
<1>1. CASE Unhooked
  <2>1. HoldEnds'
    BY <1>1 DEF Unhooked, kernel, HoldEnds, HoldInv, TimerInv, TypeOK, Waits
  <2>2. TimeoutPending'
    BY <1>1 DEF Unhooked, kernel, TimeoutPending, HoldInv, TimerInv, TypeOK, Waits
  <2>. QED
    BY <2>1, <2>2
<1>2. ASSUME NEW kind \in Kinds, NEW timeout \in Timeouts, Begin(kind, timeout)
      PROVE  HoldEnds' /\ TimeoutPending'
  <2>1. HoldEnds'
    BY <1>2 DEF Begin, kernel, HoldEnds, HoldInv, TimerInv, TypeOK, Waits
  <2>2. TimeoutPending'
    BY <1>2 DEF Begin, kernel, TimeoutPending, HoldInv, TimerInv, TypeOK, Waits
  <2>. QED
    BY <2>1, <2>2
<1>3. CASE Sleep
  <2>1. HoldEnds'
    BY <1>3 DEF Sleep, kernel, HoldEnds, HoldInv, TimerInv, TypeOK, Waits
  <2>2. TimeoutPending'
    BY <1>3 DEF Sleep, kernel, TimeoutPending, HoldInv, TimerInv, TypeOK, Waits
  <2>. QED
    BY <2>1, <2>2
<1>4. CASE TryIo
  <2>1. HoldEnds'
    BY <1>4 DEF TryIo, Return, kernel, HoldEnds, HoldInv, TimerInv, TypeOK, Waits
  <2>2. TimeoutPending'
    BY <1>4 DEF TryIo, Return, kernel, TimeoutPending, HoldInv, TimerInv, TypeOK, Waits
  <2>. QED
    BY <2>1, <2>2
<1>5. CASE TryConnect
  <2>1. HoldEnds'
    BY <1>5 DEF TryConnect, Return, kernel, HoldEnds, HoldInv, TimerInv, TypeOK, Waits
  <2>2. TimeoutPending'
    BY <1>5 DEF TryConnect, Return, kernel, TimeoutPending, HoldInv, TimerInv, TypeOK, Waits
  <2>. QED
    BY <2>1, <2>2
<1>6. CASE Arm
  <2>1. HoldEnds'
    BY <1>6 DEF Arm, kernel, HoldEnds, HoldInv, TimerInv, TypeOK, Waits
  <2>2. TimeoutPending'
    BY <1>6 DEF Arm, kernel, TimeoutPending, HoldInv, TimerInv, TypeOK, Waits
  <2>. QED
    BY <2>1, <2>2
<1>7. CASE AddEvent
  <2>1. HoldEnds'
    BY <1>7 DEF AddEvent, kernel, HoldEnds, HoldInv, TimerInv, TypeOK, Waits
  <2>2. TimeoutPending'
    BY <1>7 DEF AddEvent, kernel, TimeoutPending, HoldInv, TimerInv, TypeOK, Waits
  <2>. QED
    BY <2>1, <2>2
<1>8. CASE AddEventFails
  <2>1. HoldEnds'
    BY <1>8 DEF AddEventFails, kernel, HoldEnds, HoldInv, TimerInv, TypeOK, Waits
  <2>2. TimeoutPending'
    BY <1>8 DEF AddEventFails, kernel, TimeoutPending, HoldInv, TimerInv, TypeOK, Waits
  <2>. QED
    BY <2>1, <2>2
<1>9. CASE Failed
  <2>1. HoldEnds'
    BY <1>9 DEF Failed, Return, CancelTimer, kernel, HoldEnds, HoldInv, TimerInv, TypeOK, Waits
  <2>2. TimeoutPending'
    BY <1>9 DEF Failed, Return, CancelTimer, kernel, TimeoutPending, HoldInv, TimerInv, TypeOK, Waits
  <2>. QED
    BY <2>1, <2>2
<1>10. CASE YieldToHold
  <2>1. HoldEnds'
    BY <1>10 DEF YieldToHold, kernel, HoldEnds, HoldInv, TimerInv, TypeOK, Waits
  <2>2. TimeoutPending'
    BY <1>10 DEF YieldToHold, kernel, TimeoutPending, HoldInv, TimerInv, TypeOK, Waits
  <2>. QED
    BY <2>1, <2>2
<1>11. CASE Resume
  <2>1. HoldEnds'
    BY <1>11 DEF Resume, Return, kernel, HoldEnds, HoldInv, TimerInv, TypeOK, Waits
  <2>2. TimeoutPending'
    BY <1>11 DEF Resume, Return, kernel, TimeoutPending, HoldInv, TimerInv, TypeOK, Waits
  <2>. QED
    BY <2>1, <2>2
<1>12. CASE Woken
  <2>1. HoldEnds'
    BY <1>12 DEF Woken, CancelTimer, kernel, HoldEnds, HoldInv, TimerInv, TypeOK, Waits
  <2>2. TimeoutPending'
    BY <1>12 DEF Woken, CancelTimer, kernel, TimeoutPending, HoldInv, TimerInv, TypeOK, Waits
  <2>. QED
    BY <2>1, <2>2
<1>13. CASE Check
  <2>1. HoldEnds'
    BY <1>13 DEF Check, Return, kernel, HoldEnds, HoldInv, TimerInv, TypeOK, Waits
  <2>2. TimeoutPending'
    BY <1>13 DEF Check, Return, kernel, TimeoutPending, HoldInv, TimerInv, TypeOK, Waits
  <2>. QED
    BY <2>1, <2>2
<1>14. CASE SockOpt
  <2>1. HoldEnds'
    BY <1>14 DEF SockOpt, Return, kernel, HoldEnds, HoldInv, TimerInv, TypeOK, Waits
  <2>2. TimeoutPending'
    BY <1>14 DEF SockOpt, Return, kernel, TimeoutPending, HoldInv, TimerInv, TypeOK, Waits
  <2>. QED
    BY <2>1, <2>2
<1>15. CASE ReportEvent
  <2>1. HoldEnds'
    BY <1>15 DEF ReportEvent, kernel, HoldEnds, HoldInv, TimerInv, TypeOK, Waits
  <2>2. TimeoutPending'
    BY <1>15 DEF ReportEvent, kernel, TimeoutPending, HoldInv, TimerInv, TypeOK, Waits
  <2>. QED
    BY <2>1, <2>2
<1>16. CASE BecomeReady
  <2>1. HoldEnds'
    BY <1>16 DEF BecomeReady, kernel, HoldEnds, HoldInv, TimerInv, TypeOK, Waits
  <2>2. TimeoutPending'
    BY <1>16 DEF BecomeReady, kernel, TimeoutPending, HoldInv, TimerInv, TypeOK, Waits
  <2>. QED
    BY <2>1, <2>2
<1>17. CASE Steal
  <2>1. HoldEnds'
    BY <1>17 DEF Steal, kernel, HoldEnds, HoldInv, TimerInv, TypeOK, Waits
  <2>2. TimeoutPending'
    BY <1>17 DEF Steal, kernel, TimeoutPending, HoldInv, TimerInv, TypeOK, Waits
  <2>. QED
    BY <2>1, <2>2
<1>18. ASSUME NEW k \in Waits, Expire(k)
      PROVE  HoldEnds' /\ TimeoutPending'
  <2>1. HoldEnds'
    BY <1>18 DEF Expire, kernel, HoldEnds, HoldInv, TimerInv, TypeOK, Waits
  <2>2. TimeoutPending'
    BY <1>18 DEF Expire, kernel, TimeoutPending, HoldInv, TimerInv, TypeOK, Waits
  <2>. QED
    BY <2>1, <2>2
<1>19. ASSUME NEW k \in Waits, WakeSleeper(k)
      PROVE  HoldEnds' /\ TimeoutPending'
  <2>1. HoldEnds'
    BY <1>19 DEF WakeSleeper, kernel, HoldEnds, HoldInv, TimerInv, TypeOK, Waits
  <2>2. TimeoutPending'
    BY <1>19 DEF WakeSleeper, kernel, TimeoutPending, HoldInv, TimerInv, TypeOK, Waits
  <2>. QED
    BY <2>1, <2>2
<1>20. ASSUME NEW k \in Waits, OnTimer(k)
      PROVE  HoldEnds' /\ TimeoutPending'
  <2>1. HoldEnds'
    BY <1>20 DEF OnTimer, Live, kernel, HoldEnds, HoldInv, TimerInv, TypeOK, Waits
  <2>2. TimeoutPending'
    BY <1>20 DEF OnTimer, Live, kernel, TimeoutPending, HoldInv, TimerInv, TypeOK, Waits
  <2>. QED
    BY <2>1, <2>2
<1>21. ASSUME NEW k \in Waits, SetCancelled(k)
      PROVE  HoldEnds' /\ TimeoutPending'
  <2>1. HoldEnds'
    BY <1>21 DEF SetCancelled, kernel, HoldEnds, HoldInv, TimerInv, TypeOK, Waits
  <2>2. TimeoutPending'
    BY <1>21 DEF SetCancelled, kernel, TimeoutPending, HoldInv, TimerInv, TypeOK, Waits
  <2>. QED
    BY <2>1, <2>2
<1>22. ASSUME NEW k \in Waits, CancelEvent(k)
      PROVE  HoldEnds' /\ TimeoutPending'
  <2>1. HoldEnds'
    BY <1>22 DEF CancelEvent, kernel, HoldEnds, HoldInv, TimerInv, TypeOK, Waits
  <2>2. TimeoutPending'
    BY <1>22 DEF CancelEvent, kernel, TimeoutPending, HoldInv, TimerInv, TypeOK, Waits
  <2>. QED
    BY <2>1, <2>2
<1>23. CASE UNCHANGED vars
  BY <1>23 DEF vars, kernel, HoldEnds, TimeoutPending
<1>. QED
  BY <1>1, <1>2, <1>3, <1>4, <1>5, <1>6, <1>7, <1>8, <1>9, <1>10, <1>11, <1>12,
     <1>13, <1>14, <1>15, <1>16, <1>17, <1>18, <1>19, <1>20, <1>21, <1>22, <1>23
  DEF Next, Fiber, Callback

(* A hooked call never gives up the cpu without something that will give it *)
(* back: the wake-up of a timer that fires before YieldToHold, or of an     *)
(* event that is reported before it, is in the queue by then.               *)
THEOREM HoldsAreEnded == Spec => []HoldEnds
<1>1. HookInv /\ HoldEnds /\ TimeoutPending /\ [Next]_vars => HoldEnds' /\ TimeoutPending'
  BY HoldsNext
<1>. QED
  BY HookInit, HookNext, HoldsInit, <1>1, PTL DEF Spec

(* While a call with a timeout waits, its timer is armed or on its way, and *)
(* the one exception is a call that a timer of its own has marked as        *)
(* cancelled: a timeout that is lost has always fired, before addEvent.     *)
THEOREM TimeoutsArePending == Spec => []TimeoutPending
<1>1. HookInv /\ HoldEnds /\ TimeoutPending /\ [Next]_vars => HoldEnds' /\ TimeoutPending'
  BY HoldsNext
<1>. QED
  BY HookInit, HookNext, HoldsInit, <1>1, PTL DEF Spec

-----------------------------------------------------------------------------
(* How long a sleep lasts                                                  *)

(* Products and quotients of any size: a small number is its own remainder, *)
(* a quotient is exact, and products keep an order.                         *)
LEMMA ModSmall ==
  ASSUME NEW n \in Nat, NEW r \in Nat, n < r
  PROVE  n % r = n
BY SMT

LEMMA DivBetween ==
  ASSUME NEW n \in Nat, NEW k \in Nat \ {0}
  PROVE  n \div k \in Nat /\ Exact(n \div k, n, k)
BY SMT DEF Exact

LEMMA DivOfProduct ==
  ASSUME NEW n \in Nat, NEW k \in Nat \ {0}
  PROVE  (n * k) \div k = n
BY SMT

LEMMA ProductGrows ==
  ASSUME NEW a \in Nat, NEW b \in Nat, NEW k \in Nat, a <= b
  PROVE  a * k <= b * k
BY SMT

LEMMA ProductGrowsStrictly ==
  ASSUME NEW a \in Nat, NEW b \in Nat, NEW k \in Nat \ {0}, a < b
  PROVE  a * k < b * k
BY SMT

LEMMA ProductShrinks ==
  ASSUME NEW a \in Nat, NEW b \in Nat, NEW k \in Nat \ {0}, a * k < b * k
  PROVE  a < b
BY SMT

(* sleep, usleep and nanosleep ask addTimer for the time they were given in *)
(* whole milliseconds, for every width of an int and every time that fits   *)
(* in one: neither the unsigned product, nor the two divisions of           *)
(* tv_nsec, nor the int between the 64-bit sum and addTimer loses anything. *)
THEOREM SleepsAreExact ==
  asked \in [op : {"sleep"}, sec : Nat, frac : Nat] => SleepsAsAsked
<1> SUFFICES ASSUME NEW sec \in Nat, NEW frac \in Nat, (sec + 1) * Kilo <= IntMax,
                    NEW mega, mega = Kilo * Kilo, NEW us, us = sec * mega + frac
             PROVE  /\ sleep(sec) = sec * Kilo
                    /\ Exact(usleep(us), us, Kilo)
                    /\ frac < mega => Exact(nanosleep(sec, frac * Kilo), us * Kilo, mega)
  BY DEF SleepsAsAsked
<1>1. Kilo \in Nat \ {0} /\ IntMax \in Nat  BY SleepsAssumption
<1>2. mega \in Nat \ {0}  BY <1>1
<1>3. us \in Nat  BY <1>2
<1>4. sec * Kilo \in Nat /\ (sec + 1) * Kilo = sec * Kilo + Kilo  BY <1>1
<1>5. Width \in Nat /\ IntMax < Width  BY <1>1 DEF Width
<1>6. sleep(sec) = sec * Kilo
  <2>1. \A n \in Nat : n < Width => n % Width = n  BY <1>5, ModSmall
  <2> QED BY <2>1, <1>1, <1>4, <1>5 DEF sleep
<1>7. Exact(usleep(us), us, Kilo)  BY <1>1, <1>3, DivBetween DEF usleep
<1>8. ASSUME frac < mega
      PROVE  Exact(nanosleep(sec, frac * Kilo), us * Kilo, mega)
  <2>1. PICK q \in Nat : q = frac \div Kilo /\ Exact(q, frac, Kilo)  BY <1>1, DivBetween
  <2>2. (frac * Kilo) \div Kilo = frac  BY <1>1, DivOfProduct
  <2>3. q * Kilo <= frac /\ frac < (q + 1) * Kilo  BY <2>1 DEF Exact
  <2>4. q < Kilo  
    <3>1. q * Kilo < Kilo * Kilo  BY <2>3, <1>8, <1>1, <1>2
    <3> QED BY <3>1, <1>1, ProductShrinks
  <2>5. PICK ms \in Nat : ms = sec * Kilo + q  BY <1>4
  <2>6. ms <= IntMax  BY <2>4, <2>5, <1>1, <1>4
  <2>7. nanosleep(sec, frac * Kilo) = ms
    <3>1. ms % Width = ms  BY <2>6, <1>1, <1>5, ModSmall
    <3> QED BY <3>1, <2>1, <2>2, <2>5, <2>6 DEF nanosleep
  <2>8. ms * Kilo <= us /\ us < (ms + 1) * Kilo
    <3>1. /\ ms * Kilo = (sec * Kilo) * Kilo + q * Kilo
          /\ (ms + 1) * Kilo = (sec * Kilo) * Kilo + (q + 1) * Kilo
      BY <2>5, <1>1, <1>4
    <3>2. (sec * Kilo) * Kilo = sec * mega  BY <1>1
    <3>3. /\ sec * mega \in Int /\ q * Kilo \in Int /\ (q + 1) * Kilo \in Int  BY <1>1, <1>2
    <3> QED BY <3>1, <3>2, <3>3, <2>3
  <2>9. (ms * Kilo) * Kilo <= us * Kilo /\ us * Kilo < ((ms + 1) * Kilo) * Kilo
    <3>1. ms * Kilo \in Nat /\ (ms + 1) * Kilo \in Nat  BY <1>1
    <3> QED BY <3>1, <2>8, <1>1, <1>3, ProductGrows, ProductGrowsStrictly
  <2>10. (ms * Kilo) * Kilo = ms * mega /\ ((ms + 1) * Kilo) * Kilo = (ms + 1) * mega  BY <1>1
  <2> QED BY <2>7, <2>9, <2>10 DEF Exact
<1> QED BY <1>6, <1>7, <1>8

=============================================================================
