------------------------------- MODULE Hook -------------------------------
(***************************************************************************)
(* The hooked blocking calls of one fiber: do_io (read, recv, write,       *)
(* accept, ...) and connect_with_timeout on one descriptor, and the sleep  *)
(* family.  A call that would block arms a timer, registers the event with *)
(* the IOManager and holds the fiber.  The timer's callback, the event     *)
(* loop and the fiber are on different threads.                            *)
(*                                                                         *)
(* tinfo is one per call and is shared by all its retries; a timer's       *)
(* callback has a weak pointer to it.  How long a timer runs is left open. *)
(***************************************************************************)
EXTENDS Naturals

CONSTANTS
  Kinds,       \* the calls on the descriptor: "io", "connect"
  Timeouts,    \* TRUE: the timeout is not -1 and a timer is armed
  AddMayFail,  \* epoll_ctl may fail in addEvent
  MaxCalls,    \* bound: calls of the fiber
  MaxWaits,    \* bound: timers the fiber arms
  MaxSteals    \* bound: how often another reader empties the descriptor

ASSUME HookAssumption ==
  /\ Kinds \subseteq {"io", "connect"} /\ Timeouts \subseteq BOOLEAN
  /\ AddMayFail \in BOOLEAN
  /\ MaxCalls \in Nat /\ MaxWaits \in Nat /\ MaxSteals \in Nat

VARIABLES
  pc,         \* where the fiber is in its call, "out" when in none
  op,         \* the call: of Kinds, "sleep", or "direct" if not hooked
  timed,      \* it has a timeout
  call,       \* how many calls it has made; names the call and its tinfo
  result,     \* what the last call returned
  timer,      \* the timer of this wait, 0 if none
  tm,         \* each timer: in the set, handed out, its callback under way
  of,         \* the call a timer was armed in
  cancelled,  \* the calls whose tinfo->cancelled is ETIMEDOUT
  registered, \* the event of the descriptor is registered for the fiber
  scheduled,  \* entries of the scheduler's queue for the fiber
  ready,      \* kernel: the descriptor is ready
  sock,       \* kernel: the connection of a socket
  steals

kernel == <<ready, sock, steals>>
vars == <<pc, op, timed, call, result, timer, tm, of, cancelled, registered,
          scheduled, kernel>>

Waits == 1..MaxWaits
PC    == {"out", "fun", "arm", "add", "yield", "held", "woken", "check",
          "failed", "sockopt"}
Return(r) == pc' = "out" /\ result' = r

-----------------------------------------------------------------------------
Init ==
  /\ pc = "out" /\ op = "direct" /\ timed = FALSE /\ call = 0 /\ result = "none"
  /\ timer = 0
  /\ tm = [k \in Waits |-> "none"]
  /\ of = [k \in Waits |-> 0]
  /\ cancelled = {} /\ registered = FALSE /\ scheduled = 0
  /\ ready = FALSE /\ sock = "connected" /\ steals = 0

-----------------------------------------------------------------------------
(* The call: hooks are off, there is no FdCtx, it is not a socket or the    *)
(* user made it non-blocking, and the original function is called.          *)
Unhooked ==
  /\ pc = "out" /\ call < MaxCalls
  /\ call' = call + 1
  /\ op' = "direct"
  /\ result' \in {"done", "error"}
  /\ UNCHANGED <<pc, timed, timer, tm, of, cancelled, registered, scheduled,
                 kernel>>

(* Mutant: tinfo is the one of the last call. *)
BeginSharesTinfo(kind, timeout) ==
  /\ pc = "out" /\ call < MaxCalls
  /\ call' = call + 1
  /\ result' = "none" /\ timer' = 0 /\ op' = kind /\ timed' = timeout /\ pc' = "fun"
  /\ cancelled' = IF call \in cancelled THEN cancelled \cup {call + 1} ELSE cancelled
  /\ ready' = (kind = "io" /\ ready)
  /\ sock' = IF kind = "io" THEN sock ELSE "new"
  /\ UNCHANGED <<tm, of, registered, scheduled, steals>>
(* do_io or connect_with_timeout with a fresh tinfo; each connect is for a  *)
(* new socket with the number of the last one                               *)
Begin(kind, timeout) ==
  /\ pc = "out" /\ call < MaxCalls
  /\ call' = call + 1
  /\ result' = "none" /\ timer' = 0 /\ op' = kind /\ timed' = timeout /\ pc' = "fun"
  /\ ready' = (kind = "io" /\ ready)
  /\ sock' = IF kind = "io" THEN sock ELSE "new"
  /\ UNCHANGED <<tm, of, cancelled, registered, scheduled, steals>>

(* sleep, usleep, nanosleep *)
Sleep ==
  /\ pc = "out" /\ call < MaxCalls
  /\ call' = call + 1
  /\ result' = "none" /\ timer' = 0 /\ op' = "sleep" /\ pc' = "arm"
  /\ UNCHANGED <<timed, tm, of, cancelled, registered, scheduled, kernel>>

(* do_io: the original function succeeds, fails, or would block *)
TryIo ==
  /\ pc = "fun" /\ op = "io"
  /\ \/ ready /\ Return("done") /\ ready' \in BOOLEAN
     \/ Return("error") /\ UNCHANGED ready
     \/ ~ready /\ pc' = "arm" /\ UNCHANGED <<result, ready>>
  /\ UNCHANGED <<op, timed, call, timer, tm, of, cancelled, registered,
                 scheduled, sock, steals>>
(* connect_with_timeout: connect succeeds, fails, or is in progress *)
TryConnect ==
  /\ pc = "fun" /\ op = "connect"
  /\ \/ Return("done") /\ sock' = "connected" /\ ready' = TRUE
     \/ Return("error") /\ UNCHANGED <<sock, ready>>
     \/ pc' = "arm" /\ sock' = "progress" /\ UNCHANGED <<result, ready>>
  /\ UNCHANGED <<op, timed, call, timer, tm, of, cancelled, registered,
                 scheduled, steals>>

(* addConditionTimer; the sleep family always arms one *)
Arm ==
  /\ pc = "arm"
  /\ pc' = IF op = "sleep" THEN "yield" ELSE "add"
  /\ IF timed \/ op = "sleep"
       THEN \E k \in Waits :
              /\ tm[k] = "none" /\ \A j \in 1..(k - 1) : tm[j] # "none"
              /\ timer' = k
              /\ tm' = [tm EXCEPT ![k] = "armed"]
              /\ of' = [of EXCEPT ![k] = call]
       ELSE UNCHANGED <<timer, tm, of>>
  /\ UNCHANGED <<op, timed, call, result, cancelled, registered, scheduled,
                 kernel>>

(* addEvent *)
AddEvent ==
  /\ pc = "add"
  /\ registered' = TRUE
  /\ pc' = "yield"
  /\ UNCHANGED <<op, timed, call, result, timer, tm, of, cancelled, scheduled,
                 kernel>>
AddEventFails ==
  /\ pc = "add" /\ AddMayFail
  /\ pc' = "failed"
  /\ UNCHANGED <<op, timed, call, result, timer, tm, of, cancelled,
                 registered, scheduled, kernel>>

(* Mutant: the path of a failed addEvent leaves the timer armed. *)
FailedLeavesTimer ==
  /\ pc = "failed"
  /\ IF op = "io" THEN Return("error") ELSE pc' = "sockopt" /\ UNCHANGED result
  /\ UNCHANGED <<op, timed, call, timer, tm, of, cancelled, registered,
                 scheduled, kernel>>
(* timer->cancel() *)
CancelTimer ==
  tm' = [k \in Waits |-> IF k = timer /\ tm[k] = "armed" THEN "off" ELSE tm[k]]
(* do_io gives up; connect_with_timeout goes on to getsockopt *)
Failed ==
  /\ pc = "failed"
  /\ CancelTimer
  /\ IF op = "io" THEN Return("error") ELSE pc' = "sockopt" /\ UNCHANGED result
  /\ UNCHANGED <<op, timed, call, timer, of, cancelled, registered, scheduled,
                 kernel>>

(* YieldToHold, and the scheduler's swapIn of a fiber in its queue *)
YieldToHold ==
  /\ pc = "yield"
  /\ pc' = "held"
  /\ UNCHANGED <<op, timed, call, result, timer, tm, of, cancelled,
                 registered, scheduled, kernel>>
Resume ==
  /\ pc = "held" /\ scheduled > 0
  /\ scheduled' = scheduled - 1
  /\ IF op = "sleep" THEN Return("done") ELSE pc' = "woken" /\ UNCHANGED result
  /\ UNCHANGED <<op, timed, call, timer, tm, of, cancelled, registered,
                 kernel>>

(* After the hold: timer->cancel() ... *)
Woken ==
  /\ pc = "woken"
  /\ CancelTimer
  /\ pc' = "check"
  /\ UNCHANGED <<op, timed, call, result, timer, of, cancelled, registered,
                 scheduled, kernel>>
(* Mutant: tinfo->cancelled is not looked at. *)
CheckIgnoresTinfo ==
  /\ pc = "check"
  /\ pc' = IF op = "io" THEN "fun" ELSE "sockopt"
  /\ UNCHANGED <<op, timed, call, result, timer, tm, of, cancelled,
                 registered, scheduled, kernel>>
(* ... and tinfo->cancelled: do_io tries again when it is not set *)
Check ==
  /\ pc = "check"
  /\ \/ call \in cancelled /\ Return("timedout")
     \/ /\ call \notin cancelled
        /\ pc' = IF op = "io" THEN "fun" ELSE "sockopt"
        /\ UNCHANGED result
  /\ UNCHANGED <<op, timed, call, timer, tm, of, cancelled, registered,
                 scheduled, kernel>>

(* connect_with_timeout: getsockopt may fail, and SO_ERROR is 0 unless the  *)
(* attempt has failed                                                       *)
SockOpt ==
  /\ pc = "sockopt"
  /\ \/ Return("error")
     \/ sock # "refused" /\ Return("done")
  /\ UNCHANGED <<op, timed, call, timer, tm, of, cancelled, registered,
                 scheduled, kernel>>

-----------------------------------------------------------------------------
(* listExpiredCb hands the callback to the scheduler. *)
Expire(k) ==
  /\ tm[k] = "armed"
  /\ tm' = [tm EXCEPT ![k] = "queued"]
  /\ UNCHANGED <<pc, op, timed, call, result, timer, of, cancelled,
                 registered, scheduled, kernel>>

(* Mutant: a fiber that is not on hold yet is not scheduled. *)
WakeSleeperIfHeld(k) ==
  /\ tm[k] = "queued" /\ of[k] = call /\ op = "sleep"
  /\ tm' = [tm EXCEPT ![k] = "done"]
  /\ scheduled' = IF pc = "held" THEN scheduled + 1 ELSE scheduled
  /\ UNCHANGED <<pc, op, timed, call, result, timer, of, cancelled,
                 registered, kernel>>
(* The callback of a sleep schedules the fiber. *)
WakeSleeper(k) ==
  /\ tm[k] = "queued" /\ of[k] = call /\ op = "sleep"
  /\ tm' = [tm EXCEPT ![k] = "done"]
  /\ scheduled' = scheduled + 1
  /\ UNCHANGED <<pc, op, timed, call, result, timer, of, cancelled,
                 registered, kernel>>

(* The callback of a timeout locks the weak pointer and looks at cancelled: *)
(* there is nothing to do when the call is over or has timed out.           *)
Live(k) == of[k] = call /\ pc # "out"
OnTimer(k) ==
  /\ tm[k] = "queued" /\ ~(of[k] = call /\ op = "sleep")
  /\ tm' = [tm EXCEPT ![k] = IF Live(k) /\ call \notin cancelled THEN "locked" ELSE "done"]
  /\ UNCHANGED <<pc, op, timed, call, result, timer, of, cancelled,
                 registered, scheduled, kernel>>
(* wk->cancelled = ETIMEDOUT ... *)
SetCancelled(k) ==
  /\ tm[k] = "locked"
  /\ tm' = [tm EXCEPT ![k] = "set"]
  /\ cancelled' = cancelled \cup {of[k]}
  /\ UNCHANGED <<pc, op, timed, call, result, timer, of, registered,
                 scheduled, kernel>>
(* ... iom->cancelEvent(fd, event), whoever registered it *)
CancelEvent(k) ==
  /\ tm[k] = "set"
  /\ tm' = [tm EXCEPT ![k] = "done"]
  /\ registered' = FALSE
  /\ scheduled' = IF registered THEN scheduled + 1 ELSE scheduled
  /\ UNCHANGED <<pc, op, timed, call, result, timer, of, cancelled, kernel>>
Callback(k) ==
  Expire(k) \/ WakeSleeper(k) \/ OnTimer(k) \/ SetCancelled(k) \/ CancelEvent(k)

(* Mutant: the event is taken away and its fiber is not scheduled. *)
ReportForgets ==
  /\ registered /\ ready
  /\ registered' = FALSE
  /\ UNCHANGED <<pc, op, timed, call, result, timer, tm, of, cancelled,
                 scheduled, kernel>>
(* The event loop reports the descriptor and triggers the event. *)
ReportEvent ==
  /\ registered /\ ready
  /\ registered' = FALSE
  /\ scheduled' = scheduled + 1
  /\ UNCHANGED <<pc, op, timed, call, result, timer, tm, of, cancelled,
                 kernel>>

(* The kernel: data arrives or an attempt to connect ends; data is taken by *)
(* somebody else.                                                           *)
BecomeReady ==
  /\ ~ready /\ sock # "new"
  /\ ready' = TRUE
  /\ IF sock = "progress" THEN sock' \in {"connected", "refused"} ELSE UNCHANGED sock
  /\ UNCHANGED <<pc, op, timed, call, result, timer, tm, of, cancelled,
                 registered, scheduled, steals>>
Steal ==
  /\ op # "connect" /\ ready /\ steals < MaxSteals
  /\ ready' = FALSE
  /\ steals' = steals + 1
  /\ UNCHANGED <<pc, op, timed, call, result, timer, tm, of, cancelled,
                 registered, scheduled, sock>>

-----------------------------------------------------------------------------
Fiber ==
  \/ TryIo \/ TryConnect \/ Arm \/ AddEvent \/ AddEventFails \/ Failed
  \/ YieldToHold \/ Resume \/ Woken \/ Check \/ SockOpt
Next ==
  \/ \E kind \in Kinds, timeout \in Timeouts : Begin(kind, timeout)
  \/ Unhooked \/ Sleep
  \/ Fiber \/ ReportEvent \/ BecomeReady \/ Steal
  \/ \E k \in Waits : Callback(k)

Spec == Init /\ [][Next]_vars

(* The fiber's thread, the timers and the event loop go on; nothing makes   *)
(* the fiber call again or the descriptor become ready.                     *)
FairSpec ==
  /\ Spec
  /\ WF_vars(Fiber) /\ WF_vars(ReportEvent)
  /\ \A k \in Waits : WF_vars(Callback(k))

-----------------------------------------------------------------------------
(* Every variable keeps its type; in particular the fiber is never in the   *)
(* scheduler's queue twice, although the event, a timeout of this call and  *)
(* a late timeout of an earlier call may all want to wake it.               *)
TypeOK ==
  /\ pc \in PC /\ op \in Kinds \cup {"sleep", "direct"} /\ timed \in BOOLEAN
  /\ call \in 0..MaxCalls
  /\ result \in {"none", "done", "error", "timedout"}
  /\ timer \in 0..MaxWaits
  /\ tm \in [Waits -> {"none", "armed", "off", "queued", "locked", "set", "done"}]
  /\ of \in [Waits -> 0..MaxCalls]
  /\ cancelled \subseteq 1..MaxCalls
  /\ registered \in BOOLEAN /\ scheduled \in {0, 1}
  /\ ready \in BOOLEAN /\ sock \in {"new", "progress", "connected", "refused"}
  /\ steals \in Nat

(* A call that has returned leaves nothing behind: no event that would wake *)
(* the fiber in a later call, no entry in the queue, no armed timer.        *)
NothingLeftBehind ==
  pc = "out" =>
    /\ ~registered /\ scheduled = 0
    /\ \A k \in Waits : tm[k] # "armed"

(* A call returns ETIMEDOUT only when a timer that was armed in this very   *)
(* call has expired, never because of the timer of an earlier one.          *)
TimedOutByOwnTimer ==
  result = "timedout" =>
    \E k \in Waits : of[k] = call /\ tm[k] \in {"set", "done"}

(* A descriptor that is ready ends the wait of the fiber, unless the data   *)
(* is taken by somebody else first.                                         *)
ReadyEndsWait == (registered /\ ready) ~> (pc = "out" \/ ~ready)

(* A timeout that is handed out while the fiber holds ends the call, unless *)
(* the descriptor becomes ready first, when no callback of another wait is  *)
(* under way.                                                               *)
ExpiryEndsCall ==
  (/\ pc = "held" /\ registered /\ call \notin cancelled
   /\ \E k \in Waits : of[k] = call /\ tm[k] = "queued"
   /\ \A k \in Waits : tm[k] \notin {"locked", "set"})
  ~> (pc = "out" \/ ready)

(* A fiber that sleeps wakes up. *)
SleepReturns == (op = "sleep" /\ pc # "out") ~> (pc = "out")

(* "SO_RCVTIMEO (read timeout), SO_SNDTIMEO (write timeout)" (hook.cpp:105):*)
(* a call that has a timeout returns.                                       *)
TimeoutEndsCall == (op \in Kinds /\ timed /\ pc # "out") ~> (pc = "out")

=============================================================================
