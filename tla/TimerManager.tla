--------------------------- MODULE TimerManager ---------------------------
(***************************************************************************)
(* The timers of an IOManager: Timer::cancel, refresh and reset,           *)
(* TimerManager::addTimer, getNextTimer and listExpiredCb, each in the     *)
(* steps that its locks make atomic, with the idle threads that ask for    *)
(* the next deadline, sleep until it, and collect what has expired.        *)
(*                                                                         *)
(* The order of m_timers is by m_next and then by address.  Addresses are  *)
(* not modelled: when two deadlines are equal either timer may come first. *)
(***************************************************************************)
EXTENDS Naturals, FiniteSets

CONSTANTS
  Timers,      \* the Timer objects
  Idlers,      \* the threads that run IOManager::idle
  Delays,      \* the ms arguments
  Gap,         \* 60*60*1000 in detectClockRollover
  Forever,     \* getNextTimer's ~0ull: there is no deadline
  MaxTime      \* bound: the clock stops there

ASSUME TimerAssumption ==
  /\ Delays \subseteq Nat /\ Gap \in Nat /\ MaxTime \in Nat
  /\ Forever \notin Nat /\ Idlers # {}

VARIABLES
  now,             \* GetCurrentMS
  built,           \* constructed by addTimer and not yet inserted
  live,            \* timers whose handle addTimer has returned
  m_timers,        \* the ordered set
  m_next, m_ms, m_recurring,
  m_cb,            \* m_cb is set
  m_tickled,
  m_previouseTime,
  notifying,       \* timers whose adder is about to call onTimerInsertedAtFront
  signal,          \* the tickle pipe is not empty (it is level-triggered)
  phase,           \* where an idle thread is, see Phase
  until,           \* the deadline it sleeps for
  byPipe,          \* epoll_wait reported the pipe, which it will drain
  now_ms,          \* listExpiredCb's now_ms
  handed,          \* history: how often a timer's callback was handed out
  cancelled,       \* history: timers whose cancel() returned true
  crashed          \* *m_timers.begin() of an empty set was dereferenced

timerVars == <<built, live, m_timers, m_next, m_ms, m_recurring, m_cb>>
idlerVars == <<phase, until, byPipe, now_ms>>
histVars  == <<handed, cancelled, crashed>>
vars == <<now, timerVars, m_tickled, m_previouseTime, notifying, signal,
          idlerVars, histVars>>

-----------------------------------------------------------------------------
Phase == {"away", "asleep", "woken", "looking", "listing", "events"}

(* hasIdleThreads() for certain.  A thread that is away may also be counted:*)
(* run() counts it a little longer than it sleeps and collects.             *)
HasIdleThreads == \E i \in Idlers : phase[i] # "away"

(* *m_timers.begin() *)
IsFirst(tm) == tm \in m_timers /\ \A o \in m_timers : m_next[tm] <= m_next[o]

(* addTimer(val, lock) after the insertion of tm, due at next, among others:*)
(* the first insertion in front since the last getNextTimer is announced.   *)
Announce(tm, next, others) ==
  \E first \in BOOLEAN :
    /\ first => \A o \in others : next <= m_next[o]
    /\ ~first => \E o \in others : m_next[o] <= next
    /\ m_tickled' = (m_tickled \/ first)
    /\ notifying' = IF first /\ ~m_tickled THEN notifying \cup {tm} ELSE notifying

(* detectClockRollover *)
Rollover(t) == t > m_previouseTime + Gap

(* Mutant: the iterator is moved one timer too far. *)
ExpiredTooFar(t) ==
  IF Rollover(t) THEN m_timers ELSE {tm \in m_timers : m_next[tm] <= t + 1}
(* [m_timers.begin(), it) in listExpiredCb *)
Expired(t) ==
  IF Rollover(t) THEN m_timers ELSE {tm \in m_timers : m_next[tm] <= t}

-----------------------------------------------------------------------------
Init ==
  /\ now = 0
  /\ built = {} /\ live = {} /\ m_timers = {}
  /\ m_next = [tm \in Timers |-> 0]
  /\ m_ms = [tm \in Timers |-> 0]
  /\ m_recurring = [tm \in Timers |-> FALSE]
  /\ m_cb = [tm \in Timers |-> FALSE]
  /\ m_tickled = FALSE
  /\ m_previouseTime = 0
  /\ notifying = {} /\ signal = FALSE
  /\ phase = [i \in Idlers |-> "away"]
  /\ until = [i \in Idlers |-> Forever]
  /\ byPipe = [i \in Idlers |-> FALSE]
  /\ now_ms = [i \in Idlers |-> 0]
  /\ handed = [tm \in Timers |-> 0]
  /\ cancelled = {} /\ crashed = FALSE

-----------------------------------------------------------------------------
(* addTimer: the Timer is constructed, and its deadline fixed, before the   *)
(* lock is taken ...                                                        *)
Construct(tm, ms, recurring) ==
  /\ tm \notin built \cup live
  /\ built' = built \cup {tm}
  /\ m_ms' = [m_ms EXCEPT ![tm] = ms]
  /\ m_next' = [m_next EXCEPT ![tm] = now + ms]
  /\ m_recurring' = [m_recurring EXCEPT ![tm] = recurring]
  /\ m_cb' = [m_cb EXCEPT ![tm] = TRUE]
  /\ UNCHANGED <<now, live, m_timers, m_tickled, m_previouseTime, notifying,
                 signal, idlerVars, histVars>>

(* ... then it is inserted ... *)
AddTimer(tm) ==
  /\ tm \in built
  /\ built' = built \ {tm}
  /\ live' = live \cup {tm}
  /\ m_timers' = m_timers \cup {tm}
  /\ Announce(tm, m_next[tm], m_timers)
  /\ UNCHANGED <<now, m_next, m_ms, m_recurring, m_cb, m_previouseTime, signal,
                 idlerVars, histVars>>

(* ... and onTimerInsertedAtFront is called without the lock: tickle()      *)
(* writes to the pipe if a thread is idle.                                  *)
OnTimerInsertedAtFront(tm) ==
  /\ tm \in notifying
  /\ notifying' = notifying \ {tm}
  /\ signal' = TRUE \/ (~HasIdleThreads /\ signal' = signal)
  /\ UNCHANGED <<now, timerVars, m_tickled, m_previouseTime, idlerVars, histVars>>

(* The owner of a timer uses its handle once addTimer or reset returned. *)
Held(tm) == tm \in live /\ tm \notin notifying

(* Mutant: the callback is cleared and the timer stays in the set. *)
CancelKeepsTimer(tm) ==
  /\ Held(tm) /\ m_cb[tm]
  /\ m_cb' = [m_cb EXCEPT ![tm] = FALSE]
  /\ cancelled' = IF tm \in m_timers THEN cancelled \cup {tm} ELSE cancelled
  /\ UNCHANGED <<now, built, live, m_timers, m_next, m_ms, m_recurring,
                 m_tickled, m_previouseTime, notifying, signal, idlerVars,
                 handed, crashed>>
(* Timer::cancel; it returns false and changes nothing without a callback *)
Cancel(tm) ==
  /\ Held(tm) /\ m_cb[tm]
  /\ m_cb' = [m_cb EXCEPT ![tm] = FALSE]
  /\ m_timers' = m_timers \ {tm}
  /\ cancelled' = IF tm \in m_timers THEN cancelled \cup {tm} ELSE cancelled
  /\ UNCHANGED <<now, built, live, m_next, m_ms, m_recurring, m_tickled,
                 m_previouseTime, notifying, signal, idlerVars, handed, crashed>>

(* Timer::refresh: erase, move the deadline, insert; nobody is told *)
Refresh(tm) ==
  /\ Held(tm) /\ m_cb[tm] /\ tm \in m_timers
  /\ m_next' = [m_next EXCEPT ![tm] = now + m_ms[tm]]
  /\ UNCHANGED <<now, built, live, m_timers, m_ms, m_recurring, m_cb,
                 m_tickled, m_previouseTime, notifying, signal, idlerVars,
                 histVars>>

(* Timer::reset: the new deadline goes through addTimer(val, lock) *)
Reset(tm, ms, from_now) ==
  LET start == IF from_now THEN now ELSE m_next[tm] - m_ms[tm] IN
  /\ Held(tm) /\ m_cb[tm] /\ tm \in m_timers
  /\ from_now \/ ms # m_ms[tm]
  /\ m_ms' = [m_ms EXCEPT ![tm] = ms]
  /\ m_next' = [m_next EXCEPT ![tm] = start + ms]
  /\ Announce(tm, start + ms, m_timers \ {tm})
  /\ UNCHANGED <<now, built, live, m_timers, m_recurring, m_cb,
                 m_previouseTime, signal, idlerVars, histVars>>

-----------------------------------------------------------------------------
(* An idle thread.                                                         *)

(* Mutant: getNextTimer leaves m_tickled as it is. *)
GetNextTimerKeepsTickled(i) ==
  /\ phase[i] = "away"
  /\ phase' = [phase EXCEPT ![i] = "asleep"]
  /\ \/ m_timers = {} /\ until' = [until EXCEPT ![i] = Forever]
     \/ \E tm \in m_timers :
          /\ IsFirst(tm)
          /\ until' = [until EXCEPT
               ![i] = IF now >= m_next[tm] THEN now ELSE m_next[tm]]
  /\ UNCHANGED <<now, timerVars, m_tickled, m_previouseTime, notifying, signal,
                 byPipe, now_ms, histVars>>
(* getNextTimer; the thread then waits that long in epoll_wait *)
GetNextTimer(i) ==
  /\ phase[i] = "away"
  /\ phase' = [phase EXCEPT ![i] = "asleep"]
  /\ m_tickled' = FALSE
  /\ \/ m_timers = {} /\ until' = [until EXCEPT ![i] = Forever]
     \/ \E tm \in m_timers :
          /\ IsFirst(tm)
          /\ until' = [until EXCEPT
               ![i] = IF now >= m_next[tm] THEN now ELSE m_next[tm]]
  /\ UNCHANGED <<now, timerVars, m_previouseTime, notifying, signal, byPipe,
                 now_ms, histVars>>

(* epoll_wait returns for the deadline or for the pipe. *)
EpollWait(i) ==
  /\ phase[i] = "asleep"
  /\ signal \/ (until[i] # Forever /\ until[i] <= now)
  /\ byPipe' = [byPipe EXCEPT ![i] = signal]
  /\ until' = [until EXCEPT ![i] = Forever]
  /\ phase' = [phase EXCEPT ![i] = "woken"]
  /\ UNCHANGED <<now, timerVars, m_tickled, m_previouseTime, notifying, signal,
                 now_ms, histVars>>

(* listExpiredCb reads the clock ... *)
ReadClock(i) ==
  /\ phase[i] = "woken"
  /\ now_ms' = [now_ms EXCEPT ![i] = now]
  /\ phase' = [phase EXCEPT ![i] = "looking"]
  /\ UNCHANGED <<now, timerVars, m_tickled, m_previouseTime, notifying, signal,
                 until, byPipe, histVars>>

(* ... and, under the read lock, whether there is a timer at all. *)
LookForTimers(i) ==
  /\ phase[i] = "looking"
  /\ \/ /\ m_timers # {}
        /\ phase' = [phase EXCEPT ![i] = "listing"]
        /\ UNCHANGED now_ms
     \/ /\ m_timers = {}
        /\ phase' = [phase EXCEPT ![i] = "events"]
        /\ now_ms' = [now_ms EXCEPT ![i] = 0]
  /\ UNCHANGED <<now, timerVars, m_tickled, m_previouseTime, notifying, signal,
                 until, byPipe, histVars>>

(* listExpiredCb under the write lock: the expired callbacks are handed to  *)
(* the scheduler; a recurring timer is armed again.                         *)
ListEnd(i) ==
  LET expired == Expired(now_ms[i])
      again   == {tm \in expired : m_recurring[tm]}
  IN
  /\ phase[i] = "listing"
  /\ m_timers # {} \/ Rollover(now_ms[i])
  /\ m_previouseTime' = now_ms[i]
  /\ m_timers' = (m_timers \ expired) \cup again
  /\ m_next' = [tm \in Timers |->
                  IF tm \in again THEN m_ms[tm] + now_ms[i] ELSE m_next[tm]]
  /\ m_cb' = [tm \in Timers |-> m_cb[tm] /\ tm \notin expired \ again]
  /\ handed' = [tm \in Timers |->
                  IF tm \in expired THEN handed[tm] + 1 ELSE handed[tm]]
  /\ phase' = [phase EXCEPT ![i] = "events"]
  /\ now_ms' = [now_ms EXCEPT ![i] = 0]
  /\ UNCHANGED <<now, built, live, m_ms, m_recurring, m_tickled, notifying,
                 signal, byPipe, until, cancelled, crashed>>

(* The set has become empty since the read lock was released. *)
ListCrash(i) ==
  /\ phase[i] = "listing" /\ m_timers = {} /\ ~Rollover(now_ms[i])
  /\ crashed' = TRUE
  /\ UNCHANGED <<now, timerVars, m_tickled, m_previouseTime, notifying, signal,
                 idlerVars, handed, cancelled>>

(* The event loop of IOManager::idle: a thread woken by the pipe empties it,*)
(* bytes written since included, and the thread leaves its idle fiber.      *)
DrainPipe(i) ==
  /\ phase[i] = "events"
  /\ signal' = (signal /\ ~byPipe[i])
  /\ byPipe' = [byPipe EXCEPT ![i] = FALSE]
  /\ phase' = [phase EXCEPT ![i] = "away"]
  /\ UNCHANGED <<now, timerVars, m_tickled, m_previouseTime, notifying, until,
                 now_ms, histVars>>

(* stop() asks IOManager::stopping, which calls getNextTimer and does not   *)
(* sleep.                                                                   *)
StopAsks ==
  /\ m_tickled
  /\ m_tickled' = FALSE
  /\ UNCHANGED <<now, timerVars, m_previouseTime, notifying, signal, idlerVars,
                 histVars>>

Tick ==
  /\ now < MaxTime
  /\ now' = now + 1
  /\ UNCHANGED <<timerVars, m_tickled, m_previouseTime, notifying, signal,
                 idlerVars, histVars>>

-----------------------------------------------------------------------------
Idle(i) ==
  \/ GetNextTimer(i) \/ EpollWait(i) \/ ReadClock(i) \/ LookForTimers(i)
  \/ ListEnd(i) \/ ListCrash(i) \/ DrainPipe(i)
User ==
  \/ \E tm \in Timers, ms \in Delays, r \in BOOLEAN : Construct(tm, ms, r)
  \/ \E tm \in Timers : Cancel(tm) \/ Refresh(tm)
  \/ \E tm \in Timers, ms \in Delays, b \in BOOLEAN : Reset(tm, ms, b)
  \/ StopAsks
Adding(tm) == AddTimer(tm) \/ OnTimerInsertedAtFront(tm)
Next ==
  /\ ~crashed
  /\ User \/ (\E tm \in Timers : Adding(tm)) \/ (\E i \in Idlers : Idle(i)) \/ Tick

Spec == Init /\ [][Next]_vars

(* Threads run and time passes; users need not call anything. *)
FairSpec ==
  /\ Spec
  /\ \A i \in Idlers : WF_vars(~crashed /\ Idle(i))
  /\ \A tm \in Timers : WF_vars(~crashed /\ Adding(tm))
  /\ WF_vars(~crashed /\ Tick)

-----------------------------------------------------------------------------
(* Every variable keeps its type; a timer is in the set only once addTimer  *)
(* has put it there; and a deadline is at least one period and at most one  *)
(* period from now, so the unsigned m_next - m_ms of reset() does not wrap. *)
TypeOK ==
  /\ now \in Nat
  /\ built \subseteq Timers /\ live \subseteq Timers /\ m_timers \subseteq Timers
  /\ m_next \in [Timers -> Nat]
  /\ m_ms \in [Timers -> Nat]
  /\ m_recurring \in [Timers -> BOOLEAN]
  /\ m_cb \in [Timers -> BOOLEAN]
  /\ m_tickled \in BOOLEAN
  /\ m_previouseTime \in Nat
  /\ notifying \subseteq Timers
  /\ signal \in BOOLEAN
  /\ phase \in [Idlers -> Phase]
  /\ until \in [Idlers -> Nat \cup {Forever}]
  /\ byPipe \in [Idlers -> BOOLEAN]
  /\ now_ms \in [Idlers -> Nat]
  /\ handed \in [Timers -> Nat]
  /\ cancelled \subseteq Timers
  /\ crashed \in BOOLEAN
  /\ m_timers \subseteq live /\ built \cap live = {}
  /\ \A i \in Idlers : now_ms[i] <= now
  /\ \A tm \in built \cup live : m_ms[tm] <= m_next[tm] /\ m_next[tm] <= now + m_ms[tm]

(* Outside the locks a timer that was added has its callback exactly while  *)
(* it is in the set: cancel, refresh and reset decide on m_cb and then look *)
(* in the set, and listExpiredCb clears the one and leaves the other.       *)
SetIffCallback ==
  \A tm \in live : m_cb[tm] <=> tm \in m_timers

(* For a one-shot timer, "cancel() returned true" and "the callback was     *)
(* handed out" exclude each other, and each happens at most once, however   *)
(* cancel races listExpiredCb in several idle threads.                      *)
OneOutcome ==
  \A tm \in Timers :
    ~m_recurring[tm] =>
      handed[tm] + (IF tm \in cancelled THEN 1 ELSE 0) <= 1

(* No timer is due before somebody looks: for every timer in the set an     *)
(* idle thread is awake, or a wake-up is on its way, or a sleeper's timeout *)
(* ends in time, although m_tickled lets most insertions go unannounced.    *)
NoOversleep ==
  \A tm \in m_timers :
    \/ signal \/ notifying # {}
    \/ \E i \in Idlers :
         \/ phase[i] # "asleep"
         \/ until[i] # Forever /\ (until[i] <= m_next[tm] \/ until[i] <= now)

(* m_next is "the exact time of execution" (timer.h:27).  A callback is     *)
(* handed out before it only when more than Gap has passed since            *)
(* listExpiredCb last got as far as detectClockRollover, which a manager    *)
(* without timers does not do (timer.cpp:149-157): then a clock that never  *)
(* jumped is taken for one that did, and every timer goes out at once.      *)
NotEarly ==
  [][\A tm \in Timers :
       handed'[tm] # handed[tm] =>
         m_next[tm] <= now \/ now > m_previouseTime + Gap]_vars

(* A timer that is due is handed out, or its owner moves or cancels it. *)
DueIsHanded ==
  \A tm \in Timers :
    (tm \in m_timers /\ m_next[tm] <= now) ~>
      (tm \notin m_timers \/ m_next[tm] > now \/ crashed)

=============================================================================
