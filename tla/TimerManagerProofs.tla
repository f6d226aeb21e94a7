------------------------- MODULE TimerManagerProofs ------------------------
(***************************************************************************)
(* Proofs about TimerManager, for every set of timers and of idle threads, *)
(* every set of delays and every length of the run.                        *)
(***************************************************************************)
EXTENDS TimerManager, TLAPS

(* A timer that is not yet inserted, or that is in the set as a one-shot    *)
(* timer, has had neither of its two outcomes.                              *)
OutcomeInv ==
  /\ \A tm \in Timers :
       tm \notin live \/ (tm \in m_timers /\ ~m_recurring[tm]) =>
         handed[tm] = 0 /\ tm \notin cancelled
  /\ OneOutcome

(* While m_tickled holds back announcements, somebody is awake or the       *)
(* announcement it stands for has not been consumed.                        *)
TickledInv ==
  m_tickled =>
    \/ signal \/ notifying # {}
    \/ \E i \in Idlers : phase[i] # "asleep"

(* A timer that is being added has its callback. *)
BuiltInv == \A tm \in built : m_cb[tm]

SafeInv  == TypeOK /\ SetIffCallback /\ BuiltInv /\ OutcomeInv
SleepInv == TickledInv /\ NoOversleep

-----------------------------------------------------------------------------
(* The initial state satisfies both invariants. *)
LEMMA TimerInit == Init => SafeInv /\ SleepInv
<1>. SUFFICES ASSUME Init PROVE SafeInv /\ SleepInv
  OBVIOUS
<1>1. TypeOK
  <2>1. /\ m_tickled \in BOOLEAN /\ signal \in BOOLEAN /\ crashed \in BOOLEAN
        /\ m_recurring \in [Timers -> BOOLEAN] /\ m_cb \in [Timers -> BOOLEAN]
        /\ byPipe \in [Idlers -> BOOLEAN]
    BY Zenon DEF Init
  <2>2. /\ m_next \in [Timers -> Nat] /\ m_ms \in [Timers -> Nat]
        /\ handed \in [Timers -> Nat] /\ now_ms \in [Idlers -> Nat]
        /\ phase \in [Idlers -> Phase]
        /\ until \in [Idlers -> Nat \cup {Forever}]
        /\ \A i \in Idlers : now_ms[i] <= now
    BY DEF Init, Phase
  <2>3. /\ now \in Nat /\ m_previouseTime \in Nat /\ built = {} /\ live = {}
        /\ m_timers = {} /\ notifying = {} /\ cancelled = {}
    BY DEF Init
  <2>. QED
    BY <2>1, <2>2, <2>3 DEF TypeOK
<1>2. SetIffCallback /\ BuiltInv /\ OutcomeInv
  BY DEF Init, SetIffCallback, BuiltInv, OutcomeInv, OneOutcome
<1>3. SleepInv
  BY Zenon DEF Init, SleepInv, TickledInv, NoOversleep
<1>. QED
  BY <1>1, <1>2, <1>3 DEF SafeInv

(* Types and outcomes are kept by every action. *)
LEMMA SafeNext == SafeInv /\ [Next]_vars => SafeInv'
<1>. SUFFICES ASSUME SafeInv, [Next]_vars PROVE SafeInv'
  OBVIOUS
<1>. TypeOK /\ SetIffCallback /\ BuiltInv /\ OutcomeInv
  BY DEF SafeInv
<1>. Delays \subseteq Nat /\ Gap \in Nat /\ Forever \notin Nat
  BY TimerAssumption
<1>1. ASSUME NEW tm \in Timers, NEW ms \in Delays, NEW r \in BOOLEAN,
             Construct(tm, ms, r)
      PROVE  SafeInv'
  <2>1. TypeOK'
    BY <1>1 DEF Construct, TypeOK, timerVars, idlerVars, histVars
  <2>2. SetIffCallback' /\ BuiltInv'
    BY <1>1 DEF Construct, SetIffCallback, BuiltInv, TypeOK, timerVars, idlerVars, histVars
  <2>3. OutcomeInv'
    BY <1>1 DEF Construct, SetIffCallback, OutcomeInv, OneOutcome, TypeOK, timerVars, idlerVars, histVars
  <2>. QED
    BY <2>1, <2>2, <2>3 DEF SafeInv
<1>2. ASSUME NEW tm \in Timers, AddTimer(tm)
      PROVE  SafeInv'
  <2>1. TypeOK'
    BY <1>2 DEF AddTimer, TypeOK, timerVars, idlerVars, histVars, Announce
  <2>2. SetIffCallback' /\ BuiltInv'
    BY <1>2 DEF AddTimer, SetIffCallback, BuiltInv, TypeOK, timerVars, idlerVars, histVars, Announce
  <2>3. OutcomeInv'
    BY <1>2 DEF AddTimer, SetIffCallback, OutcomeInv, OneOutcome, TypeOK, timerVars, idlerVars, histVars, Announce
  <2>. QED
    BY <2>1, <2>2, <2>3 DEF SafeInv
<1>3. ASSUME NEW tm \in Timers, OnTimerInsertedAtFront(tm)
      PROVE  SafeInv'
  <2>1. TypeOK'
    BY <1>3 DEF OnTimerInsertedAtFront, TypeOK, timerVars, idlerVars, histVars
  <2>2. SetIffCallback' /\ BuiltInv'
    BY <1>3 DEF OnTimerInsertedAtFront, SetIffCallback, BuiltInv, TypeOK, timerVars, idlerVars, histVars
  <2>3. OutcomeInv'
    BY <1>3 DEF OnTimerInsertedAtFront, SetIffCallback, OutcomeInv, OneOutcome, TypeOK, timerVars, idlerVars, histVars
  <2>. QED
    BY <2>1, <2>2, <2>3 DEF SafeInv
<1>4. ASSUME NEW tm \in Timers, Cancel(tm)
      PROVE  SafeInv'
  <2>1. TypeOK'
    BY <1>4 DEF Cancel, TypeOK, timerVars, idlerVars, histVars, Held
  <2>2. SetIffCallback' /\ BuiltInv'
    BY <1>4 DEF Cancel, SetIffCallback, BuiltInv, TypeOK, timerVars, idlerVars, histVars, Held
  <2>3. OutcomeInv'
    BY <1>4 DEF Cancel, SetIffCallback, OutcomeInv, OneOutcome, TypeOK, timerVars, idlerVars, histVars, Held
  <2>. QED
    BY <2>1, <2>2, <2>3 DEF SafeInv
<1>5. ASSUME NEW tm \in Timers, Refresh(tm)
      PROVE  SafeInv'
  <2>1. TypeOK'
    BY <1>5 DEF Refresh, TypeOK, timerVars, idlerVars, histVars, Held
  <2>2. SetIffCallback' /\ BuiltInv'
    BY <1>5 DEF Refresh, SetIffCallback, BuiltInv, TypeOK, timerVars, idlerVars, histVars, Held
  <2>3. OutcomeInv'
    BY <1>5 DEF Refresh, SetIffCallback, OutcomeInv, OneOutcome, TypeOK, timerVars, idlerVars, histVars, Held
  <2>. QED
    BY <2>1, <2>2, <2>3 DEF SafeInv
<1>6. ASSUME NEW tm \in Timers, NEW ms \in Delays, NEW b \in BOOLEAN,
             Reset(tm, ms, b)
      PROVE  SafeInv'
  <2>1. TypeOK'
    BY <1>6 DEF Reset, TypeOK, timerVars, idlerVars, histVars, Held, Announce
  <2>2. SetIffCallback' /\ BuiltInv'
    BY <1>6 DEF Reset, SetIffCallback, BuiltInv, TypeOK, timerVars, idlerVars, histVars, Held, Announce
  <2>3. OutcomeInv'
    BY <1>6 DEF Reset, SetIffCallback, OutcomeInv, OneOutcome, TypeOK, timerVars, idlerVars, histVars, Held, Announce
  <2>. QED
    BY <2>1, <2>2, <2>3 DEF SafeInv
<1>7. ASSUME NEW i \in Idlers, GetNextTimer(i)
      PROVE  SafeInv'
  <2>1. TypeOK'
    BY <1>7 DEF GetNextTimer, TypeOK, Phase, timerVars, idlerVars, histVars, IsFirst
  <2>2. SetIffCallback' /\ BuiltInv'
    BY <1>7 DEF GetNextTimer, SetIffCallback, BuiltInv, TypeOK, timerVars, idlerVars, histVars, IsFirst
  <2>3. OutcomeInv'
    BY <1>7 DEF GetNextTimer, SetIffCallback, OutcomeInv, OneOutcome, TypeOK, timerVars, idlerVars, histVars, IsFirst
  <2>. QED
    BY <2>1, <2>2, <2>3 DEF SafeInv
<1>8. ASSUME NEW i \in Idlers, EpollWait(i) \/ ReadClock(i) \/ LookForTimers(i)
      PROVE  SafeInv'
  <2>1. /\ until' \in [Idlers -> Nat \cup {Forever}]
        /\ byPipe' \in [Idlers -> BOOLEAN] /\ signal' = signal
    BY <1>8 DEF EpollWait, ReadClock, LookForTimers, TypeOK
  <2>2. /\ phase' \in [Idlers -> Phase]
        /\ now_ms' \in [Idlers -> Nat] /\ \A j \in Idlers : now_ms'[j] <= now
    BY <1>8 DEF EpollWait, ReadClock, LookForTimers, TypeOK, Phase
  <2>3. UNCHANGED <<now, timerVars, m_tickled, m_previouseTime, notifying, histVars>>
    BY <1>8 DEF EpollWait, ReadClock, LookForTimers
  <2>4. TypeOK'
    BY <2>1, <2>2, <2>3 DEF TypeOK, timerVars, histVars
  <2>5. SetIffCallback' /\ BuiltInv'
    BY <2>3 DEF SetIffCallback, BuiltInv, timerVars
  <2>6. OutcomeInv'
    BY <2>3 DEF OutcomeInv, OneOutcome, timerVars, histVars
  <2>. QED
    BY <2>4, <2>5, <2>6 DEF SafeInv
<1>9. ASSUME NEW i \in Idlers, ListEnd(i)
      PROVE  SafeInv'
  <2>1. TypeOK'
    BY <1>9 DEF ListEnd, TypeOK, Phase, timerVars, idlerVars, histVars, Expired
  <2>2. SetIffCallback' /\ BuiltInv'
    BY <1>9 DEF ListEnd, SetIffCallback, BuiltInv, TypeOK, timerVars, idlerVars, histVars, Expired
  <2>3. OutcomeInv'
    BY <1>9 DEF ListEnd, SetIffCallback, OutcomeInv, OneOutcome, TypeOK, timerVars, idlerVars, histVars, Expired
  <2>. QED
    BY <2>1, <2>2, <2>3 DEF SafeInv
<1>10. ASSUME NEW i \in Idlers, ListCrash(i)
      PROVE  SafeInv'
  <2>1. TypeOK'
    BY <1>10 DEF ListCrash, TypeOK, timerVars, idlerVars, histVars
  <2>2. SetIffCallback' /\ BuiltInv'
    BY <1>10 DEF ListCrash, SetIffCallback, BuiltInv, TypeOK, timerVars, idlerVars, histVars
  <2>3. OutcomeInv'
    BY <1>10 DEF ListCrash, SetIffCallback, OutcomeInv, OneOutcome, TypeOK, timerVars, idlerVars, histVars
  <2>. QED
    BY <2>1, <2>2, <2>3 DEF SafeInv
<1>11. ASSUME NEW i \in Idlers, DrainPipe(i)
      PROVE  SafeInv'
  <2>1. TypeOK'
    BY <1>11 DEF DrainPipe, TypeOK, Phase, timerVars, idlerVars, histVars
  <2>2. SetIffCallback' /\ BuiltInv'
    BY <1>11 DEF DrainPipe, SetIffCallback, BuiltInv, TypeOK, timerVars, idlerVars, histVars
  <2>3. OutcomeInv'
    BY <1>11 DEF DrainPipe, SetIffCallback, OutcomeInv, OneOutcome, TypeOK, timerVars, idlerVars, histVars
  <2>. QED
    BY <2>1, <2>2, <2>3 DEF SafeInv
<1>12. CASE Tick
  <2>1. TypeOK'
    BY <1>12 DEF Tick, TypeOK, timerVars, idlerVars, histVars
  <2>2. SetIffCallback' /\ BuiltInv'
    BY <1>12 DEF Tick, SetIffCallback, BuiltInv, TypeOK, timerVars, idlerVars, histVars
  <2>3. OutcomeInv'
    BY <1>12 DEF Tick, SetIffCallback, OutcomeInv, OneOutcome, TypeOK, timerVars, idlerVars, histVars
  <2>. QED
    BY <2>1, <2>2, <2>3 DEF SafeInv
<1>13. CASE UNCHANGED vars
  <2>1. TypeOK'
    BY <1>13 DEF vars, TypeOK, timerVars, idlerVars, histVars
  <2>2. SetIffCallback' /\ BuiltInv'
    BY <1>13 DEF vars, SetIffCallback, BuiltInv, TypeOK, timerVars, idlerVars, histVars
  <2>3. OutcomeInv'
    BY <1>13 DEF vars, SetIffCallback, OutcomeInv, OneOutcome, TypeOK, timerVars, idlerVars, histVars
  <2>. QED
    BY <2>1, <2>2, <2>3 DEF SafeInv
<1>14. CASE StopAsks
  <2>1. TypeOK'
    BY <1>14 DEF StopAsks, TypeOK, timerVars, idlerVars, histVars
  <2>2. SetIffCallback' /\ BuiltInv'
    BY <1>14 DEF StopAsks, SetIffCallback, BuiltInv, timerVars
  <2>3. OutcomeInv'
    BY <1>14 DEF StopAsks, OutcomeInv, OneOutcome, timerVars, histVars
  <2>. QED
    BY <2>1, <2>2, <2>3 DEF SafeInv
<1>. QED
  BY <1>1, <1>2, <1>3, <1>4, <1>5, <1>6, <1>7, <1>8, <1>9, <1>10, <1>11, <1>12, <1>13,
     <1>14
  DEF Next, User, Adding, Idle

(* Somebody wakes up in time after every action. *)
LEMMA SleepNext == TypeOK /\ SleepInv /\ [Next]_vars => SleepInv'
<1>. SUFFICES ASSUME TypeOK, SleepInv, [Next]_vars PROVE SleepInv'
  OBVIOUS
<1>. TickledInv /\ NoOversleep
  BY DEF SleepInv
<1>. Delays \subseteq Nat /\ Gap \in Nat /\ Forever \notin Nat /\ Idlers # {}
  BY TimerAssumption
<1>1. ASSUME NEW tm \in Timers, NEW ms \in Delays, NEW r \in BOOLEAN,
             Construct(tm, ms, r)
      PROVE  SleepInv'
  <2>1. TickledInv'
    BY <1>1 DEF Construct, TickledInv, TypeOK, timerVars, idlerVars, histVars
  <2>2. NoOversleep'
    BY <1>1 DEF Construct, TickledInv, NoOversleep, TypeOK, timerVars, idlerVars, histVars
  <2>. QED
    BY <2>1, <2>2 DEF SleepInv
<1>2. ASSUME NEW tm \in Timers, AddTimer(tm)
      PROVE  SleepInv'
  <2>1. TickledInv'
    BY <1>2 DEF AddTimer, TickledInv, TypeOK, timerVars, idlerVars, histVars, Announce
  <2>2. NoOversleep'
    BY <1>2 DEF AddTimer, TickledInv, NoOversleep, TypeOK, timerVars, idlerVars, histVars, Announce
  <2>. QED
    BY <2>1, <2>2 DEF SleepInv
<1>3. ASSUME NEW tm \in Timers, OnTimerInsertedAtFront(tm)
      PROVE  SleepInv'
  <2>1. TickledInv'
    BY <1>3 DEF OnTimerInsertedAtFront, TickledInv, TypeOK, timerVars, idlerVars, histVars, HasIdleThreads
  <2>2. NoOversleep'
    BY <1>3 DEF OnTimerInsertedAtFront, TickledInv, NoOversleep, TypeOK, timerVars, idlerVars, histVars, HasIdleThreads
  <2>. QED
    BY <2>1, <2>2 DEF SleepInv
<1>4. ASSUME NEW tm \in Timers, Cancel(tm)
      PROVE  SleepInv'
  <2>1. TickledInv'
    BY <1>4 DEF Cancel, TickledInv, TypeOK, timerVars, idlerVars, histVars, Held
  <2>2. NoOversleep'
    BY <1>4 DEF Cancel, TickledInv, NoOversleep, TypeOK, timerVars, idlerVars, histVars, Held
  <2>. QED
    BY <2>1, <2>2 DEF SleepInv
<1>5. ASSUME NEW tm \in Timers, Refresh(tm)
      PROVE  SleepInv'
  <2>1. TickledInv'
    BY <1>5 DEF Refresh, TickledInv, TypeOK, timerVars, idlerVars, histVars, Held
  <2>2. NoOversleep'
    BY <1>5 DEF Refresh, TickledInv, NoOversleep, TypeOK, timerVars, idlerVars, histVars, Held
  <2>. QED
    BY <2>1, <2>2 DEF SleepInv
<1>6. ASSUME NEW tm \in Timers, NEW ms \in Delays, NEW b \in BOOLEAN,
             Reset(tm, ms, b)
      PROVE  SleepInv'
  <2>1. TickledInv'
    BY <1>6 DEF Reset, TickledInv, TypeOK, timerVars, idlerVars, histVars, Held, Announce
  <2>2. NoOversleep'
    BY <1>6 DEF Reset, TickledInv, NoOversleep, TypeOK, timerVars, idlerVars, histVars, Held, Announce
  <2>. QED
    BY <2>1, <2>2 DEF SleepInv
<1>7. ASSUME NEW i \in Idlers, GetNextTimer(i)
      PROVE  SleepInv'
  <2>1. TickledInv'
    BY <1>7 DEF GetNextTimer, TickledInv, TypeOK, timerVars, idlerVars, histVars, IsFirst
  <2>2. NoOversleep'
    BY <1>7 DEF GetNextTimer, TickledInv, NoOversleep, TypeOK, timerVars, idlerVars, histVars, IsFirst
  <2>. QED
    BY <2>1, <2>2 DEF SleepInv
<1>8. ASSUME NEW i \in Idlers, EpollWait(i) \/ ReadClock(i) \/ LookForTimers(i)
      PROVE  SleepInv'
  <2>1. phase'[i] # "asleep"
    BY <1>8 DEF EpollWait, ReadClock, LookForTimers, TypeOK
  <2>. QED
    BY <2>1 DEF SleepInv, TickledInv, NoOversleep
<1>9. ASSUME NEW i \in Idlers, ListEnd(i)
      PROVE  SleepInv'
  <2>1. TickledInv'
    BY <1>9 DEF ListEnd, TickledInv, TypeOK, timerVars, idlerVars, histVars, Expired
  <2>2. NoOversleep'
    BY <1>9 DEF ListEnd, TickledInv, NoOversleep, TypeOK, timerVars, idlerVars, histVars, Expired
  <2>. QED
    BY <2>1, <2>2 DEF SleepInv
<1>10. ASSUME NEW i \in Idlers, ListCrash(i)
      PROVE  SleepInv'
  <2>1. TickledInv'
    BY <1>10 DEF ListCrash, TickledInv, TypeOK, timerVars, idlerVars, histVars
  <2>2. NoOversleep'
    BY <1>10 DEF ListCrash, TickledInv, NoOversleep, TypeOK, timerVars, idlerVars, histVars
  <2>. QED
    BY <2>1, <2>2 DEF SleepInv
<1>11. ASSUME NEW i \in Idlers, DrainPipe(i)
      PROVE  SleepInv'
  <2>1. TickledInv'
    BY <1>11 DEF DrainPipe, TickledInv, TypeOK, timerVars, idlerVars, histVars
  <2>2. NoOversleep'
    BY <1>11 DEF DrainPipe, TickledInv, NoOversleep, TypeOK, timerVars, idlerVars, histVars
  <2>. QED
    BY <2>1, <2>2 DEF SleepInv
<1>12. CASE Tick
  <2>1. TickledInv'
    BY <1>12 DEF Tick, TickledInv, TypeOK, timerVars, idlerVars, histVars
  <2>2. NoOversleep'
    BY <1>12 DEF Tick, TickledInv, NoOversleep, TypeOK, timerVars, idlerVars, histVars
  <2>. QED
    BY <2>1, <2>2 DEF SleepInv
<1>13. CASE UNCHANGED vars
  <2>1. TickledInv'
    BY <1>13 DEF vars, TickledInv, TypeOK, timerVars, idlerVars, histVars
  <2>2. NoOversleep'
    BY <1>13 DEF vars, TickledInv, NoOversleep, TypeOK, timerVars, idlerVars, histVars
  <2>. QED
    BY <2>1, <2>2 DEF SleepInv
<1>14. CASE StopAsks
  <2>1. TickledInv'
    BY <1>14 DEF StopAsks, TickledInv
  <2>2. NoOversleep'
    BY <1>14 DEF StopAsks, NoOversleep, timerVars, idlerVars
  <2>. QED
    BY <2>1, <2>2 DEF SleepInv
<1>. QED
  BY <1>1, <1>2, <1>3, <1>4, <1>5, <1>6, <1>7, <1>8, <1>9, <1>10, <1>11, <1>12, <1>13,
     <1>14
  DEF Next, User, Adding, Idle

-----------------------------------------------------------------------------
(* The timer variables keep their types, and no deadline is closer to the   *)
(* epoch than its period: m_next - m_ms in Timer::reset never wraps.        *)
THEOREM TimerTypeCorrect == Spec => []TypeOK
<1>1. SafeInv => TypeOK
  BY DEF SafeInv
<1>. QED
  BY TimerInit, SafeNext, <1>1, PTL DEF Spec

(* m_cb and membership of m_timers agree whenever no lock is held. *)
THEOREM CallbackAgrees == Spec => []SetIffCallback
<1>1. SafeInv => SetIffCallback
  BY DEF SafeInv
<1>. QED
  BY TimerInit, SafeNext, <1>1, PTL DEF Spec

(* A one-shot timer is cancelled or handed out, never both and never twice. *)
THEOREM CancelOrHanded == Spec => []OneOutcome
<1>1. SafeInv => OneOutcome
  BY DEF SafeInv, OutcomeInv
<1>. QED
  BY TimerInit, SafeNext, <1>1, PTL DEF Spec

(* With any number of idle threads the m_tickled flag never holds back an   *)
(* announcement that is needed: no timer is overslept by every thread.      *)
THEOREM NobodyOversleeps == Spec => []NoOversleep
<1>1. SafeInv => TypeOK
  BY DEF SafeInv
<1>2. SleepInv => NoOversleep
  BY DEF SleepInv
<1>. QED
  BY TimerInit, SafeNext, SleepNext, <1>1, <1>2, PTL DEF Spec

-----------------------------------------------------------------------------
(* Deadlines and the detection of a clock that jumped.                      *)

(* What NotEarly says of a step. *)
HandedInTime ==
  \A tm \in Timers :
    handed'[tm] # handed[tm] =>
      m_next[tm] <= now \/ now > m_previouseTime + Gap

LEMMA HandsOut == TypeOK /\ [Next]_vars => [HandedInTime]_vars
<1>. SUFFICES ASSUME TypeOK, Next PROVE HandedInTime
  OBVIOUS
<1>1. ASSUME NEW i \in Idlers, ListEnd(i) PROVE HandedInTime
  <2>. SUFFICES ASSUME NEW tm \in Timers, handed'[tm] # handed[tm]
                PROVE  m_next[tm] <= now \/ now > m_previouseTime + Gap
    BY DEF HandedInTime
  <2>1. tm \in Expired(now_ms[i])
    BY <1>1 DEF ListEnd
  <2>2. m_next[tm] <= now_ms[i] \/ now_ms[i] > m_previouseTime + Gap
    BY <2>1 DEF Expired, Rollover
  <2>3. /\ now_ms[i] <= now /\ now_ms[i] \in Nat /\ now \in Nat /\ m_next[tm] \in Nat
        /\ m_previouseTime \in Nat /\ Gap \in Nat
    BY TimerAssumption DEF TypeOK
  <2>. QED
    BY <2>2, <2>3
<1>2. ASSUME UNCHANGED handed PROVE HandedInTime
  BY <1>2 DEF HandedInTime
<1>3. (\E i \in Idlers : ListEnd(i)) \/ UNCHANGED handed
  BY DEF Next, User, Adding, Idle, Construct, AddTimer, OnTimerInsertedAtFront, Cancel, Refresh,
         Reset, StopAsks, GetNextTimer, EpollWait, ReadClock, LookForTimers, ListCrash, DrainPipe,
         Tick, histVars
<1>. QED
  BY <1>1, <1>2, <1>3

(* Whatever threads and timers there are, a callback is handed out before   *)
(* its deadline only when more than Gap has passed since detectClockRollover*)
(* was last asked.                                                          *)
THEOREM EarlyOnlyAfterGap == Spec => NotEarly
<1>. QED
  BY TimerTypeCorrect, HandsOut, PTL DEF Spec, NotEarly, HandedInTime

=============================================================================
