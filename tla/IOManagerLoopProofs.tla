------------------------ MODULE IOManagerLoopProofs ------------------------
(***************************************************************************)
(* What stop() of an IOManager leaves behind, who watches the timers, and  *)
(* that it implements TaskPool, for any number of workers, callbacks and   *)
(* timers.                                                                 *)
(***************************************************************************)
EXTENDS IOManagerLoop, FiniteSetTheorems, WellFoundedInduction, TLAPS

InIdle == {"idle", "asked", "quiet", "leave", "wait", "expire", "listing",
            "submit", "handle"}
Pcs    == InIdle \cup {"off", "scan", "exec", "enter", "break", "exited"}
Places == {"new", "queued", "event", "timer", "taken", "running", "done"}
Calls  == {"started", "flagged", "root", "asked", "quiet"}

LoopTypeOK ==
  /\ m_fibers \in Seq(Entry) /\ m_stopping \in BOOLEAN
  /\ m_tickled \in BOOLEAN /\ pipe \in BOOLEAN
  /\ pc \in [Threads -> Pcs] /\ idleTerm \in [Threads -> BOOLEAN]
  /\ ft \in [Threads -> Tasks \cup {None}] /\ cbs \in [Threads -> Seq(Tasks)]
  /\ tickling \in [Actors -> BOOLEAN] /\ owes \in [Actors -> BOOLEAN]
  /\ place \in [Tasks -> Places] /\ rem \in [Tasks -> Nat]
  /\ next_timeout = [t \in Threads |-> next_timeout[t]]
  /\ mainPc \in Calls \cup {"called", "joining", "stopped"}

(* Where the threads may be, seen from the owner and from the idle fiber *)
ControlInv ==
  /\ m_stopping <=> mainPc # "started"
  /\ mainPc \in Calls => pc[Caller] = "off"
  /\ mainPc \in {"joining", "stopped"} => pc[Caller] \in {"off", "exited"}
  /\ mainPc = "stopped" => \A t \in Workers : pc[t] = "exited"
  /\ ~m_stopping => late = {}
  /\ \A t \in Threads :
       /\ pc[t] = "off" => t = Caller
       /\ pc[t] = "exec" => ft[t] \in Tasks
       /\ owes[t] => pc[t] = "handle"
       /\ idleTerm[t] => m_stopping /\ pc[t] \in {"leave", "scan", "exec", "break", "exited"}
       /\ pc[t] \in {"leave", "break", "exited"} => idleTerm[t]

(* A callback in the queue or in hand does not wait for anything any more. *)
Begun == {"taken", "queued", "running", "done"}
BegunInv ==
  /\ \A i \in DOMAIN m_fibers : place[m_fibers[i].task] \in Begun
  /\ \A t \in Threads :
       /\ \A i \in DOMAIN cbs[t] : place[cbs[t][i]] \in Begun
       /\ pc[t] = "exec" => place[ft[t]] \in Begun

(* The counts that tickle() and stopping() read *)
Waiting == {k \in Tasks : place[k] = "event"}
Owing   == {x \in Actors : owes[x]}
Idling  == {t \in Threads : pc[t] \in InIdle}
CountInv ==
  /\ IsFiniteSet({k \in Tasks : place[k] # "new"})
  /\ m_pendingEventCount = Cardinality(Waiting) + Cardinality(Owing)
  /\ m_idleThreadCount = Cardinality(Idling)

(* A callback that left the queue or the timers is in the hands of a thread. *)
HandInv ==
  \A k \in Tasks :
    /\ place[k] = "running" => \E t \in Threads : pc[t] = "exec" /\ ft[t] = k
    /\ place[k] = "taken" => \E t \in Threads : pc[t] = "submit" /\ k \in ToSet(cbs[t])

(* Threads that will look at the queue, at the count of events and at the   *)
(* timers before they leave run()                                           *)
SeesQueue(t)  == pc[t] \notin {"off", "break", "exited"}
SeesEvents(t) == SeesQueue(t) /\ ~idleTerm[t] /\ pc[t] # "quiet"
SeesTimers(t) == SeesEvents(t) /\ pc[t] # "asked"

(* Whatever is left is seen by a thread before it leaves, or by the owner   *)
(* on its way through stop().                                               *)
TimersLeft ==
  (\E k \in m_timers : k \notin late) =>
    mainPc \in {"started", "flagged", "root"} \/ \E t \in Threads : SeesTimers(t)
EventsLeft ==
  (\E k \in Waiting : k \notin late) \/ (late = {} /\ Owing # {}) =>
    mainPc \in Calls \ {"quiet"} \/ \E t \in Threads : SeesEvents(t)
QueueLeft ==
  (\E i \in DOMAIN m_fibers : m_fibers[i].thread = AnyThread /\ m_fibers[i].task \notin late) =>
    mainPc \in Calls \/ \E t \in Threads : SeesQueue(t)
LeftInv == TimersLeft /\ EventsLeft /\ QueueLeft

(* A thread that will ask for the next deadline before it sleeps, and one   *)
(* that is about to sleep or sleeps, and that a byte in the pipe wakes up   *)
Asks(t)  == SeesTimers(t) /\ pc[t] # "wait"
Naps(t)  == pc[t] \in {"asked", "quiet", "wait"}
(* Somebody will ask for the next deadline whatever the sleepers do. *)
Roused ==
  \/ UseCaller /\ mainPc \in {"flagged", "root"}
  \/ pipe
  \/ \E t \in Threads : Asks(t)
  \/ (\E x \in Actors : tickling[x]) /\ \E t \in Threads : Naps(t)
(* Whoever was told of a new front of the timers has still to ask, and      *)
(* behind every timer there is somebody who will ask or a sleep that ends   *)
(* in time.                                                                 *)
ToldInv == mainPc = "started" /\ m_tickled => Roused
SleepsFor(t, k) == pc[t] = "wait" /\ next_timeout[t] \in 0..rem[k]
WatchedInv ==
  \A k \in m_timers : k \notin late => Roused \/ \E t \in Threads : SleepsFor(t, k)

(* (int)n is n, and n is not ~0ull *)
Fits(n) == ToInt(n) = n /\ n # NoTimer
WithinDelay == \A k \in m_timers : \E ms \in Delays : rem[k] <= ms

(* Every callback that was submitted is in one place: one entry of the      *)
(* queue, the hands of one thread that found it expired, or the thread that *)
(* runs it.                                                                 *)
Idle         == {"new", "event", "timer"}
Distinct(q)  == \A i, j \in DOMAIN q : q[i].task = q[j].task => i = j
Listed(q, e) == \E j \in DOMAIN q : q[j] = e
QueueOnce ==
  /\ Distinct(m_fibers)
  /\ \A e \in Entry : Listed(m_fibers, e) => place[e.task] = "queued"
  /\ \A k \in Tasks : place[k] = "queued" => \E e \in Entry : Listed(m_fibers, e) /\ e.task = k
HandOnce ==
  /\ \A t \in Threads :
       /\ \A i \in DOMAIN cbs[t] : place[cbs[t][i]] = "taken"
       /\ \A i, j \in DOMAIN cbs[t] : cbs[t][i] = cbs[t][j] => i = j
       /\ pc[t] = "exec" => place[ft[t]] = "running"
  /\ \A t, u \in Threads : t # u =>
       /\ ToSet(cbs[t]) \cap ToSet(cbs[u]) = {}
       /\ pc[t] = "exec" /\ pc[u] = "exec" => ft[t] # ft[u]
(* Without use_caller the owner never runs run() nor asks stopping().       *)
CallerOut == ~UseCaller => pc[Caller] = "off" /\ mainPc \notin {"asked", "quiet"}
OnceInv == QueueOnce /\ HandOnce /\ CallerOut
(* An entry that no thread will take any more *)
Lost(e) == \A t \in Threads : Runnable(t, e) => Gone(t)

-----------------------------------------------------------------------------
(* Sequences of entries.                                                    *)

LEMMA RemovedAt ==
  ASSUME NEW S, NEW q \in Seq(S), NEW i \in DOMAIN q, NEW r, r = RemoveAt(q, i)
  PROVE  /\ r \in Seq(S) /\ DOMAIN r = 1..(Len(q) - 1)
         /\ \A j \in 1..(Len(q) - 1) : r[j] = IF j < i THEN q[j] ELSE q[j + 1]
<1> DEFINE a == SubSeq(q, 1, i - 1)
           b == SubSeq(q, i + 1, Len(q))
<1>0. Len(q) \in Nat /\ i \in 1..Len(q) /\ DOMAIN q = 1..Len(q)
  OBVIOUS
<1>1. a \in Seq(S) /\ Len(a) = i - 1 /\ \A j \in 1..(i - 1) : a[j] = q[j]
  BY <1>0
<1>2. b \in Seq(S) /\ Len(b) = Len(q) - i /\ \A j \in 1..(Len(q) - i) : b[j] = q[i + j]
  BY <1>0
<1> r = a \o b
  BY DEF RemoveAt
<1> HIDE DEF a, b
<1>3. r \in Seq(S) /\ Len(r) = Len(q) - 1 /\ DOMAIN r = 1..(Len(q) - 1)
  <2>1. r \in Seq(S) /\ Len(r) = Len(a) + Len(b)
    BY <1>1, <1>2
  <2>2. Len(a) + Len(b) = Len(q) - 1
    BY <1>0, <1>1, <1>2
  <2> QED BY <2>1, <2>2
<1>4. ASSUME NEW j \in 1..(Len(q) - 1) PROVE r[j] = IF j < i THEN q[j] ELSE q[j + 1]
  <2>1. CASE j < i
    BY <1>0, <1>1, <1>2, <2>1
  <2>2. CASE ~(j < i)
    <3>1. r[j] = b[j - (i - 1)] /\ j - (i - 1) \in 1..(Len(q) - i)
      BY <1>0, <1>1, <1>2, <2>2, SMTT(30)
    <3>2. i + (j - (i - 1)) = j + 1
      BY <1>0
    <3> QED BY <1>2, <2>2, <3>1, <3>2
  <2> QED BY <2>1, <2>2
<1> QED BY <1>3, <1>4

LEMMA RemoveEntry ==
  ASSUME NEW S, NEW q \in Seq(S), NEW i \in DOMAIN q, NEW r, r = RemoveAt(q, i)
  PROVE  r \in Seq(S) /\ \A j \in DOMAIN r : \E l \in DOMAIN q : r[j] = q[l]
<1>1. /\ r \in Seq(S) /\ DOMAIN r = 1..(Len(q) - 1)
      /\ \A j \in 1..(Len(q) - 1) : r[j] = IF j < i THEN q[j] ELSE q[j + 1]
  BY RemovedAt
<1> DEFINE n == Len(q) - 1
<1>2. DOMAIN r = 1..n /\ \A j \in 1..n : r[j] = q[j] \/ r[j] = q[j + 1]
  BY <1>1
<1>3. \A j \in 1..n : j \in DOMAIN q /\ j + 1 \in DOMAIN q
  OBVIOUS
<1> HIDE DEF n
<1> QED BY <1>1, <1>2, <1>3

LEMMA AddEntry ==
  ASSUME NEW S, NEW q \in Seq(S), NEW e \in S, NEW r, r = Append(q, e)
  PROVE  r \in Seq(S) /\ \A j \in DOMAIN r : r[j] = e \/ \E l \in DOMAIN q : r[j] = q[l]
  OBVIOUS

LEMMA JoinEntries ==
  ASSUME NEW S, NEW q \in Seq(S), NEW u \in Seq(S), NEW r, r = q \o u
  PROVE  /\ r \in Seq(S)
         /\ \A j \in DOMAIN r : (\E l \in DOMAIN q : r[j] = q[l]) \/ \E l \in DOMAIN u : r[j] = u[l]
<1>1. /\ r \in Seq(S) /\ Len(r) = Len(q) + Len(u) /\ Len(q) \in Nat /\ Len(u) \in Nat
      /\ DOMAIN q = 1..Len(q) /\ DOMAIN u = 1..Len(u) /\ DOMAIN r = 1..Len(r)
  OBVIOUS
<1>2. ASSUME NEW j \in 1..Len(q) PROVE r[j] = q[j]
  BY <1>1
<1>3. ASSUME NEW j \in 1..Len(r), j \notin 1..Len(q) PROVE r[j] = u[j - Len(q)] /\ j - Len(q) \in 1..Len(u)
  BY <1>1, <1>3
<1> QED BY <1>1, <1>2, <1>3

(* What listExpiredCb puts in order it neither loses nor adds to.           *)
LEMMA SeqsHoldTheirSet ==
  ASSUME NEW S, IsFiniteSet(S), NEW s \in SetToSeqs(S)
  PROVE  s \in Seq(S) /\ ToSet(s) = S /\ \A i, j \in DOMAIN s : s[i] = s[j] => i = j
<1>1. Cardinality(S) \in Nat
  BY FS_CardinalityType
<1> DEFINE n == Cardinality(S)
<1>2. s \in [1..n -> S] /\ \A i, j \in 1..n : i # j => s[i] # s[j]
  BY DEF SetToSeqs
<1> HIDE DEF n
<1>3. n \in Nat
  BY <1>1 DEF n
<1>4. s \in Seq(S) /\ DOMAIN s = 1..n
  BY <1>2, <1>3
<1> DEFINE T == {s[i] : i \in 1..n}
<1>5. T \subseteq S /\ ToSet(s) = T
  BY <1>2, <1>4 DEF ToSet
<1>6. s \in Bijection(1..n, T)
  BY <1>2 DEF Bijection, Injection, Surjection, IsInjective
<1>7. ExistsBijection(1..n, T)
  BY <1>6 DEF ExistsBijection
<1> HIDE DEF T
<1>8. IsFiniteSet(T) /\ Cardinality(T) = n
  <2>1. IsFiniteSet(1..n) /\ Cardinality(1..n) = n
    BY <1>3, FS_Interval
  <2> QED BY <1>7, <2>1, FS_Bijection
<1>9. T = S
  BY <1>5, <1>8, FS_Subset DEF n
<1> QED BY <1>2, <1>4, <1>5, <1>9

-----------------------------------------------------------------------------
LEMMA LoopTypeInit == ASSUME Init PROVE LoopTypeOK
<1>1. /\ m_fibers \in Seq(Entry) /\ cbs \in [Threads -> Seq(Tasks)]
      /\ pc \in [Threads -> Pcs] /\ place \in [Tasks -> Places]
  BY DEF Init, Pcs, InIdle, Places
<1> QED BY <1>1 DEF Init, LoopTypeOK, Calls

LEMMA LoopTypeNext == ASSUME LoopTypeOK, CountInv, [Next]_vars PROVE LoopTypeOK'
<1> USE LoopAssumption DEF LoopTypeOK, Pcs, InIdle, Places, Calls
<1>1. ASSUME NEW x \in Actors, Tickle(x) PROVE LoopTypeOK'
  BY <1>1 DEF Tickle, queue, timing, ending, kernel
<1>2. ASSUME NEW x \in Actors, CountDown(x) PROVE LoopTypeOK'
  BY <1>2 DEF CountDown, queue, timing, ending, kernel
<1>3. ASSUME NEW x \in Actors, NEW k \in Tasks, NEW thr \in Pins \cup {AnyThread}, Schedule(x, k, thr) PROVE LoopTypeOK'
  <2>1. [task |-> k, thread |-> thr] \in Entry
    BY DEF Entry, Threads
  <2>2. m_fibers' \in Seq(Entry)
    BY <1>3, <2>1 DEF Schedule, Push
  <2> QED BY <1>3, <2>2 DEF Schedule, Push, NeedTickle, Move, timing, ending, kernel
<1>4. ASSUME NEW x \in Actors, NEW k \in Tasks, AddEvent(x, k) PROVE LoopTypeOK'
  BY <1>4 DEF AddEvent, MayCall, Outside, Running, Move, Note, Leaving, At, Ready, queue, timing, ending, kernel
<1>5. ASSUME NEW x \in Actors, NEW k \in Tasks, NEW ms \in Delays, AddTimer(x, k, ms) PROVE LoopTypeOK'
  BY <1>5 DEF AddTimer, MayCall, Outside, Running, Move, Note, Leaving, At, Ready, queue, timing, ending, kernel
<1>6. ASSUME NEW t \in Threads, Take(t) PROVE LoopTypeOK'
  <2>1. PICK i \in DOMAIN m_fibers :
          /\ m_fibers' = RemoveAt(m_fibers, i)
          /\ ft' = [ft EXCEPT ![t] = m_fibers[i].task]
          /\ Move(m_fibers[i].task, "running")
    BY <1>6 DEF Take
  <2>2. m_fibers[i] \in Entry
    OBVIOUS
  <2>3. m_fibers' \in Seq(Entry)
    BY <2>1, RemoveEntry
  <2>4. m_fibers[i].task \in Tasks
    BY <2>2 DEF Entry
  <2>5. ft' \in [Threads -> Tasks \cup {None}] /\ place' \in [Tasks -> Places]
    BY <2>1, <2>4 DEF Move
  <2>6. tickling' \in [Actors -> BOOLEAN] /\ pc' \in [Threads -> Pcs]
    <3> DEFINE b == Len(m_fibers) > 1
    <3>1. b \in BOOLEAN
      OBVIOUS
    <3>2. tickling' = [tickling EXCEPT ![t] = b] /\ pc' = [pc EXCEPT ![t] = "exec"]
      BY <1>6 DEF Take, Go
    <3> HIDE DEF b
    <3> QED BY <3>1, <3>2
  <2> QED BY <1>6, <2>3, <2>5, <2>6 DEF Take, timing, ending, kernel
<1>7. ASSUME NEW t \in Threads, Finish(t) PROVE LoopTypeOK'
  BY <1>7 DEF Finish, Running, At, Ready, Move, Go, queue, timing, ending, kernel
<1>8. ASSUME NEW t \in Threads, ScanNothing(t) PROVE LoopTypeOK'
  BY <1>8 DEF ScanNothing, At, Ready, Go, Foreign, queue, timing, ending, kernel
<1>9. ASSUME NEW t \in Threads, EnterIdle(t) PROVE LoopTypeOK'
  BY <1>9 DEF EnterIdle, At, Ready, Go, queue, timing, ending, kernel
<1>10. ASSUME NEW t \in Threads, Break(t) PROVE LoopTypeOK'
  BY <1>10 DEF Break, At, Ready, Go, queue, timing, ending, kernel
<1>11. ASSUME NEW t \in Threads, AskTimers(t) PROVE LoopTypeOK'
  BY <1>11 DEF AskTimers, At, Ready, Go, Sleep, queue, timing, ending, kernel
<1>12. ASSUME NEW t \in Threads, AskEvents(t) PROVE LoopTypeOK'
  BY <1>12 DEF AskEvents, At, Ready, Go, Sleep, queue, timing, ending, kernel
<1>13. ASSUME NEW t \in Threads, AskQueue(t) PROVE LoopTypeOK'
  BY <1>13 DEF AskQueue, At, Ready, Go, Sleep, QueueStops, queue, timing, ending, kernel
<1>14. ASSUME NEW t \in Threads, EpollReturns(t) PROVE LoopTypeOK'
  BY <1>14 DEF EpollReturns, At, Ready, Go, queue, timing, ending, kernel
<1>15. ASSUME NEW t \in Threads, ListExpired(t) PROVE LoopTypeOK'
  <2>1. cbs' \in [Threads -> Seq(Tasks)]
    <3>1. PICK s \in SetToSeqs(Expired) : cbs' = [cbs EXCEPT ![t] = s]
      BY <1>15 DEF ListExpired
    <3>2. IsFiniteSet(Expired)
      BY FS_Subset DEF CountInv, Expired, m_timers
    <3>3. s \in Seq(Expired) /\ Expired \subseteq Tasks
      BY <3>1, <3>2, SeqsHoldTheirSet DEF Expired, m_timers
    <3>4. s \in Seq(Tasks)
      BY <3>3
    <3> QED BY <3>1, <3>4
  <2> QED BY <1>15, <2>1 DEF ListExpired, At, Go, queue, timing, ending, kernel
<1>16. ASSUME NEW t \in Threads, Submit(t) PROVE LoopTypeOK'
  <2> DEFINE u == [i \in DOMAIN cbs[t] |-> [task |-> cbs[t][i], thread |-> AnyThread]]
  <2>1. u \in Seq(Entry)
    <3>1. /\ cbs[t] \in Seq(Tasks) /\ DOMAIN cbs[t] = 1..Len(cbs[t]) /\ Len(cbs[t]) \in Nat
          /\ \A i \in DOMAIN cbs[t] : cbs[t][i] \in Tasks
      OBVIOUS
    <3>2. \A k \in Tasks : [task |-> k, thread |-> AnyThread] \in Entry
      BY DEF Entry
    <3> QED BY <3>1, <3>2
  <2> HIDE DEF u
  <2>2. m_fibers' = m_fibers \o u
    BY <1>16 DEF Submit, u
  <2>3. m_fibers' \in Seq(Entry)
    BY <2>1, <2>2, JoinEntries
  <2>4. <<>> \in Seq(Tasks)
    OBVIOUS
  <2> QED BY <1>16, <2>3, <2>4 DEF Submit, NeedTickle, Go, timing, ending, kernel
<1>17. ASSUME NEW t \in Threads, Drain(t) PROVE LoopTypeOK'
  BY <1>17 DEF Drain, At, Ready, queue, timing, ending, kernel
<1>18. ASSUME NEW t \in Threads, NEW k \in Tasks, Handle(t, k) PROVE LoopTypeOK'
  <2>1. [task |-> k, thread |-> AnyThread] \in Entry
    BY DEF Entry
  <2>2. m_fibers' \in Seq(Entry)
    <3>1. m_fibers' = m_fibers \/ m_fibers' = Append(m_fibers, [task |-> k, thread |-> AnyThread])
      BY <1>18 DEF Handle, RealEvent, Trigger, Push
    <3> DEFINE e == [task |-> k, thread |-> AnyThread]
    <3> HIDE DEF e
    <3>2. CASE m_fibers' = m_fibers
      BY <3>2
    <3>3. CASE m_fibers' = Append(m_fibers, e)
      <4>1. e \in Entry
        BY <2>1 DEF e
      <4> QED BY <3>3, <4>1, AddEntry
    <3> QED BY <3>1, <3>2, <3>3 DEF e
  <2> QED BY <1>18, <2>2 DEF Handle, RealEvent, Trigger, Push, NeedTickle, Move, Actors, timing, ending, kernel
<1>19. ASSUME NEW t \in Threads, LeaveIdle(t) PROVE LoopTypeOK'
  BY <1>19 DEF LeaveIdle, At, Ready, Go, queue, timing, ending, kernel
<1>20. ASSUME NEW k \in Tasks, CancelEvent(k) PROVE LoopTypeOK'
  <2>1. [task |-> k, thread |-> AnyThread] \in Entry
    BY DEF Entry
  <2>2. m_fibers' \in Seq(Entry)
    BY <1>20, <2>1 DEF CancelEvent, Cancels, Trigger, Push
  <2> QED BY <1>20, <2>2 DEF CancelEvent, Cancels, Trigger, Push, NeedTickle, Move, Actors, timing, ending, kernel
<1>21. ASSUME NEW k \in Tasks, BecomeReady(k) PROVE LoopTypeOK'
  BY <1>21 DEF BecomeReady, queue, timing, ending, kernel
<1>22. CASE StopBegin
  BY <1>22 DEF StopBegin, queue, timing, ending, kernel
<1>23. CASE StopTickles
  BY <1>23 DEF StopTickles, queue, timing, ending, kernel
<1>24. CASE StopRoot
  BY <1>24 DEF StopRoot, RunRoot, Proceed, Go, queue, timing, ending, kernel
<1>25. CASE Join
  BY <1>25 DEF Join, queue, timing, ending, kernel
<1>26. CASE Time
  BY <1>26 DEF Time, queue, timing, ending, kernel
<1>27. CASE UNCHANGED loop
  BY <1>27 DEF loop, queue, timing, ending, kernel
<1>28. ASSUME NEW t \in Threads, LookForTimers(t) PROVE LoopTypeOK'
  BY <1>28 DEF LookForTimers, At, Ready, Go, queue, timing, ending, kernel
<1> QED BY <1>1, <1>2, <1>3, <1>4, <1>5, <1>6, <1>7, <1>8, <1>9, <1>10, <1>11, <1>12, <1>13, <1>14, <1>15, <1>16, <1>17, <1>18, <1>19, <1>20, <1>21, <1>22, <1>23, <1>24, <1>25, <1>26, <1>27, <1>28 DEF Next, Call, Run, Crash, CancelCrash, Fail, Returns, Stop, Actors, vars

LEMMA ControlInit == ASSUME Init PROVE ControlInv
  BY LoopAssumption DEF Init, ControlInv, Calls, Threads, Actors

LEMMA ControlNext == ASSUME LoopTypeOK, ControlInv, [Next]_vars PROVE ControlInv'
<1> USE LoopAssumption DEF LoopTypeOK, ControlInv, Calls, Pcs, InIdle, Threads, Actors
<1>1. ASSUME NEW x \in Actors, Tickle(x) PROVE ControlInv'
  BY <1>1 DEF Tickle, queue, timing, ending, kernel
<1>2. ASSUME NEW x \in Actors, CountDown(x) PROVE ControlInv'
  BY <1>2 DEF CountDown, queue, timing, ending, kernel
<1>3. ASSUME NEW x \in Actors, NEW k \in Tasks, NEW thr \in Pins \cup {AnyThread}, Schedule(x, k, thr) PROVE ControlInv'
  BY <1>3 DEF Schedule, MayCall, Outside, Running, Push, Move, At, Ready, queue, timing, ending, kernel
<1>4. ASSUME NEW x \in Actors, NEW k \in Tasks, AddEvent(x, k) PROVE ControlInv'
  BY <1>4 DEF AddEvent, MayCall, Outside, Running, Move, Note, Leaving, At, Ready, queue, timing, ending, kernel
<1>5. ASSUME NEW x \in Actors, NEW k \in Tasks, NEW ms \in Delays, AddTimer(x, k, ms) PROVE ControlInv'
  BY <1>5 DEF AddTimer, MayCall, Outside, Running, Move, Note, Leaving, At, Ready, queue, timing, ending, kernel
<1>6. ASSUME NEW t \in Threads, Take(t) PROVE ControlInv'
  <2>1. PICK i \in DOMAIN m_fibers : ft' = [ft EXCEPT ![t] = m_fibers[i].task]
    BY <1>6 DEF Take
  <2>2. m_fibers[i] \in Entry
    OBVIOUS
  <2>3. ft'[t] \in Tasks /\ \A u \in Threads : u # t => ft'[u] = ft[u]
    BY <2>1, <2>2 DEF Entry
  <2> QED BY <1>6, <2>3 DEF Take, At, Ready, Go, timing, ending, kernel
<1>7. ASSUME NEW t \in Threads, Finish(t) PROVE ControlInv'
  BY <1>7 DEF Finish, Running, At, Ready, Move, Go, queue, timing, ending, kernel
<1>8. ASSUME NEW t \in Threads, ScanNothing(t) PROVE ControlInv'
  BY <1>8 DEF ScanNothing, At, Ready, Go, Foreign, queue, timing, ending, kernel
<1>9. ASSUME NEW t \in Threads, EnterIdle(t) PROVE ControlInv'
  BY <1>9 DEF EnterIdle, At, Ready, Go, queue, timing, ending, kernel
<1>10. ASSUME NEW t \in Threads, Break(t) PROVE ControlInv'
  BY <1>10 DEF Break, At, Ready, Go, queue, timing, ending, kernel
<1>11. ASSUME NEW t \in Threads, AskTimers(t) PROVE ControlInv'
  BY <1>11 DEF AskTimers, At, Ready, Go, Sleep, queue, timing, ending, kernel
<1>12. ASSUME NEW t \in Threads, AskEvents(t) PROVE ControlInv'
  BY <1>12 DEF AskEvents, At, Ready, Go, Sleep, queue, timing, ending, kernel
<1>13. ASSUME NEW t \in Threads, AskQueue(t) PROVE ControlInv'
  BY <1>13 DEF AskQueue, At, Ready, Go, Sleep, QueueStops, queue, timing, ending, kernel
<1>14. ASSUME NEW t \in Threads, EpollReturns(t) PROVE ControlInv'
  BY <1>14 DEF EpollReturns, At, Ready, Go, queue, timing, ending, kernel
<1>15. ASSUME NEW t \in Threads, ListExpired(t) PROVE ControlInv'
  BY <1>15 DEF ListExpired, At, Ready, Go, queue, timing, ending, kernel
<1>16. ASSUME NEW t \in Threads, Submit(t) PROVE ControlInv'
  BY <1>16 DEF Submit, At, Ready, Go, queue, timing, ending, kernel
<1>17. ASSUME NEW t \in Threads, Drain(t) PROVE ControlInv'
  BY <1>17 DEF Drain, At, Ready, queue, timing, ending, kernel
<1>18. ASSUME NEW t \in Threads, NEW k \in Tasks, Handle(t, k) PROVE ControlInv'
  BY <1>18, ZenonT(60) DEF Handle, RealEvent, At, Ready, Trigger, Push, Move, queue, timing, ending, kernel
<1>19. ASSUME NEW t \in Threads, LeaveIdle(t) PROVE ControlInv'
  BY <1>19 DEF LeaveIdle, At, Ready, Go, queue, timing, ending, kernel
<1>20. ASSUME NEW k \in Tasks, CancelEvent(k) PROVE ControlInv'
  BY <1>20 DEF CancelEvent, Cancels, Ready, Trigger, Push, Move, queue, timing, ending, kernel
<1>21. ASSUME NEW k \in Tasks, BecomeReady(k) PROVE ControlInv'
  BY <1>21 DEF BecomeReady, queue, timing, ending, kernel
<1>22. CASE StopBegin
  BY <1>22 DEF StopBegin, queue, timing, ending, kernel
<1>23. CASE StopTickles
  BY <1>23 DEF StopTickles, queue, timing, ending, kernel
<1>24. CASE StopRoot
  BY <1>24 DEF StopRoot, RunRoot, Proceed, Go, queue, timing, ending, kernel
<1>25. CASE Join
  BY <1>25 DEF Join, queue, timing, ending, kernel
<1>26. CASE Time
  BY <1>26 DEF Time, queue, timing, ending, kernel
<1>27. CASE UNCHANGED loop
  BY <1>27 DEF loop, queue, timing, ending, kernel
<1>28. ASSUME NEW t \in Threads, LookForTimers(t) PROVE ControlInv'
  BY <1>28 DEF LookForTimers, At, Ready, Go, queue, timing, ending, kernel
<1> QED BY <1>1, <1>2, <1>3, <1>4, <1>5, <1>6, <1>7, <1>8, <1>9, <1>10, <1>11, <1>12, <1>13, <1>14, <1>15, <1>16, <1>17, <1>18, <1>19, <1>20, <1>21, <1>22, <1>23, <1>24, <1>25, <1>26, <1>27, <1>28 DEF Next, Call, Run, Crash, CancelCrash, Fail, Returns, Stop, Actors, vars

LEMMA BegunInit == ASSUME Init PROVE BegunInv
  BY DEF Init, BegunInv

LEMMA TasksInHand ==
  ASSUME LoopTypeOK, ControlInv
  PROVE  /\ \A i \in DOMAIN m_fibers : m_fibers[i].task \in Tasks
         /\ \A t \in Threads :
              (\A i \in DOMAIN cbs[t] : cbs[t][i] \in Tasks) /\ (pc[t] = "exec" => ft[t] \in Tasks)
<1>1. \A i \in DOMAIN m_fibers : m_fibers[i] \in Entry
  BY DEF LoopTypeOK
<1>2. \A t \in Threads : cbs[t] \in Seq(Tasks)
  BY DEF LoopTypeOK
<1> QED BY <1>1, <1>2 DEF Entry, ControlInv

LEMMA BegunKept ==
  ASSUME LoopTypeOK, ControlInv, BegunInv,
         \A j \in Tasks : place[j] \in Begun => place'[j] \in Begun,
         \A i \in DOMAIN m_fibers' :
           \/ \E l \in DOMAIN m_fibers : m_fibers'[i] = m_fibers[l]
           \/ place'[m_fibers'[i].task] \in Begun,
         \A t \in Threads :
           cbs'[t] = cbs[t] \/ \A i \in DOMAIN cbs'[t] : place'[cbs'[t][i]] \in Begun,
         \A t \in Threads : pc'[t] = "exec" =>
           (pc[t] = "exec" /\ ft'[t] = ft[t]) \/ place'[ft'[t]] \in Begun
  PROVE  BegunInv'
  BY TasksInHand DEF BegunInv

(* What Submit appends are the callbacks that the thread had taken.         *)
LEMMA SubmitEntries ==
  ASSUME LoopTypeOK, NEW t \in Threads, Submit(t)
  PROVE  \A i \in DOMAIN m_fibers' :
           \/ \E l \in DOMAIN m_fibers : m_fibers'[i] = m_fibers[l]
           \/ m_fibers'[i].task \in ToSet(cbs[t])
<1> DEFINE u == [i \in DOMAIN cbs[t] |-> [task |-> cbs[t][i], thread |-> AnyThread]]
<1>1. u \in Seq(Entry) /\ \A i \in DOMAIN u : u[i].task \in ToSet(cbs[t])
  <2>1. /\ cbs[t] \in Seq(Tasks) /\ DOMAIN cbs[t] = 1..Len(cbs[t]) /\ Len(cbs[t]) \in Nat
        /\ \A i \in DOMAIN cbs[t] : cbs[t][i] \in Tasks
    BY DEF LoopTypeOK
  <2>2. \A k \in Tasks : [task |-> k, thread |-> AnyThread] \in Entry
    BY DEF Entry
  <2>3. u \in Seq(Entry)
    BY <2>1, <2>2
  <2> QED BY <2>3 DEF ToSet
<1> HIDE DEF u
<1>2. m_fibers' = m_fibers \o u /\ m_fibers \in Seq(Entry)
  BY DEF Submit, u, LoopTypeOK
<1> QED BY <1>1, <1>2, JoinEntries

(* A thread that has listed the expired timers has all of them in hand.     *)
LEMMA ListExpiredTakes ==
  ASSUME LoopTypeOK, CountInv, NEW t \in Threads, ListExpired(t)
  PROVE  /\ ToSet(cbs'[t]) = Expired
         /\ \A u \in Threads : u # t => cbs'[u] = cbs[u]
         /\ \A j \in Tasks : place'[j] = IF j \in Expired THEN "taken" ELSE place[j]
<1>1. PICK s \in SetToSeqs(Expired) : cbs' = [cbs EXCEPT ![t] = s]
  BY DEF ListExpired
<1>2. IsFiniteSet(Expired)
  BY FS_Subset DEF CountInv, Expired, m_timers
<1>3. ToSet(s) = Expired
  BY <1>2, SeqsHoldTheirSet
<1> QED BY <1>1, <1>3 DEF ListExpired, LoopTypeOK

(* An entry that Push adds is for the callback k.                           *)
LEMMA PushEntries ==
  ASSUME LoopTypeOK, NEW x, NEW k \in Tasks, NEW thr \in Threads \cup {AnyThread}, Push(x, k, thr)
  PROVE  \A i \in DOMAIN m_fibers' :
           \/ \E l \in DOMAIN m_fibers : m_fibers'[i] = m_fibers[l]
           \/ m_fibers'[i].task = k /\ m_fibers'[i].thread = thr
<1> DEFINE e == [task |-> k, thread |-> thr]
<1>1. e \in Entry /\ m_fibers \in Seq(Entry) /\ m_fibers' = Append(m_fibers, e)
  BY DEF Entry, LoopTypeOK, Push
<1> HIDE DEF e
<1>2. \A i \in DOMAIN m_fibers' : m_fibers'[i] = e \/ \E l \in DOMAIN m_fibers : m_fibers'[i] = m_fibers[l]
  BY <1>1, AddEntry
<1> QED BY <1>2 DEF e

LEMMA TakeEntries ==
  ASSUME LoopTypeOK, NEW t \in Threads, Take(t)
  PROVE  \E i \in DOMAIN m_fibers :
           /\ m_fibers[i].task \in Tasks
           /\ ft' = [ft EXCEPT ![t] = m_fibers[i].task]
           /\ place' = [place EXCEPT ![m_fibers[i].task] = "running"]
           /\ \A j \in DOMAIN m_fibers' : \E l \in DOMAIN m_fibers : m_fibers'[j] = m_fibers[l]
<1>1. PICK i \in DOMAIN m_fibers :
        /\ m_fibers' = RemoveAt(m_fibers, i)
        /\ ft' = [ft EXCEPT ![t] = m_fibers[i].task]
        /\ Move(m_fibers[i].task, "running")
  BY DEF Take
<1>2. m_fibers \in Seq(Entry) /\ m_fibers[i] \in Entry
  BY DEF LoopTypeOK
<1>3. \A j \in DOMAIN m_fibers' : \E l \in DOMAIN m_fibers : m_fibers'[j] = m_fibers[l]
  BY <1>1, <1>2, RemoveEntry
<1>4. m_fibers[i].task \in Tasks
  BY <1>2 DEF Entry
<1> QED BY <1>1, <1>3, <1>4 DEF Move

(* A callback that has begun does not begin again.                          *)
LEMMA BegunNext == ASSUME LoopTypeOK, ControlInv, CountInv, BegunInv, [Next]_vars PROVE BegunInv'
<1>1. ASSUME NEW x \in Actors, Tickle(x) PROVE BegunInv'
  BY <1>1, BegunKept DEF LoopTypeOK, Tickle, queue, timing, ending, kernel
<1>2. ASSUME NEW x \in Actors, CountDown(x) PROVE BegunInv'
  BY <1>2, BegunKept DEF LoopTypeOK, CountDown, queue, timing, ending, kernel
<1>3. ASSUME NEW x \in Actors, NEW k \in Tasks, NEW thr \in Pins \cup {AnyThread}, Schedule(x, k, thr) PROVE BegunInv'
  <2>1. Push(x, k, thr) /\ Move(k, "queued") /\ UNCHANGED <<cbs, pc, ft>>
    BY <1>3 DEF Schedule
  <2>2. \A j \in Tasks : place'[j] = IF j = k THEN "queued" ELSE place[j]
    BY <2>1 DEF Move, LoopTypeOK
  <2>3. place'[k] \in Begun /\ \A j \in Tasks : place[j] \in Begun => place'[j] \in Begun
    BY <2>2 DEF Begun
  <2>4. \A j \in DOMAIN m_fibers' :
          \/ \E l \in DOMAIN m_fibers : m_fibers'[j] = m_fibers[l]
          \/ m_fibers'[j].task = k
    BY <2>1, PushEntries, LoopAssumption DEF Threads
  <2> QED BY <2>1, <2>3, <2>4, BegunKept
<1>4. ASSUME NEW x \in Actors, NEW k \in Tasks, AddEvent(x, k) PROVE BegunInv'
  <2>1. \A j \in Tasks : place[j] \in Begun => place'[j] = place[j]
    BY <1>4 DEF AddEvent, Move, Begun, LoopTypeOK
  <2>2. UNCHANGED <<m_fibers, cbs, pc, ft>>
    BY <1>4 DEF AddEvent, queue
  <2> QED BY <2>1, <2>2, BegunKept
<1>5. ASSUME NEW x \in Actors, NEW k \in Tasks, NEW ms \in Delays, AddTimer(x, k, ms) PROVE BegunInv'
  <2>1. \A j \in Tasks : place[j] \in Begun => place'[j] = place[j]
    BY <1>5 DEF AddTimer, Move, Begun, LoopTypeOK
  <2>2. UNCHANGED <<m_fibers, cbs, pc, ft>>
    BY <1>5 DEF AddTimer, queue
  <2> QED BY <2>1, <2>2, BegunKept
<1>6. ASSUME NEW t \in Threads, Take(t) PROVE BegunInv'
  <2>1. PICK i \in DOMAIN m_fibers :
           /\ m_fibers[i].task \in Tasks
           /\ ft' = [ft EXCEPT ![t] = m_fibers[i].task]
           /\ place' = [place EXCEPT ![m_fibers[i].task] = "running"]
           /\ \A j \in DOMAIN m_fibers' : \E l \in DOMAIN m_fibers : m_fibers'[j] = m_fibers[l]
    BY <1>6, TakeEntries
  <2>2. place'[ft'[t]] \in Begun /\ \A j \in Tasks : place[j] \in Begun => place'[j] \in Begun
    BY <2>1 DEF Begun, LoopTypeOK
  <2>3. UNCHANGED cbs /\ \A u \in Threads : u # t => pc'[u] = pc[u] /\ ft'[u] = ft[u]
    BY <1>6, <2>1 DEF Take, Go, LoopTypeOK
  <2> QED BY <2>1, <2>2, <2>3, BegunKept
<1>7. ASSUME NEW t \in Threads, Finish(t) PROVE BegunInv'
  <2>1. \A j \in Tasks : place[j] \in Begun => place'[j] \in Begun
    BY <1>7 DEF Finish, Move, Begun, LoopTypeOK
  <2>2. /\ UNCHANGED <<m_fibers, cbs>> /\ pc'[t] = "scan"
        /\ \A u \in Threads : u # t => pc'[u] = pc[u] /\ ft'[u] = ft[u]
    BY <1>7 DEF Finish, Go, LoopTypeOK
  <2> QED BY <2>1, <2>2, BegunKept
<1>8. ASSUME NEW t \in Threads, ScanNothing(t) PROVE BegunInv'
  BY <1>8, BegunKept DEF LoopTypeOK, ScanNothing, At, Ready, Go, Foreign, queue, timing, ending, kernel
<1>9. ASSUME NEW t \in Threads, EnterIdle(t) PROVE BegunInv'
  BY <1>9, BegunKept DEF LoopTypeOK, EnterIdle, At, Ready, Go, queue, timing, ending, kernel
<1>10. ASSUME NEW t \in Threads, Break(t) PROVE BegunInv'
  BY <1>10, BegunKept DEF LoopTypeOK, Break, At, Ready, Go, queue, timing, ending, kernel
<1>11. ASSUME NEW t \in Threads, AskTimers(t) PROVE BegunInv'
  BY <1>11, BegunKept DEF LoopTypeOK, AskTimers, At, Ready, Go, Sleep, queue, timing, ending, kernel
<1>12. ASSUME NEW t \in Threads, AskEvents(t) PROVE BegunInv'
  BY <1>12, BegunKept DEF LoopTypeOK, AskEvents, At, Ready, Go, Sleep, queue, timing, ending, kernel
<1>13. ASSUME NEW t \in Threads, AskQueue(t) PROVE BegunInv'
  BY <1>13, BegunKept DEF LoopTypeOK, AskQueue, At, Ready, Go, Sleep, QueueStops, queue, timing, ending, kernel
<1>14. ASSUME NEW t \in Threads, EpollReturns(t) PROVE BegunInv'
  BY <1>14, BegunKept DEF LoopTypeOK, EpollReturns, At, Ready, Go, queue, timing, ending, kernel
<1>15. ASSUME NEW t \in Threads, ListExpired(t) PROVE BegunInv'
  <2>1. /\ ToSet(cbs'[t]) = Expired /\ \A u \in Threads : u # t => cbs'[u] = cbs[u]
        /\ \A j \in Tasks : place'[j] = IF j \in Expired THEN "taken" ELSE place[j]
    BY <1>15, ListExpiredTakes
  <2>2. /\ \A j \in Tasks : place[j] \in Begun => place'[j] \in Begun
        /\ \A j \in Expired : place'[j] \in Begun
    BY <2>1 DEF Begun, Expired, m_timers
  <2>3. UNCHANGED <<m_fibers, ft>> /\ pc'[t] = "submit" /\ \A u \in Threads : u # t => pc'[u] = pc[u]
    BY <1>15 DEF ListExpired, Go, queue, LoopTypeOK
  <2>4. \A i \in DOMAIN cbs'[t] : cbs'[t][i] \in Expired
    BY <2>1 DEF ToSet
  <2> QED BY <2>1, <2>2, <2>3, <2>4, BegunKept
<1>16. ASSUME NEW t \in Threads, Submit(t) PROVE BegunInv'
  <2>1. \A i \in DOMAIN m_fibers' :
          \/ \E l \in DOMAIN m_fibers : m_fibers'[i] = m_fibers[l]
          \/ m_fibers'[i].task \in ToSet(cbs[t])
    BY <1>16, SubmitEntries
  <2>2. /\ UNCHANGED ft /\ pc'[t] = "handle" /\ cbs'[t] = <<>>
        /\ \A u \in Threads : u # t => pc'[u] = pc[u] /\ cbs'[u] = cbs[u]
    BY <1>16 DEF Submit, Go, LoopTypeOK
  <2>3. ToSet(cbs[t]) \subseteq Tasks
    BY TasksInHand DEF ToSet
  <2>4. \A j \in Tasks : place'[j] = IF j \in ToSet(cbs[t]) THEN "queued" ELSE place[j]
    BY <1>16 DEF Submit
  <2>5. /\ \A j \in Tasks : place[j] \in Begun => place'[j] \in Begun
        /\ \A j \in ToSet(cbs[t]) : place'[j] \in Begun
    BY <2>3, <2>4 DEF Begun
  <2>6. DOMAIN <<>> = {}
    OBVIOUS
  <2> QED BY <2>1, <2>2, <2>5, <2>6, BegunKept
<1>17. ASSUME NEW t \in Threads, Drain(t) PROVE BegunInv'
  BY <1>17, BegunKept DEF LoopTypeOK, Drain, At, Ready, queue, timing, ending, kernel
<1>18. ASSUME NEW t \in Threads, NEW k \in Tasks, Handle(t, k) PROVE BegunInv'
  <2>0. CASE place[k] # "event"
    BY <1>18, <2>0, BegunKept DEF Handle, RealEvent
  <2> SUFFICES ASSUME place[k] = "event" PROVE BegunInv'
    BY <2>0
  <2>1. Push(t, k, AnyThread) /\ Move(k, "queued") /\ UNCHANGED <<cbs, pc, ft>>
    BY <1>18 DEF Handle, RealEvent, Trigger
  <2>2. \A j \in Tasks : place'[j] = IF j = k THEN "queued" ELSE place[j]
    BY <2>1 DEF Move, LoopTypeOK
  <2>3. place'[k] \in Begun /\ \A j \in Tasks : place[j] \in Begun => place'[j] \in Begun
    BY <2>2 DEF Begun
  <2>4. \A j \in DOMAIN m_fibers' :
          \/ \E l \in DOMAIN m_fibers : m_fibers'[j] = m_fibers[l]
          \/ m_fibers'[j].task = k
    BY <2>1, PushEntries, LoopAssumption DEF Threads
  <2> QED BY <2>1, <2>3, <2>4, BegunKept
<1>19. ASSUME NEW t \in Threads, LeaveIdle(t) PROVE BegunInv'
  BY <1>19, BegunKept DEF LoopTypeOK, LeaveIdle, At, Ready, Go, queue, timing, ending, kernel
<1>20. ASSUME NEW k \in Tasks, CancelEvent(k) PROVE BegunInv'
  <2>1. Push(Client, k, AnyThread) /\ Move(k, "queued") /\ UNCHANGED <<cbs, pc, ft>>
    BY <1>20 DEF CancelEvent, Cancels, Trigger
  <2>2. \A j \in Tasks : place'[j] = IF j = k THEN "queued" ELSE place[j]
    BY <2>1 DEF Move, LoopTypeOK
  <2>3. place'[k] \in Begun /\ \A j \in Tasks : place[j] \in Begun => place'[j] \in Begun
    BY <2>2 DEF Begun
  <2>4. \A j \in DOMAIN m_fibers' :
          \/ \E l \in DOMAIN m_fibers : m_fibers'[j] = m_fibers[l]
          \/ m_fibers'[j].task = k
    BY <2>1, PushEntries, LoopAssumption DEF Threads
  <2> QED BY <2>1, <2>3, <2>4, BegunKept
<1>21. ASSUME NEW k \in Tasks, BecomeReady(k) PROVE BegunInv'
  BY <1>21, BegunKept DEF LoopTypeOK, BecomeReady, queue, timing, ending, kernel
<1>22. CASE StopBegin
  BY <1>22, BegunKept DEF LoopTypeOK, StopBegin, queue, timing, ending, kernel
<1>23. CASE StopTickles
  BY <1>23, BegunKept DEF LoopTypeOK, StopTickles, queue, timing, ending, kernel
<1>24. CASE StopRoot
  BY <1>24, BegunKept DEF LoopTypeOK, StopRoot, RunRoot, Proceed, Go, queue, timing, ending, kernel
<1>25. CASE Join
  BY <1>25, BegunKept DEF LoopTypeOK, Join, queue, timing, ending, kernel
<1>26. CASE Time
  BY <1>26, BegunKept DEF LoopTypeOK, Time, queue, timing, ending, kernel
<1>27. CASE UNCHANGED loop
  BY <1>27, BegunKept DEF LoopTypeOK, loop, queue, timing, ending, kernel
<1>28. ASSUME NEW t \in Threads, LookForTimers(t) PROVE BegunInv'
  BY <1>28, BegunKept DEF LoopTypeOK, LookForTimers, At, Ready, Go, queue, timing, ending, kernel
<1> QED BY <1>1, <1>2, <1>3, <1>4, <1>5, <1>6, <1>7, <1>8, <1>9, <1>10, <1>11, <1>12, <1>13, <1>14, <1>15, <1>16, <1>17, <1>18, <1>19, <1>20, <1>21, <1>22, <1>23, <1>24, <1>25, <1>26, <1>27, <1>28 DEF Next, Call, Run, Crash, CancelCrash, Fail, Returns, Stop, Actors, vars

-----------------------------------------------------------------------------
(* The counts.                                                              *)

LEMMA OneMore ==
  ASSUME NEW S, IsFiniteSet(S), NEW e, e \notin S, NEW T, T = S \cup {e}
  PROVE  Cardinality(T) = Cardinality(S) + 1
  BY FS_AddElement

LEMMA OneLess ==
  ASSUME NEW S, IsFiniteSet(S), NEW e \in S, NEW T, T = S \ {e}
  PROVE  Cardinality(T) = Cardinality(S) - 1
  BY FS_RemoveElement

LEMMA CountsFinite ==
  ASSUME CountInv
  PROVE  /\ IsFiniteSet(Waiting) /\ Cardinality(Waiting) \in Nat
         /\ IsFiniteSet(Owing) /\ Cardinality(Owing) \in Nat
         /\ IsFiniteSet(Idling) /\ Cardinality(Idling) \in Nat
<1>1. IsFiniteSet(Waiting)
  BY FS_Subset DEF CountInv, Waiting
<1>2. IsFiniteSet(Threads) /\ IsFiniteSet(Actors)
  BY LoopAssumption, FS_AddElement DEF Threads, Actors
<1>3. IsFiniteSet(Owing) /\ IsFiniteSet(Idling)
  BY <1>2, FS_Subset DEF Owing, Idling
<1> QED BY <1>1, <1>3, FS_CardinalityType

LEMMA UsedFinite ==
  ASSUME CountInv, NEW k, \A j \in Tasks : place'[j] # "new" => place[j] # "new" \/ j = k
  PROVE  IsFiniteSet({j \in Tasks : place'[j] # "new"})
<1>1. IsFiniteSet({j \in Tasks : place[j] # "new"} \cup {k})
  BY FS_AddElement DEF CountInv
<1>2. {j \in Tasks : place'[j] # "new"} \subseteq {j \in Tasks : place[j] # "new"} \cup {k}
  OBVIOUS
<1> QED BY <1>1, <1>2, FS_Subset

LEMMA CountKept ==
  ASSUME CountInv, UNCHANGED <<m_pendingEventCount, m_idleThreadCount>>,
         NEW k, \A j \in Tasks : place'[j] # "new" => place[j] # "new" \/ j = k,
         \A j \in Tasks : place'[j] = "event" <=> place[j] = "event",
         \A x \in Actors : owes'[x] <=> owes[x],
         \A t \in Threads : pc'[t] \in InIdle <=> pc[t] \in InIdle
  PROVE  CountInv'
<1>1. IsFiniteSet({j \in Tasks : place'[j] # "new"})
  BY UsedFinite
<1>2. Waiting' = Waiting /\ Owing' = Owing /\ Idling' = Idling
  BY DEF Waiting, Owing, Idling
<1> QED BY <1>1, <1>2 DEF CountInv

LEMMA CountInit == ASSUME Init PROVE CountInv
<1>1. {j \in Tasks : place[j] # "new"} = {} /\ Waiting = {} /\ Owing = {} /\ Idling = {}
  BY DEF Init, Waiting, Owing, Idling, InIdle, Actors, Threads
<1>2. IsFiniteSet({}) /\ Cardinality({}) = 0
  BY FS_EmptySet
<1>3. m_pendingEventCount = 0 /\ m_idleThreadCount = 0
  BY DEF Init
<1> QED BY <1>1, <1>2, <1>3 DEF CountInv

(* triggerEvent turns an event that waits into one that is owed.            *)
LEMMA TriggerCounts ==
  ASSUME LoopTypeOK, CountInv, NEW x \in Actors, NEW k \in Tasks, place[k] = "event", ~owes[x],
         place' = [place EXCEPT ![k] = "queued"], owes' = [owes EXCEPT ![x] = TRUE],
         UNCHANGED <<pc, m_pendingEventCount, m_idleThreadCount>>
  PROVE  CountInv'
<1>1. \A j \in Tasks : place'[j] = IF j = k THEN "queued" ELSE place[j]
  BY DEF LoopTypeOK
<1>2. IsFiniteSet({j \in Tasks : place'[j] # "new"})
  BY <1>1, UsedFinite
<1>3. k \in Waiting /\ Waiting' = Waiting \ {k} /\ Idling' = Idling
  BY <1>1 DEF Waiting, Idling
<1>4. x \notin Owing /\ Owing' = Owing \cup {x}
  BY DEF Owing, LoopTypeOK
<1>5. Cardinality(Waiting') = Cardinality(Waiting) - 1
  BY <1>3, CountsFinite, OneLess
<1>6. Cardinality(Owing') = Cardinality(Owing) + 1
  BY <1>4, CountsFinite, OneMore
<1>7. Cardinality(Waiting) \in Nat /\ Cardinality(Owing) \in Nat
  BY CountsFinite
<1>8. Cardinality(Waiting') + Cardinality(Owing') = Cardinality(Waiting) + Cardinality(Owing)
  BY <1>5, <1>6, <1>7
<1> QED BY <1>2, <1>3, <1>8 DEF CountInv

LEMMA CountNext ==
  ASSUME LoopTypeOK, ControlInv, BegunInv, CountInv, [Next]_vars PROVE CountInv'
<1> USE DEF LoopTypeOK
<1>1. ASSUME NEW x \in Actors, Tickle(x) PROVE CountInv'
  BY <1>1, CountKept DEF Tickle, queue, timing, ending, kernel
<1>2. ASSUME NEW x \in Actors, CountDown(x) PROVE CountInv'
  <2>1. owes[x] /\ owes' = [owes EXCEPT ![x] = FALSE] /\ m_pendingEventCount' = m_pendingEventCount - 1
    BY <1>2 DEF CountDown
  <2>2. UNCHANGED <<place, pc, m_idleThreadCount>>
    BY <1>2 DEF CountDown
  <2>3. x \in Owing /\ Owing' = Owing \ {x} /\ Waiting' = Waiting /\ Idling' = Idling
    BY <2>1, <2>2 DEF Owing, Waiting, Idling
  <2>4. Cardinality(Owing') = Cardinality(Owing) - 1
    BY <2>3, CountsFinite, OneLess
  <2>5. Cardinality(Waiting) \in Nat /\ Cardinality(Owing) \in Nat
    BY CountsFinite
  <2> HIDE DEF LoopTypeOK
  <2> QED BY <2>1, <2>2, <2>3, <2>4, <2>5 DEF CountInv
<1>3. ASSUME NEW x \in Actors, NEW k \in Tasks, NEW thr \in Pins \cup {AnyThread}, Schedule(x, k, thr) PROVE CountInv'
  BY <1>3, CountKept DEF Schedule, MayCall, Outside, Running, Push, Move, At, Ready, queue, timing, ending, kernel
<1>4. ASSUME NEW x \in Actors, NEW k \in Tasks, AddEvent(x, k) PROVE CountInv'
  <2>1. place[k] = "new" /\ m_pendingEventCount' = m_pendingEventCount + 1 /\ UNCHANGED <<owes, pc, m_idleThreadCount>>
    BY <1>4 DEF AddEvent
  <2>2. \A j \in Tasks : place'[j] = IF j = k THEN "event" ELSE place[j]
    BY <1>4 DEF AddEvent, Move
  <2>3. IsFiniteSet({j \in Tasks : place'[j] # "new"})
    BY <2>2, UsedFinite
  <2>4. k \notin Waiting /\ Waiting' = Waiting \cup {k} /\ Owing' = Owing /\ Idling' = Idling
    BY <2>1, <2>2 DEF Owing, Waiting, Idling
  <2>5. Cardinality(Waiting') = Cardinality(Waiting) + 1
    BY <2>4, CountsFinite, OneMore
  <2>6. Cardinality(Waiting) \in Nat /\ Cardinality(Owing) \in Nat
    BY CountsFinite
  <2> HIDE DEF LoopTypeOK
  <2> QED BY <2>1, <2>3, <2>4, <2>5, <2>6 DEF CountInv
<1>5. ASSUME NEW x \in Actors, NEW k \in Tasks, NEW ms \in Delays, AddTimer(x, k, ms) PROVE CountInv'
  BY <1>5, CountKept DEF AddTimer, MayCall, Outside, Running, Move, Note, Leaving, At, Ready, queue, timing, ending, kernel
<1>6. ASSUME NEW t \in Threads, Take(t) PROVE CountInv'
  <2>1. PICK i \in DOMAIN m_fibers :
           /\ m_fibers[i].task \in Tasks
           /\ place' = [place EXCEPT ![m_fibers[i].task] = "running"]
    BY <1>6, TakeEntries
  <2>2. /\ \A j \in Tasks : place'[j] # "new" => place[j] # "new"
        /\ \A j \in Tasks : place'[j] = "event" <=> place[j] = "event"
    BY <2>1 DEF BegunInv, Begun
  <2>3. \A u \in Threads : pc'[u] \in InIdle <=> pc[u] \in InIdle
    BY <1>6 DEF Take, At, Go, InIdle
  <2>4. UNCHANGED <<m_pendingEventCount, m_idleThreadCount, owes>>
    BY <1>6 DEF Take
  <2> QED BY <2>2, <2>3, <2>4, CountKept
<1>7. ASSUME NEW t \in Threads, Finish(t) PROVE CountInv'
  <2>1. ft[t] \in Tasks /\ place[ft[t]] \in Begun /\ place' = [place EXCEPT ![ft[t]] = "done"]
    BY <1>7 DEF Finish, Running, At, Move, ControlInv, BegunInv
  <2>2. /\ \A j \in Tasks : place'[j] # "new" => place[j] # "new"
        /\ \A j \in Tasks : place'[j] = "event" <=> place[j] = "event"
    BY <2>1 DEF Begun
  <2>3. \A u \in Threads : pc'[u] \in InIdle <=> pc[u] \in InIdle
    BY <1>7 DEF Finish, Running, At, Go, InIdle
  <2>4. UNCHANGED <<m_pendingEventCount, m_idleThreadCount, owes>>
    BY <1>7 DEF Finish
  <2> QED BY <2>2, <2>3, <2>4, CountKept
<1>8. ASSUME NEW t \in Threads, ScanNothing(t) PROVE CountInv'
  BY <1>8, CountKept DEF ScanNothing, At, Ready, Go, InIdle, queue, timing, ending, kernel
<1>9. ASSUME NEW t \in Threads, EnterIdle(t) PROVE CountInv'
  <2>1. pc[t] = "enter" /\ pc' = [pc EXCEPT ![t] = "idle"] /\ m_idleThreadCount' = m_idleThreadCount + 1
    BY <1>9 DEF EnterIdle, At, Go
  <2>2. UNCHANGED <<place, owes, m_pendingEventCount>>
    BY <1>9 DEF EnterIdle
  <2>3. t \notin Idling /\ Idling' = Idling \cup {t} /\ Waiting' = Waiting /\ Owing' = Owing
    BY <2>1, <2>2 DEF Owing, Waiting, Idling, InIdle
  <2>4. Cardinality(Idling') = Cardinality(Idling) + 1
    BY <2>3, CountsFinite, OneMore
  <2> HIDE DEF LoopTypeOK
  <2> QED BY <2>1, <2>2, <2>3, <2>4 DEF CountInv
<1>10. ASSUME NEW t \in Threads, Break(t) PROVE CountInv'
  BY <1>10, CountKept DEF Break, At, Ready, Go, InIdle, queue, timing, ending, kernel
<1>11. ASSUME NEW t \in Threads, AskTimers(t) PROVE CountInv'
  BY <1>11, CountKept DEF AskTimers, At, Ready, Go, Sleep, InIdle, queue, timing, ending, kernel
<1>12. ASSUME NEW t \in Threads, AskEvents(t) PROVE CountInv'
  BY <1>12, CountKept DEF AskEvents, At, Ready, Go, Sleep, InIdle, queue, timing, ending, kernel
<1>13. ASSUME NEW t \in Threads, AskQueue(t) PROVE CountInv'
  BY <1>13, CountKept DEF AskQueue, At, Ready, Go, Sleep, InIdle, queue, timing, ending, kernel
<1>14. ASSUME NEW t \in Threads, EpollReturns(t) PROVE CountInv'
  BY <1>14, CountKept DEF EpollReturns, At, Ready, Go, InIdle, queue, timing, ending, kernel
<1>15. ASSUME NEW t \in Threads, ListExpired(t) PROVE CountInv'
  <2>1. \A j \in Tasks : place'[j] = IF j \in Expired THEN "taken" ELSE place[j]
    BY <1>15 DEF ListExpired
  <2>2. /\ \A j \in Tasks : place'[j] # "new" => place[j] # "new"
        /\ \A j \in Tasks : place'[j] = "event" <=> place[j] = "event"
    BY <2>1 DEF Expired, m_timers
  <2>3. \A u \in Threads : pc'[u] \in InIdle <=> pc[u] \in InIdle
    BY <1>15 DEF ListExpired, At, Go, InIdle
  <2>4. UNCHANGED <<m_pendingEventCount, m_idleThreadCount, owes>>
    BY <1>15 DEF ListExpired
  <2> QED BY <2>2, <2>3, <2>4, CountKept
<1>16. ASSUME NEW t \in Threads, Submit(t) PROVE CountInv'
  <2>1. \A j \in Tasks : place'[j] = IF j \in ToSet(cbs[t]) THEN "queued" ELSE place[j]
    BY <1>16 DEF Submit
  <2>2. \A j \in ToSet(cbs[t]) : place[j] \in Begun
    BY DEF BegunInv, ToSet
  <2>3. /\ \A j \in Tasks : place'[j] # "new" => place[j] # "new"
        /\ \A j \in Tasks : place'[j] = "event" <=> place[j] = "event"
    BY <2>1, <2>2 DEF Begun
  <2>4. \A u \in Threads : pc'[u] \in InIdle <=> pc[u] \in InIdle
    BY <1>16 DEF Submit, At, Go, InIdle
  <2>5. UNCHANGED <<m_pendingEventCount, m_idleThreadCount, owes>>
    BY <1>16 DEF Submit
  <2> QED BY <2>3, <2>4, <2>5, CountKept
<1>17. ASSUME NEW t \in Threads, Drain(t) PROVE CountInv'
  BY <1>17, CountKept DEF Drain, At, Ready, queue, timing, ending, kernel
<1>18. ASSUME NEW t \in Threads, NEW k \in Tasks, Handle(t, k) PROVE CountInv'
  <2>1. CASE place[k] # "event"
    BY <1>18, <2>1, CountKept DEF Handle, RealEvent
  <2>2. CASE place[k] = "event"
    BY <1>18, <2>2, TriggerCounts DEF Handle, RealEvent, At, Ready, Trigger, Move, Actors
  <2> QED BY <2>1, <2>2
<1>19. ASSUME NEW t \in Threads, LeaveIdle(t) PROVE CountInv'
  <2>1. pc[t] \in {"handle", "leave"} /\ pc' = [pc EXCEPT ![t] = "scan"] /\ m_idleThreadCount' = m_idleThreadCount - 1
    BY <1>19 DEF LeaveIdle, At, Go
  <2>2. UNCHANGED <<place, owes, m_pendingEventCount>>
    BY <1>19 DEF LeaveIdle
  <2>3. t \in Idling /\ Idling' = Idling \ {t} /\ Waiting' = Waiting /\ Owing' = Owing
    BY <2>1, <2>2 DEF Owing, Waiting, Idling, InIdle
  <2>4. Cardinality(Idling') = Cardinality(Idling) - 1
    BY <2>3, CountsFinite, OneLess
  <2> HIDE DEF LoopTypeOK
  <2> QED BY <2>1, <2>2, <2>3, <2>4 DEF CountInv
<1>20. ASSUME NEW k \in Tasks, CancelEvent(k) PROVE CountInv'
  BY <1>20, TriggerCounts DEF CancelEvent, Cancels, Ready, Trigger, Move, Actors
<1>21. ASSUME NEW k \in Tasks, BecomeReady(k) PROVE CountInv'
  BY <1>21, CountKept DEF BecomeReady, queue, timing, ending, kernel
<1>22. CASE StopBegin
  BY <1>22, CountKept DEF StopBegin, queue, timing, ending, kernel
<1>23. CASE StopTickles
  BY <1>23, CountKept DEF StopTickles, queue, timing, ending, kernel
<1>24. CASE StopRoot
  <2>1. \A u \in Threads : pc'[u] \in InIdle <=> pc[u] \in InIdle
    BY <1>24 DEF StopRoot, RunRoot, Proceed, Go, InIdle, ControlInv, Calls
  <2> QED BY <1>24, <2>1, CountKept DEF StopRoot
<1>25. CASE Join
  BY <1>25, CountKept DEF Join, queue, timing, ending, kernel
<1>26. CASE Time
  BY <1>26, CountKept DEF Time, queue, timing, ending, kernel
<1>27. CASE UNCHANGED loop
  BY <1>27, CountKept DEF loop, queue, timing, ending, kernel
<1>28. ASSUME NEW t \in Threads, LookForTimers(t) PROVE CountInv'
  BY <1>28, CountKept DEF LookForTimers, At, Ready, Go, InIdle, queue, timing, ending, kernel
<1> QED BY <1>1, <1>2, <1>3, <1>4, <1>5, <1>6, <1>7, <1>8, <1>9, <1>10, <1>11, <1>12, <1>13, <1>14, <1>15, <1>16, <1>17, <1>18, <1>19, <1>20, <1>21, <1>22, <1>23, <1>24, <1>25, <1>26, <1>27, <1>28 DEF Next, Call, Run, Crash, CancelCrash, Fail, Returns, Stop, Actors, vars

-----------------------------------------------------------------------------
LEMMA HandInit == ASSUME Init PROVE HandInv
  BY DEF Init, HandInv

LEMMA HandKept ==
  ASSUME HandInv,
         \A j \in Tasks : place'[j] \in {"running", "taken"} => place'[j] = place[j],
         \A t \in Threads : pc[t] = "exec" => pc'[t] = "exec" /\ ft'[t] = ft[t],
         \A t \in Threads : pc[t] = "submit" => pc'[t] = "submit" /\ cbs'[t] = cbs[t]
  PROVE  HandInv'
  BY DEF HandInv

LEMMA HandNext ==
  ASSUME LoopTypeOK, ControlInv, CountInv, HandInv, [Next]_vars PROVE HandInv'
<1> USE DEF LoopTypeOK
<1>1. ASSUME NEW x \in Actors, Tickle(x) PROVE HandInv'
  BY <1>1, HandKept DEF Tickle, queue, timing, ending, kernel
<1>2. ASSUME NEW x \in Actors, CountDown(x) PROVE HandInv'
  BY <1>2, HandKept DEF CountDown, queue, timing, ending, kernel
<1>3. ASSUME NEW x \in Actors, NEW k \in Tasks, NEW thr \in Pins \cup {AnyThread}, Schedule(x, k, thr) PROVE HandInv'
  BY <1>3, HandKept DEF Schedule, MayCall, Outside, Running, Push, Move, At, Ready, queue, timing, ending, kernel
<1>4. ASSUME NEW x \in Actors, NEW k \in Tasks, AddEvent(x, k) PROVE HandInv'
  BY <1>4, HandKept DEF AddEvent, MayCall, Outside, Running, Move, Note, Leaving, At, Ready, queue, timing, ending, kernel
<1>5. ASSUME NEW x \in Actors, NEW k \in Tasks, NEW ms \in Delays, AddTimer(x, k, ms) PROVE HandInv'
  BY <1>5, HandKept DEF AddTimer, MayCall, Outside, Running, Move, Note, Leaving, At, Ready, queue, timing, ending, kernel
<1>6. ASSUME NEW t \in Threads, Take(t) PROVE HandInv'
  <2>1. PICK i \in DOMAIN m_fibers :
           /\ m_fibers[i].task \in Tasks
           /\ ft' = [ft EXCEPT ![t] = m_fibers[i].task]
           /\ place' = [place EXCEPT ![m_fibers[i].task] = "running"]
    BY <1>6, TakeEntries
  <2>2. pc[t] = "scan" /\ pc' = [pc EXCEPT ![t] = "exec"] /\ UNCHANGED cbs
    BY <1>6 DEF Take, At, Go
  <2> QED BY <2>1, <2>2 DEF HandInv
<1>7. ASSUME NEW t \in Threads, Finish(t) PROVE HandInv'
  <2>1. pc[t] = "exec" /\ pc' = [pc EXCEPT ![t] = "scan"] /\ UNCHANGED cbs
    BY <1>7 DEF Finish, Running, At, Go
  <2>2. ft[t] \in Tasks /\ place' = [place EXCEPT ![ft[t]] = "done"] /\ ft' = [ft EXCEPT ![t] = None]
    BY <1>7, <2>1 DEF Finish, Move, ControlInv
  <2> QED BY <2>1, <2>2 DEF HandInv
<1>8. ASSUME NEW t \in Threads, ScanNothing(t) PROVE HandInv'
  BY <1>8, HandKept DEF ScanNothing, At, Ready, Go, queue, timing, ending, kernel
<1>9. ASSUME NEW t \in Threads, EnterIdle(t) PROVE HandInv'
  BY <1>9, HandKept DEF EnterIdle, At, Ready, Go, queue, timing, ending, kernel
<1>10. ASSUME NEW t \in Threads, Break(t) PROVE HandInv'
  BY <1>10, HandKept DEF Break, At, Ready, Go, queue, timing, ending, kernel
<1>11. ASSUME NEW t \in Threads, AskTimers(t) PROVE HandInv'
  BY <1>11, HandKept DEF AskTimers, At, Ready, Go, Sleep, queue, timing, ending, kernel
<1>12. ASSUME NEW t \in Threads, AskEvents(t) PROVE HandInv'
  BY <1>12, HandKept DEF AskEvents, At, Ready, Go, Sleep, queue, timing, ending, kernel
<1>13. ASSUME NEW t \in Threads, AskQueue(t) PROVE HandInv'
  BY <1>13, HandKept DEF AskQueue, At, Ready, Go, Sleep, QueueStops, queue, timing, ending, kernel
<1>14. ASSUME NEW t \in Threads, EpollReturns(t) PROVE HandInv'
  BY <1>14, HandKept DEF EpollReturns, At, Ready, Go, queue, timing, ending, kernel
<1>15. ASSUME NEW t \in Threads, ListExpired(t) PROVE HandInv'
  <2>1. /\ ToSet(cbs'[t]) = Expired /\ \A u \in Threads : u # t => cbs'[u] = cbs[u]
        /\ \A j \in Tasks : place'[j] = IF j \in Expired THEN "taken" ELSE place[j]
    BY <1>15, ListExpiredTakes
  <2>2. pc[t] = "listing" /\ pc' = [pc EXCEPT ![t] = "submit"] /\ UNCHANGED ft
    BY <1>15 DEF ListExpired, At, Go
  <2> QED BY <2>1, <2>2, ZenonT(60) DEF HandInv
<1>16. ASSUME NEW t \in Threads, Submit(t) PROVE HandInv'
  <2>1. pc[t] = "submit" /\ pc' = [pc EXCEPT ![t] = "handle"] /\ UNCHANGED ft
    BY <1>16 DEF Submit, At, Go
  <2>2. /\ \A j \in Tasks : place'[j] = IF j \in ToSet(cbs[t]) THEN "queued" ELSE place[j]
        /\ \A u \in Threads : u # t => cbs'[u] = cbs[u]
    BY <1>16 DEF Submit
  <2> QED BY <2>1, <2>2, ZenonT(60) DEF HandInv
<1>17. ASSUME NEW t \in Threads, Drain(t) PROVE HandInv'
  BY <1>17, HandKept DEF Drain, At, Ready, queue, timing, ending, kernel
<1>18. ASSUME NEW t \in Threads, NEW k \in Tasks, Handle(t, k) PROVE HandInv'
  BY <1>18, HandKept DEF Handle, RealEvent, At, Ready, Trigger, Push, Move, queue, timing, ending, kernel
<1>19. ASSUME NEW t \in Threads, LeaveIdle(t) PROVE HandInv'
  BY <1>19, HandKept DEF LeaveIdle, At, Ready, Go, queue, timing, ending, kernel
<1>20. ASSUME NEW k \in Tasks, CancelEvent(k) PROVE HandInv'
  BY <1>20, HandKept DEF CancelEvent, Cancels, Ready, Trigger, Push, Move, queue, timing, ending, kernel
<1>21. ASSUME NEW k \in Tasks, BecomeReady(k) PROVE HandInv'
  BY <1>21, HandKept DEF BecomeReady, queue, timing, ending, kernel
<1>22. CASE StopBegin
  BY <1>22, HandKept DEF StopBegin, queue, timing, ending, kernel
<1>23. CASE StopTickles
  BY <1>23, HandKept DEF StopTickles, queue, timing, ending, kernel
<1>24. CASE StopRoot
  <2>1. \A u \in Threads : pc[u] # "off" => pc'[u] = pc[u]
    BY <1>24 DEF StopRoot, RunRoot, Proceed, Go, ControlInv, Calls
  <2> QED BY <1>24, <2>1, HandKept DEF StopRoot
<1>25. CASE Join
  BY <1>25, HandKept DEF Join, queue, timing, ending, kernel
<1>26. CASE Time
  BY <1>26, HandKept DEF Time, queue, timing, ending, kernel
<1>27. CASE UNCHANGED loop
  BY <1>27, HandKept DEF loop, queue, timing, ending, kernel
<1>28. ASSUME NEW t \in Threads, LookForTimers(t) PROVE HandInv'
  BY <1>28, HandKept DEF LookForTimers, At, Ready, Go, queue, timing, ending, kernel
<1> QED BY <1>1, <1>2, <1>3, <1>4, <1>5, <1>6, <1>7, <1>8, <1>9, <1>10, <1>11, <1>12, <1>13, <1>14, <1>15, <1>16, <1>17, <1>18, <1>19, <1>20, <1>21, <1>22, <1>23, <1>24, <1>25, <1>26, <1>27, <1>28 DEF Next, Call, Run, Crash, CancelCrash, Fail, Returns, Stop, Actors, vars

-----------------------------------------------------------------------------
(* What stop() leaves behind.                                               *)

LEMMA LeftInit == ASSUME Init PROVE LeftInv
  BY DEF Init, LeftInv, TimersLeft, EventsLeft, QueueLeft, Calls

(* A timer is seen by the owner or by a thread that has still to ask for    *)
(* the next deadline.                                                       *)
LEMMA TimersLeftNext ==
  ASSUME UseCaller, LoopTypeOK, ControlInv, CountInv, TimersLeft, [Next]_vars PROVE TimersLeft'
<1> USE LoopAssumption DEF LoopTypeOK, TimersLeft, SeesTimers, SeesEvents, SeesQueue, m_timers
<1>1. ASSUME NEW x \in Actors, Tickle(x) PROVE TimersLeft'
  BY <1>1 DEF Tickle, queue, timing, ending, kernel
<1>2. ASSUME NEW x \in Actors, CountDown(x) PROVE TimersLeft'
  BY <1>2 DEF CountDown, queue, timing, ending, kernel
<1>3. ASSUME NEW x \in Actors, NEW k \in Tasks, NEW thr \in Pins \cup {AnyThread}, Schedule(x, k, thr) PROVE TimersLeft'
  BY <1>3 DEF Schedule, MayCall, Outside, Running, Push, Move, At, Ready, queue, timing, ending, kernel
<1>4. ASSUME NEW x \in Actors, NEW k \in Tasks, AddEvent(x, k) PROVE TimersLeft'
  BY <1>4 DEF AddEvent, MayCall, Outside, Running, Move, Note, Leaving, At, Ready, queue, timing, ending, kernel
<1>5. ASSUME NEW x \in Actors, NEW k \in Tasks, NEW ms \in Delays, AddTimer(x, k, ms) PROVE TimersLeft'
  BY <1>5 DEF AddTimer, MayCall, Outside, Running, Move, Note, Leaving, At, Ready, Actors, ControlInv, queue, timing, ending, kernel
<1>6. ASSUME NEW t \in Threads, Take(t) PROVE TimersLeft'
  <2>1. PICK i \in DOMAIN m_fibers : place' = [place EXCEPT ![m_fibers[i].task] = "running"]
    BY <1>6, TakeEntries
  <2>2. \A j \in Tasks : place'[j] = "timer" => place[j] = "timer"
    BY <2>1
  <2> QED BY <1>6, <2>2 DEF Take, At, Go, ending
<1>7. ASSUME NEW t \in Threads, Finish(t) PROVE TimersLeft'
  BY <1>7 DEF Finish, Running, At, Ready, Move, Go, queue, timing, ending, kernel
<1>8. ASSUME NEW t \in Threads, ScanNothing(t) PROVE TimersLeft'
  BY <1>8 DEF ScanNothing, At, Ready, Go, ControlInv, queue, timing, ending, kernel
<1>9. ASSUME NEW t \in Threads, EnterIdle(t) PROVE TimersLeft'
  BY <1>9 DEF EnterIdle, At, Ready, Go, queue, timing, ending, kernel
<1>10. ASSUME NEW t \in Threads, Break(t) PROVE TimersLeft'
  BY <1>10 DEF Break, At, Ready, Go, ControlInv, queue, timing, ending, kernel
<1>11. ASSUME NEW t \in Threads, AskTimers(t) PROVE TimersLeft'
  BY <1>11 DEF AskTimers, At, Ready, Go, Sleep, queue, timing, ending, kernel
<1>12. ASSUME NEW t \in Threads, AskEvents(t) PROVE TimersLeft'
  BY <1>12 DEF AskEvents, At, Ready, Go, Sleep, queue, timing, ending, kernel
<1>13. ASSUME NEW t \in Threads, AskQueue(t) PROVE TimersLeft'
  BY <1>13, ZenonT(60) DEF AskQueue, At, Ready, Go, Sleep, QueueStops, ControlInv, queue, timing, ending, kernel
<1>14. ASSUME NEW t \in Threads, EpollReturns(t) PROVE TimersLeft'
  BY <1>14 DEF EpollReturns, At, Ready, Go, queue, timing, ending, kernel
<1>15. ASSUME NEW t \in Threads, ListExpired(t) PROVE TimersLeft'
  BY <1>15 DEF ListExpired, At, Ready, Go, queue, timing, ending, kernel
<1>16. ASSUME NEW t \in Threads, Submit(t) PROVE TimersLeft'
  <2>1. \A j \in Tasks : place'[j] = "timer" => place[j] = "timer"
    BY <1>16 DEF Submit
  <2> QED BY <1>16, <2>1 DEF Submit, At, Go, ending
<1>17. ASSUME NEW t \in Threads, Drain(t) PROVE TimersLeft'
  BY <1>17 DEF Drain, At, Ready, queue, timing, ending, kernel
<1>18. ASSUME NEW t \in Threads, NEW k \in Tasks, Handle(t, k) PROVE TimersLeft'
  BY <1>18 DEF Handle, RealEvent, At, Ready, Trigger, Push, Move, queue, timing, ending, kernel
<1>19. ASSUME NEW t \in Threads, LeaveIdle(t) PROVE TimersLeft'
  BY <1>19 DEF LeaveIdle, At, Ready, Go, ControlInv, queue, timing, ending, kernel
<1>20. ASSUME NEW k \in Tasks, CancelEvent(k) PROVE TimersLeft'
  BY <1>20 DEF CancelEvent, Cancels, Ready, Trigger, Push, Move, queue, timing, ending, kernel
<1>21. ASSUME NEW k \in Tasks, BecomeReady(k) PROVE TimersLeft'
  BY <1>21 DEF BecomeReady, queue, timing, ending, kernel
<1>22. CASE StopBegin
  BY <1>22 DEF StopBegin, queue, timing, ending, kernel
<1>23. CASE StopTickles
  BY <1>23 DEF StopTickles, queue, timing, ending, kernel
<1>24. CASE StopRoot
  BY <1>24, ZenonT(60) DEF StopRoot, RunRoot, Proceed, Go, ControlInv, Calls, Threads, queue, timing, ending, kernel
<1>25. CASE Join
  BY <1>25 DEF Join, queue, timing, ending, kernel
<1>26. CASE Time
  BY <1>26 DEF Time, queue, timing, ending, kernel
<1>27. CASE UNCHANGED loop
  BY <1>27 DEF loop, queue, timing, ending, kernel
<1>28. ASSUME NEW t \in Threads, LookForTimers(t) PROVE TimersLeft'
  BY <1>28 DEF LookForTimers, At, Ready, Go, queue, timing, ending, kernel
<1> QED BY <1>1, <1>2, <1>3, <1>4, <1>5, <1>6, <1>7, <1>8, <1>9, <1>10, <1>11, <1>12, <1>13, <1>14, <1>15, <1>16, <1>17, <1>18, <1>19, <1>20, <1>21, <1>22, <1>23, <1>24, <1>25, <1>26, <1>27, <1>28 DEF Next, Call, Run, Crash, CancelCrash, Fail, Returns, Stop, Actors, vars

(* An event, and the count that somebody owes, is seen by the owner or by a *)
(* thread that has still to read the count.                                 *)
LEMMA NoneWaiting ==
  ASSUME CountInv, m_pendingEventCount = 0 PROVE Waiting = {} /\ Owing = {}
<1>1. Cardinality(Waiting) \in Nat /\ Cardinality(Owing) \in Nat
  BY CountsFinite
<1>2. Cardinality(Waiting) = 0 /\ Cardinality(Owing) = 0
  BY <1>1 DEF CountInv
<1> QED BY <1>2, CountsFinite, FS_EmptySet

LEMMA EventsLeftNext ==
  ASSUME UseCaller, LoopTypeOK, ControlInv, CountInv, EventsLeft, [Next]_vars PROVE EventsLeft'
<1> USE LoopAssumption DEF LoopTypeOK, EventsLeft, SeesEvents, SeesQueue, Waiting, Owing, Calls
<1>1. ASSUME NEW x \in Actors, Tickle(x) PROVE EventsLeft'
  BY <1>1 DEF Tickle, queue, timing, ending, kernel
<1>2. ASSUME NEW x \in Actors, CountDown(x) PROVE EventsLeft'
  BY <1>2 DEF CountDown, ending, queue, timing, kernel
<1>3. ASSUME NEW x \in Actors, NEW k \in Tasks, NEW thr \in Pins \cup {AnyThread}, Schedule(x, k, thr) PROVE EventsLeft'
  BY <1>3 DEF Schedule, MayCall, Outside, Running, Push, Move, At, Ready, queue, timing, ending, kernel
<1>4. ASSUME NEW x \in Actors, NEW k \in Tasks, AddEvent(x, k) PROVE EventsLeft'
  BY <1>4 DEF AddEvent, MayCall, Outside, Running, Move, Note, Leaving, At, Ready, Actors, ControlInv, queue, timing, ending, kernel
<1>5. ASSUME NEW x \in Actors, NEW k \in Tasks, NEW ms \in Delays, AddTimer(x, k, ms) PROVE EventsLeft'
  BY <1>5 DEF AddTimer, MayCall, Outside, Running, Move, Note, Leaving, At, Ready, Actors, ControlInv, queue, timing, ending, kernel
<1>6. ASSUME NEW t \in Threads, Take(t) PROVE EventsLeft'
  <2>1. PICK i \in DOMAIN m_fibers : place' = [place EXCEPT ![m_fibers[i].task] = "running"]
    BY <1>6, TakeEntries
  <2>2. \A j \in Tasks : place'[j] = "event" => place[j] = "event"
    BY <2>1
  <2> QED BY <1>6, <2>2 DEF Take, At, Go, ending
<1>7. ASSUME NEW t \in Threads, Finish(t) PROVE EventsLeft'
  BY <1>7 DEF Finish, Running, At, Ready, Move, Go, queue, timing, ending, kernel
<1>8. ASSUME NEW t \in Threads, ScanNothing(t) PROVE EventsLeft'
  BY <1>8 DEF ScanNothing, At, Ready, Go, ControlInv, queue, timing, ending, kernel
<1>9. ASSUME NEW t \in Threads, EnterIdle(t) PROVE EventsLeft'
  BY <1>9 DEF EnterIdle, At, Ready, Go, queue, timing, ending, kernel
<1>10. ASSUME NEW t \in Threads, Break(t) PROVE EventsLeft'
  BY <1>10 DEF Break, At, Ready, Go, ControlInv, queue, timing, ending, kernel
<1>11. ASSUME NEW t \in Threads, AskTimers(t) PROVE EventsLeft'
  BY <1>11, ZenonT(60) DEF AskTimers, At, Ready, Go, Sleep, queue, timing, ending, kernel
<1>12. ASSUME NEW t \in Threads, AskEvents(t) PROVE EventsLeft'
  <2>1. CASE m_pendingEventCount = 0
    <3>1. Waiting = {} /\ Owing = {}
      BY <2>1, NoneWaiting
    <3>2. UNCHANGED <<place, owes, late>>
      BY <1>12 DEF AskEvents, ending
    <3> QED BY <3>1, <3>2
  <2>2. CASE m_pendingEventCount # 0
    BY <1>12, <2>2 DEF AskEvents, NoEvents, Sleep, At, Go, ending
  <2> QED BY <2>1, <2>2
<1>13. ASSUME NEW t \in Threads, AskQueue(t) PROVE EventsLeft'
  BY <1>13, ZenonT(60) DEF AskQueue, At, Ready, Go, Sleep, QueueStops, ControlInv, queue, timing, ending, kernel
<1>14. ASSUME NEW t \in Threads, EpollReturns(t) PROVE EventsLeft'
  BY <1>14 DEF EpollReturns, At, Ready, Go, queue, timing, ending, kernel
<1>15. ASSUME NEW t \in Threads, ListExpired(t) PROVE EventsLeft'
  BY <1>15 DEF ListExpired, At, Ready, Go, queue, timing, ending, kernel
<1>16. ASSUME NEW t \in Threads, Submit(t) PROVE EventsLeft'
  <2>1. \A j \in Tasks : place'[j] = "event" => place[j] = "event"
    BY <1>16 DEF Submit
  <2> QED BY <1>16, <2>1 DEF Submit, At, Go, ending
<1>17. ASSUME NEW t \in Threads, Drain(t) PROVE EventsLeft'
  BY <1>17 DEF Drain, At, Ready, queue, timing, ending, kernel
<1>18. ASSUME NEW t \in Threads, NEW k \in Tasks, Handle(t, k) PROVE EventsLeft'
  BY <1>18 DEF Handle, RealEvent, At, Ready, Trigger, Push, Move, ending, ControlInv, queue, timing, kernel
<1>19. ASSUME NEW t \in Threads, LeaveIdle(t) PROVE EventsLeft'
  BY <1>19 DEF LeaveIdle, At, Ready, Go, ControlInv, queue, timing, ending, kernel
<1>20. ASSUME NEW k \in Tasks, CancelEvent(k) PROVE EventsLeft'
  BY <1>20 DEF CancelEvent, Cancels, Ready, Trigger, Push, Move, ending, Actors, queue, timing, kernel
<1>21. ASSUME NEW k \in Tasks, BecomeReady(k) PROVE EventsLeft'
  BY <1>21 DEF BecomeReady, queue, timing, ending, kernel
<1>22. CASE StopBegin
  BY <1>22 DEF StopBegin, queue, timing, ending, kernel
<1>23. CASE StopTickles
  BY <1>23 DEF StopTickles, queue, timing, ending, kernel
<1>24. CASE StopRoot
  <2>1. CASE mainPc = "asked" /\ m_pendingEventCount = 0
    <3>1. Waiting = {} /\ Owing = {}
      BY <2>1, NoneWaiting
    <3>2. UNCHANGED <<place, owes, late>>
      BY <1>24 DEF StopRoot, ending
    <3> QED BY <3>1, <3>2
  <2>2. CASE ~(mainPc = "asked" /\ m_pendingEventCount = 0)
    BY <1>24, <2>2, ZenonT(60) DEF StopRoot, RunRoot, Proceed, Go, NoEvents, ending, ControlInv, Threads
  <2> QED BY <2>1, <2>2
<1>25. CASE Join
  BY <1>25 DEF Join, queue, timing, ending, kernel
<1>26. CASE Time
  BY <1>26 DEF Time, queue, timing, ending, kernel
<1>27. CASE UNCHANGED loop
  BY <1>27 DEF loop, queue, timing, ending, kernel
<1>28. ASSUME NEW t \in Threads, LookForTimers(t) PROVE EventsLeft'
  BY <1>28 DEF LookForTimers, At, Ready, Go, queue, timing, ending, kernel
<1> QED BY <1>1, <1>2, <1>3, <1>4, <1>5, <1>6, <1>7, <1>8, <1>9, <1>10, <1>11, <1>12, <1>13, <1>14, <1>15, <1>16, <1>17, <1>18, <1>19, <1>20, <1>21, <1>22, <1>23, <1>24, <1>25, <1>26, <1>27, <1>28 DEF Next, Call, Run, Crash, CancelCrash, Fail, Returns, Stop, Actors, vars

(* An entry for any thread is seen by the owner or by a thread that has     *)
(* still to scan the queue.                                                 *)
LEMMA QueueLeftNext ==
  ASSUME UseCaller, LoopTypeOK, ControlInv, EventsLeft, QueueLeft, [Next]_vars PROVE QueueLeft'
<1> USE LoopAssumption DEF LoopTypeOK, QueueLeft, SeesQueue, Calls
<1>1. ASSUME NEW x \in Actors, Tickle(x) PROVE QueueLeft'
  BY <1>1 DEF Tickle, queue, timing, ending, kernel
<1>2. ASSUME NEW x \in Actors, CountDown(x) PROVE QueueLeft'
  BY <1>2 DEF CountDown, queue, timing, ending, kernel
<1>3. ASSUME NEW x \in Actors, NEW k \in Tasks, NEW thr \in Pins \cup {AnyThread}, Schedule(x, k, thr) PROVE QueueLeft'
  <2>1. (\E u \in Threads : SeesQueue(u)') \/ mainPc' \in Calls
    BY <1>3 DEF Schedule, MayCall, Outside, Running, At, Actors
  <2> QED BY <2>1
<1>4. ASSUME NEW x \in Actors, NEW k \in Tasks, AddEvent(x, k) PROVE QueueLeft'
  BY <1>4 DEF AddEvent, MayCall, Outside, Running, Move, Note, Leaving, At, Ready, queue, timing, ending, kernel
<1>5. ASSUME NEW x \in Actors, NEW k \in Tasks, NEW ms \in Delays, AddTimer(x, k, ms) PROVE QueueLeft'
  BY <1>5 DEF AddTimer, MayCall, Outside, Running, Move, Note, Leaving, At, Ready, queue, timing, ending, kernel
<1>6. ASSUME NEW t \in Threads, Take(t) PROVE QueueLeft'
  <2>1. SeesQueue(t)'
    BY <1>6 DEF Take, Go
  <2> QED BY <2>1
<1>7. ASSUME NEW t \in Threads, Finish(t) PROVE QueueLeft'
  BY <1>7 DEF Finish, Running, At, Ready, Move, Go, queue, timing, ending, kernel
<1>8. ASSUME NEW t \in Threads, ScanNothing(t) PROVE QueueLeft'
  BY <1>8 DEF ScanNothing, At, Ready, Go, Runnable, ControlInv, queue, timing, ending, kernel
<1>9. ASSUME NEW t \in Threads, EnterIdle(t) PROVE QueueLeft'
  BY <1>9 DEF EnterIdle, At, Ready, Go, queue, timing, ending, kernel
<1>10. ASSUME NEW t \in Threads, Break(t) PROVE QueueLeft'
  BY <1>10 DEF Break, At, Ready, Go, ControlInv, queue, timing, ending, kernel
<1>11. ASSUME NEW t \in Threads, AskTimers(t) PROVE QueueLeft'
  BY <1>11 DEF AskTimers, At, Ready, Go, Sleep, queue, timing, ending, kernel
<1>12. ASSUME NEW t \in Threads, AskEvents(t) PROVE QueueLeft'
  BY <1>12 DEF AskEvents, At, Ready, Go, Sleep, queue, timing, ending, kernel
<1>13. ASSUME NEW t \in Threads, AskQueue(t) PROVE QueueLeft'
  BY <1>13 DEF AskQueue, At, Ready, Go, Sleep, QueueStops, queue, timing, ending, kernel
<1>14. ASSUME NEW t \in Threads, EpollReturns(t) PROVE QueueLeft'
  BY <1>14 DEF EpollReturns, At, Ready, Go, queue, timing, ending, kernel
<1>15. ASSUME NEW t \in Threads, ListExpired(t) PROVE QueueLeft'
  BY <1>15 DEF ListExpired, At, Ready, Go, queue, timing, ending, kernel
<1>16. ASSUME NEW t \in Threads, Submit(t) PROVE QueueLeft'
  <2>1. SeesQueue(t)'
    BY <1>16 DEF Submit, Go
  <2> QED BY <2>1
<1>17. ASSUME NEW t \in Threads, Drain(t) PROVE QueueLeft'
  BY <1>17 DEF Drain, At, Ready, queue, timing, ending, kernel
<1>18. ASSUME NEW t \in Threads, NEW k \in Tasks, Handle(t, k) PROVE QueueLeft'
  <2>1. SeesQueue(t)'
    BY <1>18 DEF Handle, At
  <2> QED BY <2>1
<1>19. ASSUME NEW t \in Threads, LeaveIdle(t) PROVE QueueLeft'
  BY <1>19 DEF LeaveIdle, At, Ready, Go, queue, timing, ending, kernel
<1>20. ASSUME NEW k \in Tasks, CancelEvent(k) PROVE QueueLeft'
  <2>1. Push(Client, k, AnyThread) /\ UNCHANGED <<pc, late, mainPc>> /\ place[k] = "event"
    BY <1>20 DEF CancelEvent, Cancels, Trigger, ending
  <2>2. \A j \in DOMAIN m_fibers' :
          \/ \E l \in DOMAIN m_fibers : m_fibers'[j] = m_fibers[l]
          \/ m_fibers'[j].task = k
    BY <2>1, PushEntries
  <2>3. k \notin late => mainPc \in Calls \/ \E u \in Threads : SeesQueue(u)
    BY <2>1 DEF EventsLeft, Waiting, SeesEvents
  <2>4. ASSUME NEW j \in DOMAIN m_fibers', m_fibers'[j].thread = AnyThread, m_fibers'[j].task \notin late'
        PROVE  mainPc \in Calls \/ \E u \in Threads : SeesQueue(u)
    BY <2>1, <2>2, <2>3, <2>4
  <2>5. \A u \in Threads : SeesQueue(u)' <=> SeesQueue(u)
    BY <2>1
  <2> HIDE DEF SeesQueue, Calls
  <2> QED BY <2>1, <2>4, <2>5
<1>21. ASSUME NEW k \in Tasks, BecomeReady(k) PROVE QueueLeft'
  BY <1>21 DEF BecomeReady, queue, timing, ending, kernel
<1>22. CASE StopBegin
  BY <1>22 DEF StopBegin, queue, timing, ending, kernel
<1>23. CASE StopTickles
  BY <1>23 DEF StopTickles, queue, timing, ending, kernel
<1>24. CASE StopRoot
  <2>1. CASE m_fibers = <<>>
    <3>1. DOMAIN m_fibers' = {}
      BY <1>24, <2>1 DEF StopRoot, queue
    <3> QED BY <3>1
  <2>2. CASE m_fibers # <<>>
    <3>1. UNCHANGED <<m_fibers, late>> /\ mainPc \in Calls /\ pc[Caller] = "off"
      BY <1>24 DEF StopRoot, queue, ending, ControlInv
    <3>2. mainPc' \in Calls \/ pc'[Caller] = "scan"
      BY <1>24, <2>2 DEF StopRoot, RunRoot, Proceed, Go, QueueStops, Threads
    <3> QED BY <3>1, <3>2 DEF Threads
  <2> QED BY <2>1, <2>2
<1>25. CASE Join
  BY <1>25 DEF Join, queue, timing, ending, kernel
<1>26. CASE Time
  BY <1>26 DEF Time, queue, timing, ending, kernel
<1>27. CASE UNCHANGED loop
  BY <1>27 DEF loop, queue, timing, ending, kernel
<1>28. ASSUME NEW t \in Threads, LookForTimers(t) PROVE QueueLeft'
  BY <1>28 DEF LookForTimers, At, Ready, Go, queue, timing, ending, kernel
<1> QED BY <1>1, <1>2, <1>3, <1>4, <1>5, <1>6, <1>7, <1>8, <1>9, <1>10, <1>11, <1>12, <1>13, <1>14, <1>15, <1>16, <1>17, <1>18, <1>19, <1>20, <1>21, <1>22, <1>23, <1>24, <1>25, <1>26, <1>27, <1>28 DEF Next, Call, Run, Crash, CancelCrash, Fail, Returns, Stop, Actors, vars

LoopInv ==
  /\ LoopTypeOK /\ ControlInv /\ BegunInv /\ CountInv /\ HandInv

(* The invariants of the threads, of the queue and of the counts hold for   *)
(* every IOManager ...                                                      *)
LEMMA LoopInvariant == Spec => []LoopInv
<1>1. Init => LoopInv
  BY LoopTypeInit, ControlInit, BegunInit, CountInit, HandInit DEF LoopInv
<1>2. LoopInv /\ [Next]_vars => LoopInv'
  BY LoopTypeNext, ControlNext, BegunNext, CountNext, HandNext DEF LoopInv
<1> QED BY <1>1, <1>2, PTL DEF Spec

(* ... and that nothing is overlooked for one that uses its caller.         *)
LEMMA NothingOverlooked == ASSUME UseCaller PROVE Spec => []LeftInv
<1>1. Init => LeftInv
  BY LeftInit
<1>2. LoopInv /\ LeftInv /\ [Next]_vars => LeftInv'
  BY TimersLeftNext, EventsLeftNext, QueueLeftNext DEF LoopInv, LeftInv
<1> QED BY <1>1, <1>2, LoopInvariant, PTL DEF Spec

(* When stop() of an IOManager that uses its caller has returned, nothing   *)
(* is left in the queue, among the timers, among the events or in the hands *)
(* of a thread, but what was submitted for a thread that had gone or added  *)
(* by one that was leaving: idle(), tickle() and stopping() on any number   *)
(* of threads never overlook a callback together.                           *)
THEOREM StopLeavesNothing == ASSUME UseCaller PROVE Spec => []NothingLeft
<1>1. LoopInv /\ LeftInv => NothingLeft
  <2> SUFFICES ASSUME LoopInv, LeftInv, mainPc = "stopped" PROVE NothingLeft
    BY DEF NothingLeft
  <2>1. \A t \in Threads : pc[t] \in {"off", "exited"}
    BY DEF LoopInv, ControlInv, Threads
  <2>2. \A t \in Threads : ~SeesQueue(t) /\ ~SeesEvents(t) /\ ~SeesTimers(t)
    BY <2>1 DEF SeesQueue, SeesEvents, SeesTimers
  <2>3. \A k \in Tasks : k \notin late => place[k] \notin {"timer", "event", "taken", "running"}
    <3>1. \A k \in Tasks : place[k] \notin {"taken", "running"}
      BY <2>1 DEF LoopInv, HandInv
    <3>2. \A k \in Tasks : k \notin late => place[k] # "timer"
      BY <2>2 DEF LeftInv, TimersLeft, m_timers
    <3>3. \A k \in Tasks : k \notin late => place[k] # "event"
      BY <2>2 DEF LeftInv, EventsLeft, Waiting, Calls
    <3> QED BY <3>1, <3>2, <3>3
  <2>4. \A k \in Tasks : k \notin late => place[k] \in {"new", "queued", "done"}
    BY <2>3 DEF LoopInv, LoopTypeOK, Places
  <2>5. \A i \in DOMAIN m_fibers : m_fibers[i].thread # AnyThread \/ m_fibers[i].task \in late
    BY <2>2 DEF LeftInv, QueueLeft, Calls
  <2>6. late = {} => m_pendingEventCount = 0
    <3> SUFFICES ASSUME late = {} PROVE m_pendingEventCount = 0
      OBVIOUS
    <3>1. Waiting = {} /\ Owing = {}
      BY <2>2, <2>3 DEF LeftInv, EventsLeft, Waiting, Calls
    <3>2. Cardinality({}) = 0
      BY FS_EmptySet
    <3> QED BY <3>1, <3>2 DEF LoopInv, CountInv
  <2> QED BY <2>4, <2>5, <2>6 DEF NothingLeft
<1> QED BY <1>1, LoopInvariant, NothingOverlooked, PTL

-----------------------------------------------------------------------------
(* Who watches the timers.                                                  *)

LEMMA LeastNatural ==
  ASSUME NEW T, T \subseteq Nat, T # {} PROVE \E x \in T : \A y \in T : x <= y
<1> DEFINE R == OpToRel(<, Nat)
<1>1. IsWellFoundedOn(R, Nat)
  BY NatLessThanWellFounded
<1>2. \A x, y \in Nat : y < x => <<y, x>> \in R
  BY DEF OpToRel
<1> HIDE DEF R
<1>3. PICK x \in T : \A y \in T : ~(<<y, x>> \in R)
  BY <1>1, WFMin
<1>4. ASSUME NEW y \in T PROVE x <= y
  <2>1. x \in Nat /\ y \in Nat
    BY <1>4
  <2>2. ~(y < x)
    BY <1>2, <1>3, <1>4, <2>1
  <2> QED BY <2>1, <2>2
<1> QED BY <1>3, <1>4

(* A thread that asked for the next deadline sleeps no longer than any.     *)
LEMMA SleepEndsInTime ==
  ASSUME LoopTypeOK, WithinDelay, m_timers # {},
         Fits(MAX_TIMEOUT), \A ms \in Delays : \A n \in 0..ms : Fits(n)
  PROVE  \A k \in m_timers : SleepFor(NextTimer) \in 0..rem[k]
<1> DEFINE T == {rem[k] : k \in m_timers}
           d == NextTimer
<1>1. T \subseteq Nat /\ T # {} /\ \A k \in m_timers : rem[k] \in T /\ rem[k] \in Nat
  <2>1. \A k \in m_timers : rem[k] \in Nat
    BY DEF LoopTypeOK, m_timers
  <2>2. PICK k \in m_timers : TRUE
    OBVIOUS
  <2>3. rem[k] \in T
    BY <2>2
  <2> QED BY <2>1, <2>3
<1>2. \E x \in T : \A k \in m_timers : x <= rem[k]
  BY <1>1, LeastNatural
<1>3. d \in T /\ \A k \in m_timers : d <= rem[k]
  BY <1>2 DEF NextTimer
<1> HIDE DEF d
<1>4. d \in Nat /\ Fits(d)
  <2>1. PICK k \in m_timers : d = rem[k]
    BY <1>3
  <2>2. PICK ms \in Delays : rem[k] <= ms
    BY DEF WithinDelay
  <2>3. d \in 0..ms /\ d \in Nat
    BY <1>1, <2>1, <2>2, LoopAssumption
  <2> QED BY <2>3
<1>5. SleepFor(d) = IF d > MAX_TIMEOUT THEN MAX_TIMEOUT ELSE d
  BY <1>4 DEF SleepFor, Fits
<1>6. SleepFor(d) \in 0..d
  BY <1>4, <1>5, LoopAssumption
<1>7. ASSUME NEW k \in m_timers PROVE SleepFor(d) \in 0..rem[k]
  <2>1. d <= rem[k] /\ rem[k] \in Nat
    BY <1>1, <1>3
  <2> QED BY <1>4, <1>6, <2>1
<1> QED BY <1>7 DEF d

LEMMA IdleCounted ==
  ASSUME CountInv, NEW t \in Threads, pc[t] \in InIdle PROVE m_idleThreadCount > 0
<1>1. Idling # {}
  BY DEF Idling
<1>2. Cardinality(Idling) \in Nat /\ Cardinality(Idling) # 0
  BY <1>1, CountsFinite, FS_EmptySet
<1> QED BY <1>2 DEF CountInv

(* Before stop() every worker asks or naps.                                 *)
LEMMA WorkersUp ==
  ASSUME LoopTypeOK, ControlInv, Workers # {}, mainPc = "started"
  PROVE  \E t \in Threads : Asks(t) \/ Naps(t)
<1>1. PICK t \in Workers : TRUE
  OBVIOUS
<1>2. t \in Threads /\ ~idleTerm[t] /\ pc[t] \notin {"off", "leave", "break", "exited"}
  BY LoopAssumption DEF ControlInv, Threads
<1>3. pc[t] \in Pcs
  BY <1>2 DEF LoopTypeOK
<1> QED BY <1>2, <1>3 DEF Asks, Naps, SeesTimers, SeesEvents, SeesQueue, Pcs, InIdle

LEMMA WithinDelayNext == ASSUME LoopTypeOK, WithinDelay, [Next]_vars PROVE WithinDelay'
<1> USE LoopAssumption DEF LoopTypeOK, WithinDelay, m_timers
<1>1. ASSUME NEW x \in Actors, Tickle(x) PROVE WithinDelay'
  BY <1>1 DEF Tickle, queue, timing, ending, kernel
<1>2. ASSUME NEW x \in Actors, CountDown(x) PROVE WithinDelay'
  BY <1>2 DEF CountDown, queue, timing, ending, kernel
<1>3. ASSUME NEW x \in Actors, NEW k \in Tasks, NEW thr \in Pins \cup {AnyThread}, Schedule(x, k, thr) PROVE WithinDelay'
  BY <1>3 DEF Schedule, MayCall, Outside, Running, Push, Move, At, Ready, queue, timing, ending, kernel
<1>4. ASSUME NEW x \in Actors, NEW k \in Tasks, AddEvent(x, k) PROVE WithinDelay'
  BY <1>4 DEF AddEvent, MayCall, Outside, Running, Move, Note, Leaving, At, Ready, queue, timing, ending, kernel
<1>5. ASSUME NEW x \in Actors, NEW k \in Tasks, NEW ms \in Delays, AddTimer(x, k, ms) PROVE WithinDelay'
  BY <1>5 DEF AddTimer, MayCall, Outside, Running, Move, Note, Leaving, At, Ready, queue, timing, ending, kernel
<1>6. ASSUME NEW t \in Threads, Take(t) PROVE WithinDelay'
  <2>1. PICK i \in DOMAIN m_fibers : place' = [place EXCEPT ![m_fibers[i].task] = "running"]
    BY <1>6, TakeEntries
  <2>2. \A j \in Tasks : place'[j] = "timer" => place[j] = "timer"
    BY <2>1
  <2> QED BY <1>6, <2>2 DEF Take, timing
<1>7. ASSUME NEW t \in Threads, Finish(t) PROVE WithinDelay'
  BY <1>7 DEF Finish, Running, At, Ready, Move, Go, queue, timing, ending, kernel
<1>8. ASSUME NEW t \in Threads, ScanNothing(t) PROVE WithinDelay'
  BY <1>8 DEF ScanNothing, At, Ready, Go, queue, timing, ending, kernel
<1>9. ASSUME NEW t \in Threads, EnterIdle(t) PROVE WithinDelay'
  BY <1>9 DEF EnterIdle, At, Ready, Go, queue, timing, ending, kernel
<1>10. ASSUME NEW t \in Threads, Break(t) PROVE WithinDelay'
  BY <1>10 DEF Break, At, Ready, Go, queue, timing, ending, kernel
<1>11. ASSUME NEW t \in Threads, AskTimers(t) PROVE WithinDelay'
  BY <1>11 DEF AskTimers, At, Ready, Go, Sleep, queue, timing, ending, kernel
<1>12. ASSUME NEW t \in Threads, AskEvents(t) PROVE WithinDelay'
  BY <1>12 DEF AskEvents, At, Ready, Go, Sleep, queue, timing, ending, kernel
<1>13. ASSUME NEW t \in Threads, AskQueue(t) PROVE WithinDelay'
  BY <1>13 DEF AskQueue, At, Ready, Go, Sleep, QueueStops, queue, timing, ending, kernel
<1>14. ASSUME NEW t \in Threads, EpollReturns(t) PROVE WithinDelay'
  BY <1>14 DEF EpollReturns, At, Ready, Go, queue, timing, ending, kernel
<1>15. ASSUME NEW t \in Threads, ListExpired(t) PROVE WithinDelay'
  BY <1>15 DEF ListExpired, At, Ready, Go, queue, timing, ending, kernel
<1>16. ASSUME NEW t \in Threads, Submit(t) PROVE WithinDelay'
  BY <1>16 DEF Submit, At, Ready, Go, queue, timing, ending, kernel
<1>17. ASSUME NEW t \in Threads, Drain(t) PROVE WithinDelay'
  BY <1>17 DEF Drain, At, Ready, queue, timing, ending, kernel
<1>18. ASSUME NEW t \in Threads, NEW k \in Tasks, Handle(t, k) PROVE WithinDelay'
  BY <1>18 DEF Handle, RealEvent, At, Ready, Trigger, Push, Move, queue, timing, ending, kernel
<1>19. ASSUME NEW t \in Threads, LeaveIdle(t) PROVE WithinDelay'
  BY <1>19 DEF LeaveIdle, At, Ready, Go, queue, timing, ending, kernel
<1>20. ASSUME NEW k \in Tasks, CancelEvent(k) PROVE WithinDelay'
  BY <1>20 DEF CancelEvent, Cancels, Ready, Trigger, Push, Move, queue, timing, ending, kernel
<1>21. ASSUME NEW k \in Tasks, BecomeReady(k) PROVE WithinDelay'
  BY <1>21 DEF BecomeReady, queue, timing, ending, kernel
<1>22. CASE StopBegin
  BY <1>22 DEF StopBegin, queue, timing, ending, kernel
<1>23. CASE StopTickles
  BY <1>23 DEF StopTickles, queue, timing, ending, kernel
<1>24. CASE StopRoot
  BY <1>24 DEF StopRoot, RunRoot, Proceed, Go, queue, timing, ending, kernel
<1>25. CASE Join
  BY <1>25 DEF Join, queue, timing, ending, kernel
<1>26. CASE Time
  BY <1>26 DEF Time, queue, timing, ending, kernel
<1>27. CASE UNCHANGED loop
  BY <1>27 DEF loop, queue, timing, ending, kernel
<1>28. ASSUME NEW t \in Threads, LookForTimers(t) PROVE WithinDelay'
  BY <1>28 DEF LookForTimers, At, Ready, Go, queue, timing, ending, kernel
<1> QED BY <1>1, <1>2, <1>3, <1>4, <1>5, <1>6, <1>7, <1>8, <1>9, <1>10, <1>11, <1>12, <1>13, <1>14, <1>15, <1>16, <1>17, <1>18, <1>19, <1>20, <1>21, <1>22, <1>23, <1>24, <1>25, <1>26, <1>27, <1>28 DEF Next, Call, Run, Crash, CancelCrash, Fail, Returns, Stop, Actors, vars

(* Once somebody is up to ask, somebody stays up until a thread has asked.  *)
LEMMA RousedStays ==
  ASSUME UseCaller, LoopTypeOK, ControlInv, CountInv, TimersLeft, Roused, [Next]_vars,
         mainPc = "started" \/ \E k \in m_timers : k \notin late
  PROVE  Roused' \/ \E t \in Threads : AskTimers(t)
<1> DEFINE Goal == Roused' \/ \E t \in Threads : AskTimers(t)
<1> USE LoopAssumption DEF LoopTypeOK, Roused, Asks, Naps, SeesTimers, SeesEvents, SeesQueue
<1>1. ASSUME NEW x \in Actors, Tickle(x) PROVE Goal
  <2>1. UNCHANGED <<pc, idleTerm, mainPc>> /\ pipe' = (pipe \/ m_idleThreadCount > 0)
        /\ \A y \in Actors : y # x => tickling'[y] = tickling[y]
    BY <1>1 DEF Tickle, ending
  <2>2. (\E u \in Threads : Naps(u)) => m_idleThreadCount > 0
    BY IdleCounted DEF InIdle
  <2>3. (\E u \in Threads : Naps(u)) => pipe'
    BY <2>1, <2>2
  <2> QED BY <2>1, <2>3
<1>2. ASSUME NEW x \in Actors, CountDown(x) PROVE Goal
  BY <1>2 DEF CountDown, queue, timing, ending, kernel
<1>3. ASSUME NEW x \in Actors, NEW k \in Tasks, NEW thr \in Pins \cup {AnyThread}, Schedule(x, k, thr) PROVE Goal
  BY <1>3 DEF Schedule, MayCall, Outside, Running, Push, Move, At, Ready, Actors, queue, timing, ending, kernel
<1>4. ASSUME NEW x \in Actors, NEW k \in Tasks, AddEvent(x, k) PROVE Goal
  BY <1>4 DEF AddEvent, MayCall, Outside, Running, Move, Note, Leaving, At, Ready, queue, timing, ending, kernel
<1>5. ASSUME NEW x \in Actors, NEW k \in Tasks, NEW ms \in Delays, AddTimer(x, k, ms) PROVE Goal
  BY <1>5 DEF AddTimer, MayCall, Outside, Running, Move, Note, Leaving, At, Ready, Actors, queue, timing, ending, kernel
<1>6. ASSUME NEW t \in Threads, Take(t) PROVE Goal
  BY <1>6 DEF Take, At, Ready, Move, Go, ControlInv, Actors, Threads, queue, timing, ending, kernel
<1>7. ASSUME NEW t \in Threads, Finish(t) PROVE Goal
  BY <1>7 DEF Finish, Running, At, Ready, Move, Go, ControlInv, queue, timing, ending, kernel
<1>8. ASSUME NEW t \in Threads, ScanNothing(t) PROVE Goal
  BY <1>8 DEF ScanNothing, At, Ready, Go, ControlInv, Actors, Threads, queue, timing, ending, kernel
<1>9. ASSUME NEW t \in Threads, EnterIdle(t) PROVE Goal
  BY <1>9 DEF EnterIdle, At, Ready, Go, queue, timing, ending, kernel
<1>10. ASSUME NEW t \in Threads, Break(t) PROVE Goal
  BY <1>10 DEF Break, At, Ready, Go, ControlInv, queue, timing, ending, kernel
<1>11. ASSUME NEW t \in Threads, AskTimers(t) PROVE Goal
  BY <1>11
<1>12. ASSUME NEW t \in Threads, AskEvents(t) PROVE Goal
  <2>1. /\ pc[t] = "asked" /\ pc'[t] \in {"quiet", "wait"} /\ UNCHANGED <<pipe, tickling, mainPc, idleTerm>>
        /\ \A u \in Threads : u # t => pc'[u] = pc[u]
    BY <1>12 DEF AskEvents, At, Go, Sleep, kernel, ending
  <2> QED BY <2>1
<1>13. ASSUME NEW t \in Threads, AskQueue(t) PROVE Goal
  <2>1. /\ pc[t] = "quiet" /\ UNCHANGED <<pipe, tickling, mainPc>>
        /\ \A u \in Threads : u # t => pc'[u] = pc[u] /\ idleTerm'[u] = idleTerm[u]
    BY <1>13 DEF AskQueue, At, Go, Sleep, kernel
  <2>2. CASE ~QueueStops
    BY <1>13, <2>1, <2>2, ZenonT(60) DEF AskQueue, Go, Sleep
  <2>3. CASE QueueStops /\ mainPc \in {"flagged", "root"}
    BY <2>1, <2>3
  <2>4. CASE QueueStops /\ mainPc \notin {"flagged", "root"}
    <3>1. mainPc # "started"
      BY <2>4 DEF QueueStops, ControlInv
    <3>2. PICK u \in Threads : SeesTimers(u)
      BY <2>4, <3>1 DEF TimersLeft
    <3>3. u # t /\ SeesTimers(u)' /\ (Asks(u)' \/ Naps(u)')
      BY <2>1, <3>2
    <3> QED BY <2>1, <3>3
  <2> QED BY <2>2, <2>3, <2>4
<1>14. ASSUME NEW t \in Threads, EpollReturns(t) PROVE Goal
  BY <1>14 DEF EpollReturns, At, Ready, Go, ControlInv, queue, timing, ending, kernel
<1>15. ASSUME NEW t \in Threads, ListExpired(t) PROVE Goal
  BY <1>15 DEF ListExpired, At, Ready, Go, queue, timing, ending, kernel
<1>16. ASSUME NEW t \in Threads, Submit(t) PROVE Goal
  BY <1>16 DEF Submit, At, Ready, Go, Actors, Threads, queue, timing, ending, kernel
<1>17. ASSUME NEW t \in Threads, Drain(t) PROVE Goal
  BY <1>17 DEF Drain, At, Ready, ControlInv, queue, timing, ending, kernel
<1>18. ASSUME NEW t \in Threads, NEW k \in Tasks, Handle(t, k) PROVE Goal
  BY <1>18 DEF Handle, RealEvent, At, Ready, Trigger, Push, Move, Actors, queue, timing, ending, kernel
<1>19. ASSUME NEW t \in Threads, LeaveIdle(t) PROVE Goal
  BY <1>19 DEF LeaveIdle, At, Ready, Go, ControlInv, queue, timing, ending, kernel
<1>20. ASSUME NEW k \in Tasks, CancelEvent(k) PROVE Goal
  BY <1>20 DEF CancelEvent, Cancels, Ready, Trigger, Push, Move, Actors, queue, timing, ending, kernel
<1>21. ASSUME NEW k \in Tasks, BecomeReady(k) PROVE Goal
  BY <1>21 DEF BecomeReady, queue, timing, ending, kernel
<1>22. CASE StopBegin
  BY <1>22 DEF StopBegin, ControlInv, queue, timing, ending, kernel
<1>23. CASE StopTickles
  BY <1>23 DEF StopTickles, queue, timing, ending, kernel
<1>24. CASE StopRoot
  <2>1. CASE mainPc = "root"
    <3>1. m_timers # {} /\ pc' = [pc EXCEPT ![Caller] = "scan"] /\ pc[Caller] = "off" /\ UNCHANGED idleTerm
      BY <1>24, <2>1 DEF StopRoot, RunRoot, Go, ControlInv, Calls, ending
    <3>2. Caller \in Threads /\ ~idleTerm[Caller]
      BY <3>1 DEF ControlInv, Threads
    <3> QED BY <3>1, <3>2
  <2>2. CASE mainPc # "root"
    BY <1>24, <2>2, ZenonT(60) DEF StopRoot, RunRoot, Proceed, Go, ending, kernel, ControlInv, Calls
  <2> QED BY <2>1, <2>2
<1>25. CASE Join
  BY <1>25 DEF Join, queue, timing, ending, kernel
<1>26. CASE Time
  BY <1>26 DEF Time, queue, timing, ending, kernel
<1>27. CASE UNCHANGED loop
  BY <1>27 DEF loop, queue, timing, ending, kernel
<1>28. ASSUME NEW t \in Threads, LookForTimers(t) PROVE Goal
  BY <1>28 DEF LookForTimers, At, Ready, Go, ControlInv, queue, timing, ending, kernel
<1> QED BY <1>1, <1>2, <1>3, <1>4, <1>5, <1>6, <1>7, <1>8, <1>9, <1>10, <1>11, <1>12, <1>13, <1>14, <1>15, <1>16, <1>17, <1>18, <1>19, <1>20, <1>21, <1>22, <1>23, <1>24, <1>25, <1>26, <1>27, <1>28 DEF Next, Call, Run, Crash, CancelCrash, Fail, Returns, Stop, Actors, vars

(* A sleep that ends in time goes on until its thread is up.                *)
LEMMA SleepStays ==
  ASSUME LoopTypeOK, ControlInv, [Next]_vars, NEW t \in Threads, NEW k \in m_timers, SleepsFor(t, k)
  PROVE  Asks(t)' \/ SleepsFor(t, k)'
<1> DEFINE Goal == Asks(t)' \/ SleepsFor(t, k)'
<1> USE LoopAssumption DEF LoopTypeOK, Asks, SleepsFor, SeesTimers, SeesEvents, SeesQueue, m_timers
<1>1. ASSUME NEW x \in Actors, Tickle(x) PROVE Goal
  BY <1>1 DEF Tickle, queue, timing, ending, kernel
<1>2. ASSUME NEW x \in Actors, CountDown(x) PROVE Goal
  BY <1>2 DEF CountDown, queue, timing, ending, kernel
<1>3. ASSUME NEW x \in Actors, NEW j \in Tasks, NEW thr \in Pins \cup {AnyThread}, Schedule(x, j, thr) PROVE Goal
  BY <1>3 DEF Schedule, MayCall, Outside, Running, Push, Move, At, Ready, Actors, queue, timing, ending, kernel
<1>4. ASSUME NEW x \in Actors, NEW j \in Tasks, AddEvent(x, j) PROVE Goal
  BY <1>4 DEF AddEvent, MayCall, Outside, Running, Move, Note, Leaving, At, Ready, queue, timing, ending, kernel
<1>5. ASSUME NEW x \in Actors, NEW j \in Tasks, NEW ms \in Delays, AddTimer(x, j, ms) PROVE Goal
  BY <1>5 DEF AddTimer, MayCall, Outside, Running, Move, Note, Leaving, At, Ready, Actors, queue, timing, ending, kernel
<1>6. ASSUME NEW u \in Threads, Take(u) PROVE Goal
  BY <1>6 DEF Take, At, Ready, Move, Go, ControlInv, Actors, Threads, queue, timing, ending, kernel
<1>7. ASSUME NEW u \in Threads, Finish(u) PROVE Goal
  BY <1>7 DEF Finish, Running, At, Ready, Move, Go, ControlInv, queue, timing, ending, kernel
<1>8. ASSUME NEW u \in Threads, ScanNothing(u) PROVE Goal
  BY <1>8 DEF ScanNothing, At, Ready, Go, ControlInv, Actors, Threads, queue, timing, ending, kernel
<1>9. ASSUME NEW u \in Threads, EnterIdle(u) PROVE Goal
  BY <1>9 DEF EnterIdle, At, Ready, Go, queue, timing, ending, kernel
<1>10. ASSUME NEW u \in Threads, Break(u) PROVE Goal
  BY <1>10 DEF Break, At, Ready, Go, ControlInv, queue, timing, ending, kernel
<1>11. ASSUME NEW u \in Threads, AskTimers(u) PROVE Goal
  BY <1>11 DEF AskTimers, At, Ready, Go, Sleep, queue, timing, ending, kernel
<1>12. ASSUME NEW u \in Threads, AskEvents(u) PROVE Goal
  BY <1>12 DEF AskEvents, At, Ready, Go, Sleep, queue, timing, ending, kernel
<1>13. ASSUME NEW u \in Threads, AskQueue(u) PROVE Goal
  BY <1>13 DEF AskQueue, At, Ready, Go, Sleep, QueueStops, queue, timing, ending, kernel
<1>14. ASSUME NEW u \in Threads, EpollReturns(u) PROVE Goal
  BY <1>14 DEF EpollReturns, At, Ready, Go, ControlInv, queue, timing, ending, kernel
<1>15. ASSUME NEW u \in Threads, ListExpired(u) PROVE Goal
  BY <1>15 DEF ListExpired, At, Ready, Go, queue, timing, ending, kernel
<1>16. ASSUME NEW u \in Threads, Submit(u) PROVE Goal
  BY <1>16 DEF Submit, At, Ready, Go, Actors, Threads, queue, timing, ending, kernel
<1>17. ASSUME NEW u \in Threads, Drain(u) PROVE Goal
  BY <1>17 DEF Drain, At, Ready, ControlInv, queue, timing, ending, kernel
<1>18. ASSUME NEW u \in Threads, NEW j \in Tasks, Handle(u, j) PROVE Goal
  BY <1>18 DEF Handle, RealEvent, At, Ready, Trigger, Push, Move, Actors, queue, timing, ending, kernel
<1>19. ASSUME NEW u \in Threads, LeaveIdle(u) PROVE Goal
  BY <1>19 DEF LeaveIdle, At, Ready, Go, ControlInv, queue, timing, ending, kernel
<1>20. ASSUME NEW j \in Tasks, CancelEvent(j) PROVE Goal
  BY <1>20 DEF CancelEvent, Cancels, Ready, Trigger, Push, Move, Actors, queue, timing, ending, kernel
<1>21. ASSUME NEW j \in Tasks, BecomeReady(j) PROVE Goal
  BY <1>21 DEF BecomeReady, queue, timing, ending, kernel
<1>22. CASE StopBegin
  BY <1>22 DEF StopBegin, ControlInv, queue, timing, ending, kernel
<1>23. CASE StopTickles
  BY <1>23 DEF StopTickles, queue, timing, ending, kernel
<1>24. CASE StopRoot
  <2>1. /\ UNCHANGED <<next_timeout, rem>> /\ t # Caller
        /\ \A u \in Threads : u # Caller => pc'[u] = pc[u]
    BY <1>24 DEF StopRoot, RunRoot, Proceed, Go, timing, ControlInv, Calls
  <2> QED BY <2>1
<1>25. CASE Join
  BY <1>25 DEF Join, queue, timing, ending, kernel
<1>26. CASE Time
  <2>1. rem[k] \in Nat /\ next_timeout[t] \in 0..rem[k]
    OBVIOUS
  <2>2. /\ rem'[k] = IF rem[k] > 0 THEN rem[k] - 1 ELSE 0
        /\ next_timeout'[t] = IF next_timeout[t] > 0 THEN next_timeout[t] - 1 ELSE next_timeout[t]
        /\ UNCHANGED pc
    BY <1>26 DEF Time
  <2>3. next_timeout'[t] \in 0..rem'[k]
    BY <2>1, <2>2
  <2> QED BY <2>2, <2>3
<1>27. CASE UNCHANGED loop
  BY <1>27 DEF loop, queue, timing, ending, kernel
<1>28. ASSUME NEW u \in Threads, LookForTimers(u) PROVE Goal
  BY <1>28 DEF LookForTimers, At, Ready, Go, ControlInv, queue, timing, ending, kernel
<1> QED BY <1>1, <1>2, <1>3, <1>4, <1>5, <1>6, <1>7, <1>8, <1>9, <1>10, <1>11, <1>12, <1>13, <1>14, <1>15, <1>16, <1>17, <1>18, <1>19, <1>20, <1>21, <1>22, <1>23, <1>24, <1>25, <1>26, <1>27, <1>28 DEF Next, Call, Run, Crash, CancelCrash, Fail, Returns, Stop, Actors, vars

(* Every other step leaves the timers as they are or takes some away.       *)
OnlyLeave ==
  /\ m_timers' \subseteq m_timers /\ late \subseteq late'
  /\ m_tickled' => m_tickled
  /\ mainPc' = "started" => mainPc = "started"

LEMMA OthersOnlyLeave ==
  ASSUME LoopTypeOK, [Next]_vars
  PROVE  \/ OnlyLeave
         \/ \E t \in Threads : AskTimers(t)
         \/ \E x \in Actors, k \in Tasks, ms \in Delays : AddTimer(x, k, ms)
<1> DEFINE Goal == \/ OnlyLeave
                   \/ \E t \in Threads : AskTimers(t)
                   \/ \E x \in Actors, k \in Tasks, ms \in Delays : AddTimer(x, k, ms)
<1> USE DEF OnlyLeave, LoopTypeOK, m_timers
<1>1. ASSUME NEW x \in Actors, Tickle(x) PROVE Goal
  BY <1>1 DEF Tickle, queue, timing, ending, kernel
<1>2. ASSUME NEW x \in Actors, CountDown(x) PROVE Goal
  BY <1>2 DEF CountDown, queue, timing, ending, kernel
<1>3. ASSUME NEW x \in Actors, NEW k \in Tasks, NEW thr \in Pins \cup {AnyThread}, Schedule(x, k, thr) PROVE Goal
  BY <1>3 DEF Schedule, MayCall, Outside, Running, Push, Move, At, Ready, Actors, queue, timing, ending, kernel
<1>4. ASSUME NEW x \in Actors, NEW k \in Tasks, AddEvent(x, k) PROVE Goal
  BY <1>4 DEF AddEvent, MayCall, Outside, Running, Move, Note, Leaving, At, Ready, queue, timing, ending, kernel
<1>5. ASSUME NEW x \in Actors, NEW k \in Tasks, NEW ms \in Delays, AddTimer(x, k, ms) PROVE Goal
  BY <1>5
<1>6. ASSUME NEW t \in Threads, Take(t) PROVE Goal
  <2>1. PICK i \in DOMAIN m_fibers : place' = [place EXCEPT ![m_fibers[i].task] = "running"]
    BY <1>6, TakeEntries
  <2>2. \A j \in Tasks : place'[j] = "timer" => place[j] = "timer"
    BY <2>1
  <2> QED BY <1>6, <2>2 DEF Take, timing, ending
<1>7. ASSUME NEW t \in Threads, Finish(t) PROVE Goal
  BY <1>7 DEF Finish, Running, At, Ready, Move, Go, ControlInv, queue, timing, ending, kernel
<1>8. ASSUME NEW t \in Threads, ScanNothing(t) PROVE Goal
  BY <1>8 DEF ScanNothing, At, Ready, Go, ControlInv, Actors, Threads, queue, timing, ending, kernel
<1>9. ASSUME NEW t \in Threads, EnterIdle(t) PROVE Goal
  BY <1>9 DEF EnterIdle, At, Ready, Go, queue, timing, ending, kernel
<1>10. ASSUME NEW t \in Threads, Break(t) PROVE Goal
  BY <1>10 DEF Break, At, Ready, Go, ControlInv, queue, timing, ending, kernel
<1>11. ASSUME NEW t \in Threads, AskTimers(t) PROVE Goal
  BY <1>11
<1>12. ASSUME NEW t \in Threads, AskEvents(t) PROVE Goal
  BY <1>12 DEF AskEvents, At, Ready, Go, Sleep, queue, timing, ending, kernel
<1>13. ASSUME NEW t \in Threads, AskQueue(t) PROVE Goal
  BY <1>13 DEF AskQueue, At, Ready, Go, Sleep, QueueStops, queue, timing, ending, kernel
<1>14. ASSUME NEW t \in Threads, EpollReturns(t) PROVE Goal
  BY <1>14 DEF EpollReturns, At, Ready, Go, ControlInv, queue, timing, ending, kernel
<1>15. ASSUME NEW t \in Threads, ListExpired(t) PROVE Goal
  BY <1>15 DEF ListExpired, At, Ready, Go, queue, timing, ending, kernel
<1>16. ASSUME NEW t \in Threads, Submit(t) PROVE Goal
  BY <1>16 DEF Submit, At, Ready, Go, Actors, Threads, queue, timing, ending, kernel
<1>17. ASSUME NEW t \in Threads, Drain(t) PROVE Goal
  BY <1>17 DEF Drain, At, Ready, ControlInv, queue, timing, ending, kernel
<1>18. ASSUME NEW t \in Threads, NEW k \in Tasks, Handle(t, k) PROVE Goal
  BY <1>18 DEF Handle, RealEvent, At, Ready, Trigger, Push, Move, Actors, queue, timing, ending, kernel
<1>19. ASSUME NEW t \in Threads, LeaveIdle(t) PROVE Goal
  BY <1>19 DEF LeaveIdle, At, Ready, Go, ControlInv, queue, timing, ending, kernel
<1>20. ASSUME NEW k \in Tasks, CancelEvent(k) PROVE Goal
  BY <1>20 DEF CancelEvent, Cancels, Ready, Trigger, Push, Move, Actors, queue, timing, ending, kernel
<1>21. ASSUME NEW k \in Tasks, BecomeReady(k) PROVE Goal
  BY <1>21 DEF BecomeReady, queue, timing, ending, kernel
<1>22. CASE StopBegin
  BY <1>22 DEF StopBegin, ControlInv, queue, timing, ending, kernel
<1>23. CASE StopTickles
  BY <1>23 DEF StopTickles, queue, timing, ending, kernel
<1>24. CASE StopRoot
  BY <1>24 DEF StopRoot, RunRoot, Proceed, Go, queue, timing, ending, kernel
<1>25. CASE Join
  BY <1>25 DEF Join, queue, timing, ending, kernel
<1>26. CASE Time
  BY <1>26 DEF Time, queue, timing, ending, kernel
<1>27. CASE UNCHANGED loop
  BY <1>27 DEF loop, queue, timing, ending, kernel
<1>28. ASSUME NEW t \in Threads, LookForTimers(t) PROVE Goal
  BY <1>28 DEF LookForTimers, At, Ready, Go, ControlInv, queue, timing, ending, kernel
<1> QED BY <1>1, <1>2, <1>3, <1>4, <1>5, <1>6, <1>7, <1>8, <1>9, <1>10, <1>11, <1>12, <1>13, <1>14, <1>15, <1>16, <1>17, <1>18, <1>19, <1>20, <1>21, <1>22, <1>23, <1>24, <1>25, <1>26, <1>27, <1>28 DEF Next, Call, Run, Crash, CancelCrash, Fail, Returns, Stop, Actors, vars

LEMMA WatchNext ==
  ASSUME UseCaller, Workers # {}, Fits(MAX_TIMEOUT), \A ms \in Delays : \A n \in 0..ms : Fits(n),
         LoopTypeOK, ControlInv, CountInv, TimersLeft, WithinDelay, ToldInv, WatchedInv, [Next]_vars
  PROVE  ToldInv' /\ WatchedInv'
<1>1. ASSUME NEW t \in Threads, AskTimers(t) PROVE ToldInv' /\ WatchedInv'
  <2>1. ToldInv'
    BY <1>1 DEF AskTimers, ToldInv
  <2>2. m_timers' = m_timers /\ UNCHANGED <<rem, late>>
    BY <1>1 DEF AskTimers, m_timers, ending
  <2>3. ASSUME NEW k \in m_timers PROVE SleepsFor(t, k)'
    <3>1. SleepFor(NextTimer) \in 0..rem[k] /\ rem[k] \in Nat
      BY <2>3, SleepEndsInTime DEF LoopTypeOK, m_timers
    <3>2. pc'[t] = "wait"
      BY <1>1, <2>3 DEF AskTimers, Sleep, Go, LoopTypeOK
    <3>3. next_timeout'[t] = IF SleepFor(NextTimer) < 0 THEN Forever ELSE SleepFor(NextTimer)
      BY <1>1, <2>3 DEF AskTimers, Sleep, LoopTypeOK
    <3>4. next_timeout'[t] \in 0..rem[k]
      BY <3>1, <3>3
    <3> QED BY <2>2, <3>2, <3>4 DEF SleepsFor
  <2> QED BY <2>1, <2>2, <2>3 DEF WatchedInv
<1>2. ASSUME NEW x \in Actors, NEW k \in Tasks, NEW ms \in Delays, AddTimer(x, k, ms)
      PROVE  ToldInv' /\ WatchedInv'
  <2>1. PICK first \in BOOLEAN :
          /\ first => \A j \in m_timers : ms <= rem[j]
          /\ ~first => \E j \in m_timers : ms >= rem[j]
          /\ m_tickled' = (m_tickled \/ first)
          /\ tickling' = [tickling EXCEPT ![x] = first /\ ~m_tickled]
    BY <1>2 DEF AddTimer
  <2>2. /\ place[k] = "new" /\ place' = [place EXCEPT ![k] = "timer"]
        /\ rem' = [rem EXCEPT ![k] = ms] /\ late \subseteq late' /\ ~tickling[x]
        /\ UNCHANGED <<pc, idleTerm, pipe, mainPc, next_timeout>>
    BY <1>2 DEF AddTimer, MayCall, Outside, Running, At, Ready, Move, Note, kernel
  <2>3. /\ m_timers' = m_timers \cup {k} /\ rem'[k] = ms
        /\ \A j \in m_timers : rem'[j] = rem[j] /\ j # k
    BY <2>2 DEF m_timers, LoopTypeOK
  <2>4. Roused => Roused'
    BY <2>1, <2>2 DEF Roused, Asks, Naps, SeesTimers, SeesEvents, SeesQueue, LoopTypeOK
  <2>5. \A j \in m_timers, t \in Threads : SleepsFor(t, j) => SleepsFor(t, j)'
    BY <2>2, <2>3 DEF SleepsFor
  <2>6. mainPc = "started" /\ first => Roused'
    <3> SUFFICES ASSUME mainPc = "started", first PROVE Roused'
      OBVIOUS
    <3>1. CASE m_tickled
      BY <2>4, <3>1 DEF ToldInv
    <3>2. CASE ~m_tickled
      <4>1. tickling'[x]
        BY <2>1, <3>2 DEF LoopTypeOK
      <4>2. PICK t \in Threads : Asks(t) \/ Naps(t)
        BY WorkersUp
      <4> QED BY <2>2, <4>1, <4>2 DEF Roused, Asks, Naps, SeesTimers, SeesEvents, SeesQueue
    <3> QED BY <3>1, <3>2
  <2>7. ToldInv'
    BY <2>1, <2>2, <2>4, <2>6 DEF ToldInv
  <2>8. k \notin late' => Roused' \/ \E t \in Threads : SleepsFor(t, k)'
    <3>1. CASE x # Client
      <4>1. x \in Threads /\ pc[x] = "exec" /\ (k \notin late' => ~idleTerm[x])
        BY <1>2, <3>1 DEF AddTimer, MayCall, Running, At, Note, Leaving, Actors
      <4> QED BY <2>2, <4>1 DEF Roused, Asks, SeesTimers, SeesEvents, SeesQueue
    <3>2. CASE x = Client
      <4>1. mainPc = "started" /\ late = {}
        BY <1>2, <3>2 DEF AddTimer, MayCall, Outside, ControlInv
      <4>2. CASE first
        BY <2>6, <4>1, <4>2
      <4>3. CASE ~first
        <5>1. PICK j \in m_timers : ms >= rem[j]
          BY <2>1, <4>3
        <5>2. Roused \/ \E t \in Threads : SleepsFor(t, j)
          BY <4>1 DEF WatchedInv
        <5>3. ms \in Nat /\ rem[j] \in Nat
          BY LoopAssumption DEF LoopTypeOK, m_timers
        <5>4. \A t \in Threads : SleepsFor(t, j) => SleepsFor(t, k)'
          BY <2>2, <2>3, <5>1, <5>3 DEF SleepsFor
        <5> QED BY <2>4, <5>2, <5>4
      <4> QED BY <4>2, <4>3
    <3> QED BY <3>1, <3>2
  <2>9. WatchedInv'
    BY <2>2, <2>3, <2>4, <2>5, <2>8 DEF WatchedInv
  <2> QED BY <2>7, <2>9
<1>3. CASE OnlyLeave
  <2>1. Roused /\ (mainPc = "started" \/ \E k \in m_timers : k \notin late) =>
          Roused' \/ \E t \in Threads : AskTimers(t)
    BY RousedStays
  <2>2. ASSUME ~\E t \in Threads : AskTimers(t) PROVE ToldInv'
    BY <1>3, <2>1, <2>2 DEF ToldInv, OnlyLeave
  <2>3. ASSUME ~\E t \in Threads : AskTimers(t), NEW k \in m_timers', k \notin late'
        PROVE  Roused' \/ \E t \in Threads : SleepsFor(t, k)'
    <3>1. k \in m_timers /\ k \notin late
      BY <1>3, <2>3 DEF OnlyLeave
    <3>2. CASE Roused
      BY <2>1, <2>3, <3>1, <3>2
    <3>3. CASE ~Roused
      <4>1. PICK t \in Threads : SleepsFor(t, k)
        BY <3>1, <3>3 DEF WatchedInv
      <4>2. Asks(t)' \/ SleepsFor(t, k)'
        BY <3>1, <4>1, SleepStays
      <4>3. Asks(t)' => Roused'
        BY DEF Roused
      <4> QED BY <4>2, <4>3
    <3> QED BY <3>2, <3>3
  <2>4. ASSUME ~\E t \in Threads : AskTimers(t) PROVE WatchedInv'
    BY <2>3, <2>4 DEF WatchedInv
  <2> QED BY <1>1, <2>2, <2>4
<1> QED BY <1>1, <1>2, <1>3, OthersOnlyLeave

LEMMA WatchInit == ASSUME Init PROVE WithinDelay /\ ToldInv /\ WatchedInv
<1>1. m_timers = {} /\ ~m_tickled
  BY DEF Init, m_timers
<1> QED BY <1>1 DEF WithinDelay, ToldInv, WatchedInv

(* A timer of an IOManager that uses its caller and has a worker is always  *)
(* watched, when no delay is too long for an int: a thread is up, is being  *)
(* woken, or sleeps no longer than the deadline.  No interleaving of        *)
(* addTimer(), tickle(), idle() and stop() leaves everybody asleep beyond   *)
(* a deadline, although addTimer() tickles only once for several new fronts *)
(* and tickle() writes nothing when nobody is counted as idle.              *)
THEOREM TimersStayWatched ==
  ASSUME UseCaller, Workers # {}, Fits(MAX_TIMEOUT), \A ms \in Delays : \A n \in 0..ms : Fits(n)
  PROVE  Spec => []TimersAreWatched
<1> DEFINE I == WithinDelay /\ ToldInv /\ WatchedInv
<1>1. Init => I
  BY WatchInit
<1>2. LoopInv /\ LeftInv /\ I /\ [Next]_vars => I'
  <2> SUFFICES ASSUME LoopInv, LeftInv, I, [Next]_vars PROVE I'
    OBVIOUS
  <2>1. LoopTypeOK /\ ControlInv /\ CountInv /\ TimersLeft
    BY DEF LoopInv, LeftInv
  <2>2. WithinDelay'
    BY <2>1, WithinDelayNext
  <2>3. ToldInv' /\ WatchedInv'
    BY <2>1, WatchNext
  <2> QED BY <2>2, <2>3
<1>3. LoopInv /\ I => TimersAreWatched
  <2> SUFFICES ASSUME LoopInv, I, NEW k \in m_timers, k \notin late PROVE SomeoneIsUp(rem[k])
    BY DEF TimersAreWatched
  <2>1. CASE Roused
    <3>1. (\E t \in Threads : Asks(t)) =>
            \E t \in Threads : pc[t] \notin {"off", "wait", "break", "exited"}
      BY DEF Asks, SeesTimers, SeesEvents, SeesQueue
    <3> QED BY <2>1, <3>1 DEF Roused, SomeoneIsUp
  <2>2. CASE \E t \in Threads : SleepsFor(t, k)
    BY <2>2 DEF SleepsFor, SomeoneIsUp
  <2> QED BY <2>1, <2>2 DEF WatchedInv
<1> QED BY <1>1, <1>2, <1>3, LoopInvariant, NothingOverlooked, PTL DEF Spec

-----------------------------------------------------------------------------
(* Queues without an entry twice.                                           *)

LEMMA RemoveDistinct ==
  ASSUME NEW S, NEW q \in Seq(S), NEW i \in DOMAIN q, NEW r, r = RemoveAt(q, i), Distinct(q)
  PROVE  Distinct(r) /\ \A e : Listed(r, e) <=> Listed(q, e) /\ e # q[i]
<1> DEFINE n == Len(q) - 1
           f(j) == IF j < i THEN j ELSE j + 1
<1>0. Len(q) \in Nat /\ i \in 1..Len(q) /\ DOMAIN q = 1..Len(q) /\ n \in Nat
  OBVIOUS
<1>1. DOMAIN r = 1..n /\ \A j \in 1..n : r[j] = q[f(j)]
  BY RemovedAt
<1>2. /\ \A j \in 1..n : f(j) \in DOMAIN q /\ f(j) # i
      /\ \A j, l \in 1..n : f(j) = f(l) => j = l
      /\ \A l \in DOMAIN q : l # i => \E j \in 1..n : f(j) = l
  <2>1. \A j \in 1..n : f(j) \in DOMAIN q /\ f(j) # i
    BY <1>0
  <2>2. \A j, l \in 1..n : f(j) = f(l) => j = l
    BY <1>0
  <2>3. ASSUME NEW l \in DOMAIN q, l # i PROVE \E j \in 1..n : f(j) = l
    <3>1. CASE l < i
      <4>1. l \in 1..n /\ f(l) = l
        BY <1>0, <3>1
      <4> QED BY <4>1
    <3>2. CASE ~(l < i)
      <4>1. l - 1 \in 1..n /\ f(l - 1) = l
        BY <1>0, <2>3, <3>2
      <4> QED BY <4>1
    <3> QED BY <3>1, <3>2
  <2> QED BY <2>1, <2>2, <2>3
<1> HIDE DEF n, f
<1>3. Distinct(r)
  BY <1>1, <1>2 DEF Distinct
<1>4. \A j \in 1..n : r[j] # q[i]
  BY <1>1, <1>2 DEF Distinct
<1>5. \A e : Listed(r, e) <=> Listed(q, e) /\ e # q[i]
  BY <1>1, <1>2, <1>4 DEF Listed
<1> QED BY <1>3, <1>5

LEMMA AddDistinct ==
  ASSUME NEW S, NEW q \in Seq(S), NEW e \in S, NEW r, r = Append(q, e), Distinct(q),
         \A j \in DOMAIN q : q[j].task # e.task
  PROVE  Distinct(r) /\ \A x : Listed(r, x) <=> Listed(q, x) \/ x = e
<1>1. /\ Len(q) \in Nat /\ DOMAIN q = 1..Len(q) /\ DOMAIN r = 1..(Len(q) + 1)
      /\ r[Len(q) + 1] = e /\ \A j \in DOMAIN q : r[j] = q[j]
  OBVIOUS
<1>2. DOMAIN r = DOMAIN q \cup {Len(q) + 1} /\ Len(q) + 1 \notin DOMAIN q
  BY <1>1
<1>3. Distinct(r)
  BY <1>1, <1>2 DEF Distinct
<1>4. \A x : Listed(r, x) <=> Listed(q, x) \/ x = e
  BY <1>1, <1>2 DEF Listed
<1> QED BY <1>3, <1>4

LEMMA JoinDistinct ==
  ASSUME NEW S, NEW q \in Seq(S), NEW u \in Seq(S), NEW r, r = q \o u, Distinct(q), Distinct(u),
         \A j \in DOMAIN q : \A l \in DOMAIN u : q[j].task # u[l].task
  PROVE  /\ Distinct(r)
         /\ \A e : Listed(r, e) <=> Listed(q, e) \/ Listed(u, e)
<1> DEFINE m == Len(q)
           n == Len(u)
<1>1. m \in Nat /\ n \in Nat /\ DOMAIN q = 1..m /\ DOMAIN u = 1..n /\ DOMAIN r = 1..(m + n)
  OBVIOUS
<1>2. /\ \A j \in 1..m : r[j] = q[j]
      /\ \A j \in 1..n : r[m + j] = u[j]
  BY <1>1
<1> HIDE DEF m, n
<1>3. \A j \in 1..(m + n) : j \in 1..m \/ \E l \in 1..n : j = m + l
  <2> SUFFICES ASSUME NEW j \in 1..(m + n), j \notin 1..m PROVE \E l \in 1..n : j = m + l
    OBVIOUS
  <2>1. j - m \in 1..n /\ j = m + (j - m)
    BY <1>1
  <2> QED BY <2>1
<1>4. /\ \A j \in 1..m : j \in 1..(m + n)
      /\ \A j \in 1..n : m + j \in 1..(m + n)
  BY <1>1
<1>5. ASSUME NEW j \in 1..(m + n), NEW l \in 1..(m + n), r[j].task = r[l].task PROVE j = l
  <2>1. CASE j \in 1..m /\ l \in 1..m
    BY <1>1, <1>2, <1>5, <2>1 DEF Distinct
  <2>2. CASE j \in 1..m /\ l \notin 1..m
    <3>1. PICK b \in 1..n : l = m + b
      BY <1>1, <1>2, <1>3, <2>2
    <3>2. r[j] = q[j] /\ r[l] = u[b]
      BY <1>1, <1>2, <2>2, <3>1
    <3> QED BY <1>1, <1>2, <1>5, <2>2, <3>2
  <2>3. CASE j \notin 1..m /\ l \in 1..m
    <3>1. PICK a \in 1..n : j = m + a
      BY <1>1, <1>2, <1>3, <2>3
    <3>2. r[j] = u[a] /\ r[l] = q[l]
      BY <1>1, <1>2, <2>3, <3>1
    <3> QED BY <1>1, <1>2, <1>5, <2>3, <3>2
  <2>4. CASE j \notin 1..m /\ l \notin 1..m
    <3>1. PICK a \in 1..n : j = m + a
      BY <1>1, <1>2, <1>3, <2>4
    <3>2. PICK b \in 1..n : l = m + b
      BY <1>1, <1>2, <1>3, <2>4
    <3>3. r[j] = u[a] /\ r[l] = u[b]
      BY <1>1, <1>2, <3>1, <3>2
    <3>4. a = b
      BY <1>1, <1>2, <1>5, <3>3, ZenonT(60) DEF Distinct
    <3> QED BY <3>1, <3>2, <3>4
  <2> QED BY <2>1, <2>2, <2>3, <2>4
<1>6. ASSUME NEW e PROVE Listed(r, e) <=> Listed(q, e) \/ Listed(u, e)
  <2>1. ASSUME NEW j \in 1..(m + n), r[j] = e
        PROVE  (\E l \in 1..m : q[l] = e) \/ \E l \in 1..n : u[l] = e
    BY <1>1, <1>2, <1>3, <2>1
  <2>2. ASSUME NEW j \in 1..m, q[j] = e PROVE \E l \in 1..(m + n) : r[l] = e
    BY <1>1, <1>2, <1>4, <2>2
  <2>3. ASSUME NEW j \in 1..n, u[j] = e PROVE \E l \in 1..(m + n) : r[l] = e
    BY <1>1, <1>2, <1>4, <2>3
  <2> QED BY <1>1, <1>2, <2>1, <2>2, <2>3 DEF Listed
<1>7. Distinct(r)
  BY <1>1, <1>2, <1>5 DEF Distinct
<1> QED BY <1>6, <1>7

(* A callback is stranded when its entry is lost, before a step ...         *)
LEMMA StrandedListed ==
  ASSUME LoopTypeOK, NEW k
  PROVE  Stranded(k) <=> \E e \in Entry : Listed(m_fibers, e) /\ e.task = k /\ Lost(e)
<1>1. \A i \in DOMAIN m_fibers : m_fibers[i] \in Entry
  BY DEF LoopTypeOK
<1> QED BY <1>1 DEF Stranded, Lost, Listed

LEMMA EntriesListed ==
  ASSUME LoopTypeOK
  PROVE  \A i \in DOMAIN m_fibers : m_fibers[i] \in Entry /\ Listed(m_fibers, m_fibers[i])
  BY DEF LoopTypeOK, Listed

(* What schedule() adds to the queue, and run() and idle() do to it         *)
LEMMA PushOnce ==
  ASSUME LoopTypeOK, QueueOnce, NEW x, NEW k \in Tasks, NEW thr \in Threads \cup {AnyThread},
         Push(x, k, thr), Move(k, "queued"), place[k] # "queued"
  PROVE  /\ QueueOnce'
         /\ \A e : Listed(m_fibers', e) <=> Listed(m_fibers, e) \/ e = [task |-> k, thread |-> thr]
<1> DEFINE f == [task |-> k, thread |-> thr]
<1>1. f \in Entry /\ f.task = k /\ m_fibers \in Seq(Entry) /\ m_fibers' = Append(m_fibers, f)
  BY DEF Entry, LoopTypeOK, Push
<1>2. Distinct(m_fibers) /\ \A j \in DOMAIN m_fibers : m_fibers[j].task # f.task
  BY EntriesListed DEF QueueOnce
<1> HIDE DEF f
<1>3. Distinct(m_fibers') /\ \A e : Listed(m_fibers', e) <=> Listed(m_fibers, e) \/ e = f
  BY <1>1, <1>2, AddDistinct
<1>4. \A j \in Tasks : place'[j] = IF j = k THEN "queued" ELSE place[j]
  BY DEF Move, LoopTypeOK
<1>5. \A e \in Entry : e.task \in Tasks
  BY DEF Entry
<1>6. \A e \in Entry : Listed(m_fibers', e) => place'[e.task] = "queued"
  BY <1>1, <1>3, <1>4, <1>5 DEF QueueOnce
<1>7. \A j \in Tasks : place'[j] = "queued" => \E e \in Entry : Listed(m_fibers', e) /\ e.task = j
  BY <1>1, <1>3, <1>4 DEF QueueOnce
<1>8. QueueOnce'
  BY <1>3, <1>6, <1>7 DEF QueueOnce
<1> QED BY <1>3, <1>8 DEF f

LEMMA TakeOnce ==
  ASSUME LoopTypeOK, QueueOnce, NEW t \in Threads, Take(t)
  PROVE  /\ QueueOnce'
         /\ \E f \in Entry :
              /\ Listed(m_fibers, f) /\ Runnable(t, f)
              /\ ft' = [ft EXCEPT ![t] = f.task] /\ place' = [place EXCEPT ![f.task] = "running"]
              /\ \A e : Listed(m_fibers', e) <=> Listed(m_fibers, e) /\ e # f
<1>1. PICK i \in DOMAIN m_fibers :
        /\ Runnable(t, m_fibers[i])
        /\ m_fibers' = RemoveAt(m_fibers, i)
        /\ ft' = [ft EXCEPT ![t] = m_fibers[i].task]
        /\ Move(m_fibers[i].task, "running")
  BY DEF Take
<1> DEFINE f == m_fibers[i]
<1>2. m_fibers \in Seq(Entry) /\ f \in Entry /\ Listed(m_fibers, f) /\ f.task \in Tasks
  BY EntriesListed DEF LoopTypeOK, Entry
<1>3. Distinct(m_fibers') /\ \A e : Listed(m_fibers', e) <=> Listed(m_fibers, e) /\ e # f
  BY <1>1, <1>2, RemoveDistinct DEF QueueOnce
<1>4. \A e : Listed(m_fibers, e) /\ e # f => e.task # f.task
  BY DEF QueueOnce, Distinct, Listed
<1> HIDE DEF f
<1>5. \A j \in Tasks : place'[j] = IF j = f.task THEN "running" ELSE place[j]
  BY <1>1 DEF Move, LoopTypeOK, f
<1>6. \A e \in Entry : e.task \in Tasks
  BY DEF Entry
<1>7. \A e \in Entry : Listed(m_fibers', e) => place'[e.task] = "queued"
  BY <1>3, <1>4, <1>5, <1>6 DEF QueueOnce
<1>8. \A j \in Tasks : place'[j] = "queued" => \E e \in Entry : Listed(m_fibers', e) /\ e.task = j
  BY <1>3, <1>5 DEF QueueOnce
<1>9. QueueOnce'
  BY <1>3, <1>7, <1>8 DEF QueueOnce
<1>10. Runnable(t, f) /\ ft' = [ft EXCEPT ![t] = f.task] /\ place' = [place EXCEPT ![f.task] = "running"]
  BY <1>1 DEF f, Move
<1> QED BY <1>2, <1>3, <1>9, <1>10

LEMMA SubmitOnce ==
  ASSUME LoopTypeOK, QueueOnce, HandOnce, NEW t \in Threads, Submit(t)
  PROVE  /\ QueueOnce'
         /\ \A e : Listed(m_fibers', e) <=>
              Listed(m_fibers, e) \/ \E k \in ToSet(cbs[t]) : e = [task |-> k, thread |-> AnyThread]
<1> DEFINE u == [i \in DOMAIN cbs[t] |-> [task |-> cbs[t][i], thread |-> AnyThread]]
<1>1. /\ cbs[t] \in Seq(Tasks) /\ DOMAIN cbs[t] = 1..Len(cbs[t]) /\ Len(cbs[t]) \in Nat
      /\ \A i \in DOMAIN cbs[t] : cbs[t][i] \in Tasks
  BY DEF LoopTypeOK
<1>2. \A k \in Tasks : [task |-> k, thread |-> AnyThread] \in Entry
  BY DEF Entry
<1>3. u \in Seq(Entry) /\ DOMAIN u = DOMAIN cbs[t] /\ \A i \in DOMAIN u : u[i].task = cbs[t][i]
  BY <1>1, <1>2
<1>4. \A e : Listed(u, e) <=> \E k \in ToSet(cbs[t]) : e = [task |-> k, thread |-> AnyThread]
  BY DEF Listed, ToSet
<1> HIDE DEF u
<1>5. m_fibers' = m_fibers \o u /\ m_fibers \in Seq(Entry)
  BY DEF Submit, u, LoopTypeOK
<1>6. Distinct(u)
  BY <1>3 DEF Distinct, HandOnce
<1>7. \A j \in DOMAIN m_fibers : \A l \in DOMAIN u : m_fibers[j].task # u[l].task
  <2>1. \A j \in DOMAIN m_fibers : place[m_fibers[j].task] = "queued"
    BY EntriesListed DEF QueueOnce
  <2>2. \A l \in DOMAIN u : place[u[l].task] = "taken"
    BY <1>3 DEF HandOnce
  <2> QED BY <2>1, <2>2
<1>8. Distinct(m_fibers') /\ \A e : Listed(m_fibers', e) <=> Listed(m_fibers, e) \/ Listed(u, e)
  <2>1. Distinct(m_fibers) /\ u \in Seq(Entry)
    BY <1>3 DEF QueueOnce
  <2> QED BY <1>5, <1>6, <1>7, <2>1, JoinDistinct
<1>9. \A j \in Tasks : place'[j] = IF j \in ToSet(cbs[t]) THEN "queued" ELSE place[j]
  BY DEF Submit
<1>10. \A e \in Entry : e.task \in Tasks
  BY DEF Entry
<1>11. \A e \in Entry : Listed(m_fibers', e) => place'[e.task] = "queued"
  BY <1>4, <1>8, <1>9, <1>10 DEF QueueOnce
<1>12. ASSUME NEW j \in Tasks, place'[j] = "queued"
       PROVE  \E e \in Entry : Listed(m_fibers', e) /\ e.task = j
  <2>1. CASE j \in ToSet(cbs[t])
    BY <1>2, <1>4, <1>8, <2>1
  <2>2. CASE j \notin ToSet(cbs[t])
    BY <1>8, <1>9, <1>12, <2>2 DEF QueueOnce
  <2> QED BY <2>1, <2>2
<1>13. QueueOnce'
  BY <1>8, <1>11, <1>12 DEF QueueOnce
<1> QED BY <1>4, <1>8, <1>13

-----------------------------------------------------------------------------
(* The IOManager as a pool of tasks.                                        *)

LEMMA PoolStutter ==
  ASSUME \A x \in Tasks : StatusOf(x)' = StatusOf(x),
         mainPc' = "stopped" <=> mainPc = "stopped"
  PROVE  UNCHANGED Pool!vars
  BY DEF Pool!vars

LEMMA PoolMove ==
  ASSUME NEW k \in Tasks, \A x \in Tasks : x # k => StatusOf(x)' = StatusOf(x),
         mainPc' = mainPc,
         \/ StatusOf(k) = "waiting" /\ StatusOf(k)' = "running"
         \/ StatusOf(k) = "running" /\ StatusOf(k)' = "ended"
  PROVE  Pool!Next
<1>1. [x \in Tasks |-> StatusOf(x)]' = [[x \in Tasks |-> StatusOf(x)] EXCEPT ![k] = StatusOf(k)']
  OBVIOUS
<1>2. (mainPc = "stopped")' = (mainPc = "stopped")
  OBVIOUS
<1> QED BY <1>1, <1>2 DEF Pool!Next, Pool!Run, Pool!Finish, Pool!Move

LEMMA PoolSubmit ==
  ASSUME NEW K \in SUBSET Tasks, K # {}, NEW to \in {"waiting", "stranded"},
         \A x \in Tasks \ K : StatusOf(x)' = StatusOf(x),
         \A x \in K : StatusOf(x) = "idle" /\ StatusOf(x)' = to,
         mainPc' = mainPc, mainPc # "stopped"
  PROVE  Pool!Next
<1>1. [x \in Tasks |-> StatusOf(x)]'
        = [x \in Tasks |-> IF x \in K THEN to ELSE [y \in Tasks |-> StatusOf(y)][x]]
  OBVIOUS
<1>2. \A x \in K : [y \in Tasks |-> StatusOf(y)][x] = "idle"
  OBVIOUS
<1>3. (mainPc = "stopped")' = (mainPc = "stopped")
  OBVIOUS
<1>4. Pool!Submit(K, to)
  BY <1>1, <1>2, <1>3 DEF Pool!Submit
<1> QED BY <1>4 DEF Pool!Next

(* What a callback is doing depends on its place and on its entry.          *)
LEMMA StatusKept ==
  ASSUME NEW k, place'[k] = place[k], place[k] = "queued" => (Stranded(k)' <=> Stranded(k))
  PROVE  StatusOf(k)' = StatusOf(k)
  BY DEF StatusOf

(* Steps that move no callback but from new to an event or a timer, and     *)
(* after which nobody has left for whom an entry waits                      *)
LEMMA QuietStep ==
  ASSUME LoopTypeOK, ControlInv, OnceInv, UNCHANGED <<m_fibers, cbs>>,
         \A j \in Tasks : place'[j] = place[j] \/ (place[j] \in Idle /\ place'[j] \in Idle),
         \A t \in Threads : pc'[t] = "exec" => pc[t] = "exec" /\ ft'[t] = ft[t],
         CallerOut',
         \A t \in Threads : (\E i \in DOMAIN m_fibers : Runnable(t, m_fibers[i])) => (Gone(t)' <=> Gone(t)),
         mainPc' = "stopped" <=> mainPc = "stopped"
  PROVE  OnceInv' /\ [Pool!Next]_(Pool!vars)
<1>1. \A j \in Tasks : place[j] \notin Idle => place'[j] = place[j]
  OBVIOUS
<1>2. \A j \in Tasks : place'[j] = "queued" <=> place[j] = "queued"
  BY DEF Idle
<1>3. \A e \in Entry : e.task \in Tasks
  BY DEF Entry
<1>4. QueueOnce'
  <2>1. \A e \in Entry : Listed(m_fibers', e) => place'[e.task] = "queued"
    BY <1>2, <1>3 DEF OnceInv, QueueOnce
  <2>2. \A k \in Tasks : place'[k] = "queued" => \E e \in Entry : Listed(m_fibers', e) /\ e.task = k
    BY <1>2 DEF OnceInv, QueueOnce
  <2> QED BY <2>1, <2>2 DEF OnceInv, QueueOnce
<1>5. HandOnce'
  <2>1. \A t \in Threads : cbs[t] \in Seq(Tasks) /\ \A i \in DOMAIN cbs[t] : cbs[t][i] \in Tasks
    BY DEF LoopTypeOK
  <2>2. \A t \in Threads : pc[t] = "exec" => ft[t] \in Tasks
    BY DEF ControlInv
  <2>3. \A t \in Threads : \A i \in DOMAIN cbs'[t] : place'[cbs'[t][i]] = "taken"
    BY <1>1, <2>1 DEF OnceInv, HandOnce, Idle
  <2>4. \A t \in Threads : pc'[t] = "exec" => place'[ft'[t]] = "running"
    BY <1>1, <2>2 DEF OnceInv, HandOnce, Idle
  <2> QED BY <2>3, <2>4 DEF OnceInv, HandOnce
<1>6. \A e \in Entry : Listed(m_fibers, e) => (Lost(e)' <=> Lost(e))
  BY DEF Listed, Lost, Runnable
<1>7. \A k \in Tasks : Stranded(k)' <=> Stranded(k)
  <2> SUFFICES ASSUME NEW k \in Tasks PROVE Stranded(k)' <=> Stranded(k)
    OBVIOUS
  <2>1. Stranded(k) <=> \E e \in Entry : Listed(m_fibers, e) /\ e.task = k /\ Lost(e)
    BY StrandedListed
  <2>2. Stranded(k)' <=> \E e \in Entry : Listed(m_fibers', e) /\ e.task = k /\ Lost(e)'
    BY EntriesListed DEF Stranded, Lost, Listed
  <2> QED BY <1>6, <2>1, <2>2
<1>8. ASSUME NEW k \in Tasks PROVE StatusOf(k)' = StatusOf(k)
  <2>1. CASE place'[k] = place[k]
    BY <1>7, <2>1, StatusKept
  <2>2. CASE place[k] \in Idle /\ place'[k] \in Idle
    BY <2>2 DEF StatusOf, Idle
  <2> QED BY <2>1, <2>2
<1>9. UNCHANGED Pool!vars
  BY <1>8, PoolStutter
<1> QED BY <1>4, <1>5, <1>9 DEF OnceInv

(* ... and after it.                                                        *)
LEMMA StrandedNext ==
  ASSUME LoopTypeOK', NEW k
  PROVE  Stranded(k)' <=> \E e \in Entry : Listed(m_fibers', e) /\ e.task = k /\ Lost(e)'
<1>1. \A i \in DOMAIN m_fibers' : m_fibers'[i] \in Entry
  BY DEF LoopTypeOK
<1> QED BY <1>1 DEF Stranded, Lost, Listed

(* What steps that leave the callbacks in hand alone keep *)
LEMMA HandOnceKept ==
  ASSUME LoopTypeOK, ControlInv, HandOnce, UNCHANGED <<cbs, pc, ft>>,
         \A j \in Tasks : place[j] \in {"taken", "running"} => place'[j] = place[j]
  PROVE  HandOnce'
<1>1. \A t \in Threads : cbs[t] \in Seq(Tasks) /\ \A i \in DOMAIN cbs[t] : cbs[t][i] \in Tasks
  BY DEF LoopTypeOK
<1>2. \A t \in Threads : pc[t] = "exec" => ft[t] \in Tasks
  BY DEF ControlInv
<1>3. \A t \in Threads : \A i \in DOMAIN cbs'[t] : place'[cbs'[t][i]] = "taken"
  BY <1>1 DEF HandOnce
<1>4. \A t \in Threads : pc'[t] = "exec" => place'[ft'[t]] = "running"
  BY <1>2 DEF HandOnce
<1> QED BY <1>3, <1>4 DEF HandOnce

(* A callback enters the queue through schedule(), by a client, by a task   *)
(* or by triggerEvent.                                                      *)
LEMMA PushStep ==
  ASSUME LoopTypeOK, LoopTypeOK', ControlInv, OnceInv,
         NEW x, NEW k \in Tasks, NEW thr \in Threads \cup {AnyThread},
         Push(x, k, thr), Move(k, "queued"), place[k] \in Idle,
         UNCHANGED <<cbs, pc, ft, mainPc>>, mainPc # "stopped"
  PROVE  OnceInv' /\ [Pool!Next]_(Pool!vars)
<1> DEFINE f == [task |-> k, thread |-> thr]
<1>1. place[k] # "queued" /\ QueueOnce /\ HandOnce
  BY DEF Idle, OnceInv
<1>2. QueueOnce' /\ \A e : Listed(m_fibers', e) <=> Listed(m_fibers, e) \/ e = f
  BY <1>1, PushOnce
<1>3. f \in Entry /\ f.task = k
  BY DEF Entry
<1> HIDE DEF f
<1>4. \A j \in Tasks : place'[j] = IF j = k THEN "queued" ELSE place[j]
  BY DEF Move, LoopTypeOK
<1>5. HandOnce'
  BY <1>1, <1>4, HandOnceKept DEF Idle
<1>6. \A e : Lost(e)' <=> Lost(e)
  BY DEF Lost, Gone, Runnable
<1>7. \A e \in Entry : e.task = k => ~Listed(m_fibers, e)
  BY <1>1 DEF QueueOnce
<1>8. \A j \in Tasks : j # k => StatusOf(j)' = StatusOf(j)
  <2> SUFFICES ASSUME NEW j \in Tasks, j # k PROVE StatusOf(j)' = StatusOf(j)
    OBVIOUS
  <2>1. Stranded(j)' <=> Stranded(j)
    BY <1>2, <1>3, <1>6, StrandedListed, StrandedNext
  <2> QED BY <1>4, <2>1, StatusKept
<1>9. Stranded(k)' <=> Lost(f)
  BY <1>2, <1>3, <1>6, <1>7, StrandedNext
<1> DEFINE to == IF Lost(f) THEN "stranded" ELSE "waiting"
<1>10. StatusOf(k) = "idle" /\ StatusOf(k)' = to
  BY <1>4, <1>9 DEF StatusOf, Idle
<1>11. to \in {"waiting", "stranded"}
  OBVIOUS
<1> HIDE DEF to
<1>12. Pool!Next
  <2>1. {k} \in SUBSET Tasks /\ {k} # {} /\ \A j \in Tasks \ {k} : StatusOf(j)' = StatusOf(j)
    BY <1>8
  <2>2. \A j \in {k} : StatusOf(j) = "idle" /\ StatusOf(j)' = to
    BY <1>10
  <2> QED BY <1>11, <2>1, <2>2, PoolSubmit
<1> QED BY <1>2, <1>5, <1>12 DEF OnceInv, CallerOut

(* A thread that may take an entry has not left run().                      *)
LEMMA TakerThere ==
  ASSUME ControlInv, OnceInv, NEW t \in Threads, pc[t] \notin {"off", "break", "exited"}
  PROVE  ~Gone(t)
  BY DEF ControlInv, OnceInv, CallerOut, Gone

(* run() takes a callback from the queue.                                   *)
LEMMA TakeStep ==
  ASSUME LoopTypeOK, LoopTypeOK', ControlInv, OnceInv, NEW t \in Threads, Take(t)
  PROVE  OnceInv' /\ [Pool!Next]_(Pool!vars)
<1>0. QueueOnce /\ HandOnce
  BY DEF OnceInv
<1>1. QueueOnce'
  BY <1>0, TakeOnce
<1>2. PICK f \in Entry :
        /\ Listed(m_fibers, f) /\ Runnable(t, f)
        /\ ft' = [ft EXCEPT ![t] = f.task] /\ place' = [place EXCEPT ![f.task] = "running"]
        /\ \A e : Listed(m_fibers', e) <=> Listed(m_fibers, e) /\ e # f
  BY <1>0, TakeOnce
<1> DEFINE k == f.task
<1>3. k \in Tasks /\ place[k] = "queued"
  BY <1>0, <1>2 DEF Entry, QueueOnce
<1>4. pc[t] = "scan" /\ pc' = [pc EXCEPT ![t] = "exec"] /\ UNCHANGED <<cbs, mainPc>>
  BY DEF Take, At, Go
<1> HIDE DEF k
<1>5. \A j \in Tasks : place'[j] = IF j = k THEN "running" ELSE place[j]
  BY <1>2 DEF LoopTypeOK, k
<1>6. HandOnce'
  <2>1. \A u \in Threads : cbs[u] \in Seq(Tasks) /\ \A i \in DOMAIN cbs[u] : cbs[u][i] \in Tasks
    BY DEF LoopTypeOK
  <2>2. \A u \in Threads : pc[u] = "exec" => ft[u] \in Tasks /\ place[ft[u]] = "running"
    BY <1>0 DEF ControlInv, HandOnce
  <2>3. \A u \in Threads : \A i \in DOMAIN cbs'[u] : place'[cbs'[u][i]] = "taken"
    BY <1>0, <1>3, <1>4, <1>5, <2>1 DEF HandOnce
  <2>4. /\ pc'[t] = "exec" /\ ft'[t] = k
        /\ \A u \in Threads : u # t => pc'[u] = pc[u] /\ ft'[u] = ft[u]
    BY <1>2, <1>4 DEF LoopTypeOK, k
  <2>5. \A u \in Threads : pc'[u] = "exec" => place'[ft'[u]] = "running"
    BY <1>3, <1>5, <2>2, <2>4
  <2>6. \A u, v \in Threads : u # v /\ pc'[u] = "exec" /\ pc'[v] = "exec" => ft'[u] # ft'[v]
    BY <1>0, <1>3, <2>2, <2>4 DEF HandOnce
  <2> QED BY <1>0, <1>4, <2>3, <2>5, <2>6 DEF HandOnce
<1>7. \A u \in Threads : Gone(u)' <=> Gone(u)
  BY <1>4 DEF Gone, LoopTypeOK
<1>8. \A e : Lost(e)' <=> Lost(e)
  BY <1>7 DEF Lost, Runnable
<1>9. \A e : Listed(m_fibers, e) /\ e # f => e.task # k
  BY <1>0, <1>2 DEF QueueOnce, Distinct, Listed, k
<1>10. ~Stranded(k)
  <2>1. ~Lost(f)
    BY <1>2, <1>4, TakerThere DEF Lost
  <2> QED BY <1>9, <2>1, StrandedListed
<1>11. StatusOf(k) = "waiting" /\ StatusOf(k)' = "running"
  BY <1>3, <1>5, <1>10 DEF StatusOf
<1>12. \A j \in Tasks : j # k => StatusOf(j)' = StatusOf(j)
  <2> SUFFICES ASSUME NEW j \in Tasks, j # k PROVE StatusOf(j)' = StatusOf(j)
    OBVIOUS
  <2>1. Stranded(j)' <=> Stranded(j)
    BY <1>2, <1>8, StrandedListed, StrandedNext DEF k
  <2> QED BY <1>5, <2>1, StatusKept
<1>13. Pool!Next
  BY <1>3, <1>4, <1>11, <1>12, PoolMove
<1>14. CallerOut'
  BY <1>4 DEF OnceInv, CallerOut, LoopTypeOK
<1> QED BY <1>1, <1>6, <1>13, <1>14 DEF OnceInv

(* The callback returns.                                                    *)
LEMMA FinishStep ==
  ASSUME LoopTypeOK, LoopTypeOK', ControlInv, OnceInv, NEW t \in Threads, Finish(t)
  PROVE  OnceInv' /\ [Pool!Next]_(Pool!vars)
<1>0. QueueOnce /\ HandOnce
  BY DEF OnceInv
<1> PICK k : k = ft[t]
  OBVIOUS
<1>1. /\ pc[t] = "exec" /\ pc' = [pc EXCEPT ![t] = "scan"] /\ ft' = [ft EXCEPT ![t] = None]
      /\ UNCHANGED <<m_fibers, cbs, mainPc>> /\ place' = [place EXCEPT ![k] = "done"]
  BY DEF Finish, Running, At, Go, Move
<1>2. k \in Tasks /\ place[k] = "running"
  BY <1>0, <1>1 DEF ControlInv, HandOnce
<1>3. \A u \in Threads : u # t => pc'[u] = pc[u] /\ ft'[u] = ft[u] /\ (pc[u] = "exec" => ft[u] # k)
  BY <1>0, <1>1 DEF LoopTypeOK, HandOnce
<1>4. pc'[t] = "scan" /\ \A j \in Tasks : place'[j] = IF j = k THEN "done" ELSE place[j]
  BY <1>1 DEF LoopTypeOK
<1>5. QueueOnce'
  <2>1. \A e \in Entry : e.task \in Tasks
    BY DEF Entry
  <2>2. \A e \in Entry : Listed(m_fibers', e) => place'[e.task] = "queued"
    BY <1>0, <1>1, <1>2, <1>4, <2>1 DEF QueueOnce
  <2>3. \A j \in Tasks : place'[j] = "queued" => \E e \in Entry : Listed(m_fibers', e) /\ e.task = j
    BY <1>0, <1>1, <1>4 DEF QueueOnce
  <2> QED BY <1>0, <1>1, <2>2, <2>3 DEF QueueOnce
<1>6. HandOnce'
  <2>1. \A u \in Threads : cbs[u] \in Seq(Tasks) /\ \A i \in DOMAIN cbs[u] : cbs[u][i] \in Tasks
    BY DEF LoopTypeOK
  <2>2. \A u \in Threads : \A i \in DOMAIN cbs'[u] : place'[cbs'[u][i]] = "taken"
    BY <1>0, <1>1, <1>2, <1>4, <2>1 DEF HandOnce
  <2>3. \A u \in Threads : pc'[u] = "exec" => u # t /\ place'[ft'[u]] = "running"
    BY <1>0, <1>3, <1>4 DEF HandOnce, ControlInv
  <2>4. \A u, v \in Threads : u # v /\ pc'[u] = "exec" /\ pc'[v] = "exec" => ft'[u] # ft'[v]
    BY <1>0, <1>3, <2>3 DEF HandOnce
  <2> QED BY <1>0, <1>1, <2>2, <2>3, <2>4 DEF HandOnce
<1>7. \A u \in Threads : Gone(u)' <=> Gone(u)
  BY <1>1 DEF Gone, LoopTypeOK
<1>8. \A e : Lost(e)' <=> Lost(e)
  BY <1>7 DEF Lost, Runnable
<1>9. StatusOf(k) = "running" /\ StatusOf(k)' = "ended"
  BY <1>2, <1>4 DEF StatusOf
<1>10. \A j \in Tasks : j # k => StatusOf(j)' = StatusOf(j)
  <2> SUFFICES ASSUME NEW j \in Tasks, j # k PROVE StatusOf(j)' = StatusOf(j)
    OBVIOUS
  <2>1. Stranded(j)' <=> Stranded(j)
    BY <1>1, <1>8, StrandedListed, StrandedNext
  <2> QED BY <1>4, <2>1, StatusKept
<1>11. Pool!Next
  BY <1>1, <1>2, <1>9, <1>10, PoolMove
<1>12. CallerOut'
  BY <1>1 DEF OnceInv, CallerOut, LoopTypeOK
<1> QED BY <1>5, <1>6, <1>11, <1>12 DEF OnceInv

(* listExpiredCb submits every callback whose deadline has come, once.      *)
LEMMA ListStep ==
  ASSUME LoopTypeOK, LoopTypeOK', ControlInv, CountInv, OnceInv, NEW t \in Threads, ListExpired(t)
  PROVE  OnceInv' /\ [Pool!Next]_(Pool!vars)
<1>0. QueueOnce /\ HandOnce
  BY DEF OnceInv
<1>1. PICK s \in SetToSeqs(Expired) : cbs' = [cbs EXCEPT ![t] = s]
  BY DEF ListExpired
<1>2. IsFiniteSet(Expired) /\ Expired \subseteq Tasks /\ \A j \in Expired : place[j] = "timer"
  BY FS_Subset DEF CountInv, Expired, m_timers
<1>3. ToSet(s) = Expired /\ \A i, j \in DOMAIN s : s[i] = s[j] => i = j
  BY <1>2, SeqsHoldTheirSet
<1>4. cbs'[t] = s /\ \A u \in Threads : u # t => cbs'[u] = cbs[u]
  BY <1>1 DEF LoopTypeOK
<1>5. /\ \A j \in Tasks : place'[j] = IF j \in Expired THEN "taken" ELSE place[j]
      /\ pc[t] = "listing" /\ pc' = [pc EXCEPT ![t] = "submit"] /\ UNCHANGED <<m_fibers, ft, mainPc>>
  BY DEF ListExpired, At, Go, queue
<1>6. QueueOnce'
  <2>1. \A e \in Entry : e.task \in Tasks
    BY DEF Entry
  <2>2. \A j \in Tasks : place'[j] = "queued" <=> place[j] = "queued"
    BY <1>2, <1>5
  <2>3. \A e \in Entry : Listed(m_fibers', e) => place'[e.task] = "queued"
    BY <1>0, <1>5, <2>1, <2>2 DEF QueueOnce
  <2>4. \A j \in Tasks : place'[j] = "queued" => \E e \in Entry : Listed(m_fibers', e) /\ e.task = j
    BY <1>0, <1>5, <2>2 DEF QueueOnce
  <2> QED BY <1>0, <1>5, <2>3, <2>4 DEF QueueOnce
<1>7. HandOnce'
  <2>1. \A u \in Threads : \A i \in DOMAIN cbs[u] : cbs[u][i] \in Tasks /\ place[cbs[u][i]] = "taken"
    BY <1>0 DEF LoopTypeOK, HandOnce
  <2>2. ASSUME NEW u \in Threads, NEW i \in DOMAIN cbs'[u] PROVE place'[cbs'[u][i]] = "taken"
    <3>1. CASE u = t
      BY <1>2, <1>3, <1>4, <1>5, <3>1 DEF ToSet
    <3>2. CASE u # t
      BY <1>2, <1>4, <1>5, <2>1, <3>2
    <3> QED BY <3>1, <3>2
  <2>3. \A u \in Threads : \A i, j \in DOMAIN cbs'[u] : cbs'[u][i] = cbs'[u][j] => i = j
    BY <1>0, <1>3, <1>4 DEF HandOnce
  <2>4. pc'[t] = "submit" /\ \A u \in Threads : u # t => pc'[u] = pc[u]
    BY <1>5 DEF LoopTypeOK
  <2>5. \A u \in Threads : pc'[u] = "exec" => place'[ft'[u]] = "running"
    BY <1>0, <1>2, <1>5, <2>4 DEF HandOnce, ControlInv
  <2>6. \A u \in Threads : ToSet(cbs[u]) \cap Expired = {}
    BY <1>2, <2>1 DEF ToSet
  <2>7. \A u, v \in Threads : u # v => ToSet(cbs'[u]) \cap ToSet(cbs'[v]) = {}
    BY <1>0, <1>3, <1>4, <2>6 DEF HandOnce
  <2>8. \A u, v \in Threads : u # v /\ pc'[u] = "exec" /\ pc'[v] = "exec" => ft'[u] # ft'[v]
    BY <1>0, <1>5, <2>4 DEF HandOnce
  <2> QED BY <2>2, <2>3, <2>5, <2>7, <2>8 DEF HandOnce
<1>8. \A u \in Threads : Gone(u)' <=> Gone(u)
  BY <1>5 DEF Gone, LoopTypeOK
<1>9. \A e : Lost(e)' <=> Lost(e)
  BY <1>8 DEF Lost, Runnable
<1>10. \A j \in Tasks \ Expired : StatusOf(j)' = StatusOf(j)
  <2> SUFFICES ASSUME NEW j \in Tasks \ Expired PROVE StatusOf(j)' = StatusOf(j)
    OBVIOUS
  <2>1. Stranded(j)' <=> Stranded(j)
    BY <1>5, <1>9, StrandedListed, StrandedNext
  <2> QED BY <1>5, <2>1, StatusKept
<1>11. \A j \in Expired : StatusOf(j) = "idle" /\ StatusOf(j)' = "waiting"
  BY <1>2, <1>5 DEF StatusOf
<1>12. mainPc # "stopped"
  BY <1>5 DEF ControlInv, Threads
<1>13. ASSUME Expired = {} PROVE [Pool!Next]_(Pool!vars)
  <2>1. UNCHANGED Pool!vars
    <3>1. \A j \in Tasks : StatusOf(j)' = StatusOf(j)
      BY <1>10, <1>13
    <3>2. mainPc' = "stopped" <=> mainPc = "stopped"
      BY <1>5
    <3> QED BY <3>1, <3>2, PoolStutter
  <2> QED BY <2>1
<1>14. ASSUME Expired # {} PROVE [Pool!Next]_(Pool!vars)
  <2> PICK K : K = Expired
    OBVIOUS
  <2>1. /\ K \in SUBSET Tasks /\ K # {} /\ mainPc' = mainPc
        /\ \A j \in Tasks \ K : StatusOf(j)' = StatusOf(j)
        /\ \A j \in K : StatusOf(j) = "idle" /\ StatusOf(j)' = "waiting"
    BY <1>2, <1>5, <1>10, <1>11, <1>14
  <2>2. PICK to : to = "waiting"
    OBVIOUS
  <2>3. to \in {"waiting", "stranded"} /\ \A j \in K : StatusOf(j) = "idle" /\ StatusOf(j)' = to
    BY <2>1, <2>2
  <2>4. Pool!Next
    BY <1>12, <2>1, <2>3, PoolSubmit
  <2> QED BY <2>4
<1>15. CallerOut'
  BY <1>5 DEF OnceInv, CallerOut, LoopTypeOK
<1> QED BY <1>6, <1>7, <1>13, <1>14, <1>15 DEF OnceInv

(* The expired callbacks enter the queue: for the pool they waited already. *)
LEMMA SubmitStep ==
  ASSUME LoopTypeOK, LoopTypeOK', ControlInv, OnceInv, NEW t \in Threads, Submit(t)
  PROVE  OnceInv' /\ [Pool!Next]_(Pool!vars)
<1>0. QueueOnce /\ HandOnce
  BY DEF OnceInv
<1> PICK K : K = ToSet(cbs[t])
  OBVIOUS
<1>1. QueueOnce' /\ \A e : Listed(m_fibers', e) <=>
                       Listed(m_fibers, e) \/ \E k \in K : e = [task |-> k, thread |-> AnyThread]
  BY <1>0, SubmitOnce
<1>2. K \subseteq Tasks /\ \A k \in K : place[k] = "taken"
  BY <1>0 DEF ToSet, HandOnce, LoopTypeOK
<1>3. /\ pc[t] = "submit" /\ pc' = [pc EXCEPT ![t] = "handle"] /\ UNCHANGED <<ft, mainPc>>
      /\ cbs' = [cbs EXCEPT ![t] = <<>>]
      /\ \A j \in Tasks : place'[j] = IF j \in K THEN "queued" ELSE place[j]
  BY DEF Submit, At, Go
<1>4. /\ pc'[t] = "handle" /\ cbs'[t] = <<>>
      /\ \A u \in Threads : u # t => pc'[u] = pc[u] /\ cbs'[u] = cbs[u]
  BY <1>3 DEF LoopTypeOK
<1>5. HandOnce'
  <2>1. \A u \in Threads : u # t => \A i \in DOMAIN cbs[u] : cbs[u][i] \in Tasks \ K
    <3>1. \A u \in Threads : u # t => ToSet(cbs[u]) \cap K = {}
      BY <1>0 DEF HandOnce
    <3>2. \A u \in Threads : \A i \in DOMAIN cbs[u] : cbs[u][i] \in Tasks /\ cbs[u][i] \in ToSet(cbs[u])
      BY DEF LoopTypeOK, ToSet
    <3> QED BY <3>1, <3>2
  <2>2. DOMAIN <<>> = {} /\ ToSet(<<>>) = {}
    BY DEF ToSet
  <2>3. \A u \in Threads : \A i \in DOMAIN cbs'[u] : place'[cbs'[u][i]] = "taken"
    BY <1>0, <1>3, <1>4, <2>1, <2>2 DEF HandOnce
  <2>4. \A u \in Threads : \A i, j \in DOMAIN cbs'[u] : cbs'[u][i] = cbs'[u][j] => i = j
    BY <1>0, <1>4, <2>2 DEF HandOnce
  <2>5. \A u \in Threads : pc'[u] = "exec" => u # t /\ pc[u] = "exec" /\ place'[ft'[u]] = "running"
    BY <1>0, <1>2, <1>3, <1>4 DEF HandOnce, ControlInv
  <2>6. \A u, v \in Threads : u # v => ToSet(cbs'[u]) \cap ToSet(cbs'[v]) = {}
    BY <1>0, <1>4, <2>2 DEF HandOnce
  <2>7. \A u, v \in Threads : u # v /\ pc'[u] = "exec" /\ pc'[v] = "exec" => ft'[u] # ft'[v]
    BY <1>0, <1>3, <2>5 DEF HandOnce
  <2> QED BY <2>3, <2>4, <2>5, <2>6, <2>7 DEF HandOnce
<1>6. (\A u \in Threads : Gone(u)' <=> Gone(u)) /\ ~Gone(t)
  BY <1>3, TakerThere DEF Gone, LoopTypeOK
<1>7. \A e : Lost(e)' <=> Lost(e)
  BY <1>6 DEF Lost, Runnable
<1>8. ASSUME NEW j \in Tasks \ K PROVE StatusOf(j)' = StatusOf(j)
  <2>1. \A e : Listed(m_fibers', e) /\ e.task = j <=> Listed(m_fibers, e) /\ e.task = j
    BY <1>1
  <2>2. Stranded(j)' <=> Stranded(j)
    BY <1>7, <2>1, StrandedListed, StrandedNext
  <2> QED BY <1>3, <2>2, StatusKept
<1>9. ASSUME NEW k \in K PROVE StatusOf(k)' = StatusOf(k)
  <2>1. k \in Tasks /\ place[k] = "taken" /\ place'[k] = "queued"
    BY <1>2, <1>3
  <2>2. \A e \in Entry : Listed(m_fibers, e) => e.task # k
    BY <1>0, <2>1 DEF QueueOnce
  <2>3. \A e \in Entry : Listed(m_fibers', e) /\ e.task = k => e.thread = AnyThread
    BY <1>1, <2>2
  <2>4. \A e \in Entry : e.thread = AnyThread => ~Lost(e)
    BY <1>6 DEF Lost, Runnable
  <2>5. ~Stranded(k)'
    BY <1>7, <2>3, <2>4, StrandedNext
  <2> QED BY <2>1, <2>5 DEF StatusOf
<1>10. UNCHANGED Pool!vars
  <2>1. \A j \in Tasks : StatusOf(j)' = StatusOf(j)
    BY <1>8, <1>9
  <2>2. mainPc' = "stopped" <=> mainPc = "stopped"
    BY <1>3
  <2> QED BY <2>1, <2>2, PoolStutter
<1>11. CallerOut'
  BY <1>3 DEF OnceInv, CallerOut, LoopTypeOK
<1> QED BY <1>1, <1>5, <1>10, <1>11 DEF OnceInv

(* stop() returns when nothing waits and nothing runs.                      *)
LEMMA JoinStep ==
  ASSUME LoopTypeOK, LoopTypeOK', ControlInv, HandInv, OnceInv, Join
  PROVE  OnceInv' /\ [Pool!Next]_(Pool!vars)
<1>0. QueueOnce /\ HandOnce
  BY DEF OnceInv
<1>1. mainPc = "joining" /\ mainPc' = "stopped" /\ UNCHANGED <<m_fibers, cbs, pc, ft, place>>
  BY DEF Join, queue
<1>2. \A t \in Threads : pc[t] \in {"off", "exited"} /\ Gone(t) /\ Gone(t)'
  BY <1>1 DEF Join, ControlInv, Threads, Gone
<1>3. \A e : Lost(e) /\ Lost(e)'
  BY <1>2 DEF Lost
<1>4. OnceInv'
  <2>1. HandOnce'
    BY <1>0, <1>1, HandOnceKept
  <2>2. QueueOnce'
    BY <1>0, <1>1 DEF QueueOnce
  <2> QED BY <1>1, <2>1, <2>2 DEF OnceInv, CallerOut
<1>5. ASSUME NEW k \in Tasks PROVE StatusOf(k)' = StatusOf(k) /\ StatusOf(k) \notin {"waiting", "running"}
  <2>1. place[k] \notin {"taken", "running"}
    BY <1>2 DEF HandInv
  <2>2. place[k] = "queued" => Stranded(k) /\ Stranded(k)'
    BY <1>0, <1>1, <1>3, StrandedListed, StrandedNext DEF QueueOnce
  <2>3. place'[k] = place[k] /\ place[k] \in Places
    BY <1>1 DEF LoopTypeOK
  <2> QED BY <2>1, <2>2, <2>3 DEF StatusOf, Places
<1>6. Pool!Close
  <2>1. [k \in Tasks |-> StatusOf(k)]' = [k \in Tasks |-> StatusOf(k)]
    BY <1>5
  <2>2. \A k \in Tasks : [j \in Tasks |-> StatusOf(j)][k] \notin {"waiting", "running"}
    BY <1>5
  <2>3. (mainPc = "stopped") = FALSE /\ (mainPc = "stopped")' = TRUE
    BY <1>1
  <2> QED BY <2>1, <2>2, <2>3 DEF Pool!Close
<1> QED BY <1>4, <1>6 DEF Pool!Next

(* A thread goes on within run() and idle().                                *)
LEMMA GoStep ==
  ASSUME LoopTypeOK, ControlInv, OnceInv, NEW t \in Threads,
         NEW w \in {"scan", "enter", "idle", "asked", "quiet", "leave", "wait", "expire",
                "listing", "handle"},
         pc[t] \notin {"off", "break", "exited"}, Go(t, w),
         UNCHANGED <<m_fibers, cbs, ft, place, mainPc>>
  PROVE  OnceInv' /\ [Pool!Next]_(Pool!vars)
<1>1. \A u \in Threads : pc'[u] = IF u = t THEN w ELSE pc[u]
  BY DEF Go, LoopTypeOK
<1>2. \A u \in Threads : pc'[u] = "exec" => pc[u] = "exec" /\ ft'[u] = ft[u]
  BY <1>1
<1>3. \A u \in Threads : Gone(u)' <=> Gone(u)
  BY <1>1 DEF Gone
<1>4. CallerOut'
  BY <1>1 DEF OnceInv, CallerOut, Threads
<1> QED BY <1>2, <1>3, <1>4, QuietStep

(* Every step of an IOManager is a step of TaskPool or changes nothing that *)
(* TaskPool sees.                                                           *)
LEMMA PoolNext ==
  ASSUME LoopTypeOK, LoopTypeOK', ControlInv, CountInv, HandInv, OnceInv, [Next]_vars
  PROVE  OnceInv' /\ [Pool!Next]_(Pool!vars)
<1>1. ASSUME NEW x \in Actors, Tickle(x) PROVE OnceInv' /\ [Pool!Next]_(Pool!vars)
  BY <1>1, QuietStep DEF OnceInv, CallerOut, Gone, Idle, LoopTypeOK, Tickle, queue, timing, ending, kernel
<1>2. ASSUME NEW x \in Actors, CountDown(x) PROVE OnceInv' /\ [Pool!Next]_(Pool!vars)
  BY <1>2, QuietStep DEF OnceInv, CallerOut, Gone, Idle, LoopTypeOK, CountDown, queue, timing, ending, kernel
<1>3. ASSUME NEW x \in Actors, NEW k \in Tasks, NEW thr \in Pins \cup {AnyThread}, Schedule(x, k, thr) PROVE OnceInv' /\ [Pool!Next]_(Pool!vars)
  <2>1. Push(x, k, thr) /\ Move(k, "queued") /\ UNCHANGED <<cbs, pc, ft, mainPc>> /\ place[k] \in Idle
    BY <1>3 DEF Schedule, Idle
  <2>2. mainPc # "stopped"
    BY <1>3 DEF Schedule, MayCall, Outside, Running, At, Actors, Threads, ControlInv
  <2>3. thr \in Threads \cup {AnyThread}
    BY LoopAssumption DEF Threads
  <2> QED BY <2>1, <2>2, <2>3, PushStep
<1>4. ASSUME NEW x \in Actors, NEW k \in Tasks, AddEvent(x, k) PROVE OnceInv' /\ [Pool!Next]_(Pool!vars)
  BY <1>4, QuietStep DEF OnceInv, CallerOut, Gone, Idle, LoopTypeOK, AddEvent, MayCall, Outside, Running, Move, Note, Leaving, At, Ready, queue, timing, ending, kernel
<1>5. ASSUME NEW x \in Actors, NEW k \in Tasks, NEW ms \in Delays, AddTimer(x, k, ms) PROVE OnceInv' /\ [Pool!Next]_(Pool!vars)
  BY <1>5, QuietStep DEF OnceInv, CallerOut, Gone, Idle, LoopTypeOK, AddTimer, MayCall, Outside, Running, Move, Note, Leaving, At, Ready, queue, timing, ending, kernel
<1>6. ASSUME NEW t \in Threads, Take(t) PROVE OnceInv' /\ [Pool!Next]_(Pool!vars)
  BY <1>6, TakeStep
<1>7. ASSUME NEW t \in Threads, Finish(t) PROVE OnceInv' /\ [Pool!Next]_(Pool!vars)
  BY <1>7, FinishStep
<1>8. ASSUME NEW t \in Threads, ScanNothing(t) PROVE OnceInv' /\ [Pool!Next]_(Pool!vars)
  <2>1. /\ pc[t] = "scan" /\ (\A i \in DOMAIN m_fibers : ~Runnable(t, m_fibers[i]))
        /\ \E w \in {"break", "enter"} : Go(t, w)
    BY <1>8 DEF ScanNothing, At
  <2>2. UNCHANGED <<m_fibers, cbs, ft, place, mainPc>>
    BY <1>8 DEF ScanNothing, queue
  <2>3. \A u \in Threads : u # t => pc'[u] = pc[u]
    BY <2>1 DEF Go, LoopTypeOK
  <2>4. pc'[t] \in {"break", "enter"}
    BY <2>1 DEF Go, LoopTypeOK
  <2>5. \A u \in Threads : u # t => (Gone(u)' <=> Gone(u))
    BY <2>2, <2>3 DEF Gone
  <2>6. CallerOut'
    BY <2>1, <2>2, <2>3 DEF OnceInv, CallerOut, Threads
  <2>7. \A u \in Threads : pc'[u] = "exec" => pc[u] = "exec" /\ ft'[u] = ft[u]
    BY <2>2, <2>3, <2>4
  <2> QED BY <2>1, <2>2, <2>5, <2>6, <2>7, QuietStep
<1>9. ASSUME NEW t \in Threads, EnterIdle(t) PROVE OnceInv' /\ [Pool!Next]_(Pool!vars)
  <2>1. pc[t] = "enter" /\ (\E w \in {"idle"} : Go(t, w)) /\ UNCHANGED <<m_fibers, cbs, ft, place, mainPc>>
    BY <1>9 DEF EnterIdle, At, queue
  <2> QED BY <2>1, GoStep
<1>10. ASSUME NEW t \in Threads, Break(t) PROVE OnceInv' /\ [Pool!Next]_(Pool!vars)
  <2>1. pc[t] = "break" /\ pc' = [pc EXCEPT ![t] = "exited"] /\ UNCHANGED <<m_fibers, cbs, ft, place>>
    BY <1>10 DEF Break, At, Go, queue
  <2>2. mainPc' = IF t = Caller THEN "joining" ELSE mainPc
    BY <1>10 DEF Break
  <2>3. \A u \in Threads : pc'[u] = IF u = t THEN "exited" ELSE pc[u]
    BY <2>1 DEF LoopTypeOK
  <2>4. mainPc # "stopped"
    BY <2>1 DEF ControlInv, Threads
  <2>5. \A u \in Threads : Gone(u)' <=> Gone(u)
    BY <2>1, <2>2, <2>3 DEF Gone
  <2>6. CallerOut'
    BY <2>1, <2>2, <2>3 DEF OnceInv, CallerOut, Threads
  <2>7. \A u \in Threads : pc'[u] = "exec" => pc[u] = "exec" /\ ft'[u] = ft[u]
    BY <2>1, <2>3
  <2>8. mainPc' = "stopped" <=> mainPc = "stopped"
    BY <2>2, <2>4
  <2> QED BY <2>1, <2>5, <2>6, <2>7, <2>8, QuietStep
<1>11. ASSUME NEW t \in Threads, AskTimers(t) PROVE OnceInv' /\ [Pool!Next]_(Pool!vars)
  <2>1. pc[t] = "idle" /\ (\E w \in {"asked", "wait"} : Go(t, w)) /\ UNCHANGED <<m_fibers, cbs, ft, place, mainPc>>
    BY <1>11 DEF AskTimers, At, Sleep, queue
  <2> QED BY <2>1, GoStep
<1>12. ASSUME NEW t \in Threads, AskEvents(t) PROVE OnceInv' /\ [Pool!Next]_(Pool!vars)
  <2>1. pc[t] = "asked" /\ (\E w \in {"quiet", "wait"} : Go(t, w)) /\ UNCHANGED <<m_fibers, cbs, ft, place, mainPc>>
    BY <1>12 DEF AskEvents, At, Sleep, queue
  <2> QED BY <2>1, GoStep
<1>13. ASSUME NEW t \in Threads, AskQueue(t) PROVE OnceInv' /\ [Pool!Next]_(Pool!vars)
  <2>1. pc[t] = "quiet" /\ (\E w \in {"leave", "wait"} : Go(t, w)) /\ UNCHANGED <<m_fibers, cbs, ft, place, mainPc>>
    BY <1>13 DEF AskQueue, At, Sleep, queue
  <2> QED BY <2>1, GoStep
<1>14. ASSUME NEW t \in Threads, EpollReturns(t) PROVE OnceInv' /\ [Pool!Next]_(Pool!vars)
  <2>1. pc[t] = "wait" /\ (\E w \in {"expire"} : Go(t, w)) /\ UNCHANGED <<m_fibers, cbs, ft, place, mainPc>>
    BY <1>14 DEF EpollReturns, At, queue
  <2> QED BY <2>1, GoStep
<1>15. ASSUME NEW t \in Threads, ListExpired(t) PROVE OnceInv' /\ [Pool!Next]_(Pool!vars)
  BY <1>15, ListStep
<1>16. ASSUME NEW t \in Threads, Submit(t) PROVE OnceInv' /\ [Pool!Next]_(Pool!vars)
  BY <1>16, SubmitStep
<1>17. ASSUME NEW t \in Threads, Drain(t) PROVE OnceInv' /\ [Pool!Next]_(Pool!vars)
  BY <1>17, QuietStep DEF OnceInv, CallerOut, Gone, Idle, LoopTypeOK, Drain, At, Ready, queue, timing, ending, kernel
<1>18. ASSUME NEW t \in Threads, NEW k \in Tasks, Handle(t, k) PROVE OnceInv' /\ [Pool!Next]_(Pool!vars)
  <2>0. CASE place[k] # "event"
    BY <1>18, <2>0, QuietStep DEF Handle, RealEvent, OnceInv, CallerOut, Gone
  <2>1. CASE place[k] = "event"
    <3>1. Push(t, k, AnyThread) /\ Move(k, "queued") /\ UNCHANGED <<cbs, pc, ft, mainPc>> /\ place[k] \in Idle
      BY <1>18, <2>1 DEF Handle, RealEvent, Trigger, Idle
    <3>2. mainPc # "stopped"
      BY <1>18 DEF Handle, At, Threads, ControlInv
    <3>3. AnyThread \in Threads \cup {AnyThread}
      OBVIOUS
    <3> QED BY <3>1, <3>2, <3>3, PushStep
  <2> QED BY <2>0, <2>1
<1>19. ASSUME NEW t \in Threads, LeaveIdle(t) PROVE OnceInv' /\ [Pool!Next]_(Pool!vars)
  <2>1. /\ pc[t] \in {"handle", "leave"} /\ (\E w \in {"scan"} : Go(t, w))
        /\ UNCHANGED <<m_fibers, cbs, ft, place, mainPc>>
    BY <1>19 DEF LeaveIdle, At, queue
  <2> QED BY <2>1, GoStep
<1>20. ASSUME NEW k \in Tasks, CancelEvent(k) PROVE OnceInv' /\ [Pool!Next]_(Pool!vars)
  <2>1. Push(Client, k, AnyThread) /\ Move(k, "queued") /\ UNCHANGED <<cbs, pc, ft, mainPc>> /\ place[k] \in Idle
    BY <1>20 DEF CancelEvent, Cancels, Trigger, Idle
  <2>2. mainPc # "stopped"
    BY <1>20 DEF CancelEvent, Cancels
  <2> QED BY <2>1, <2>2, PushStep
<1>21. ASSUME NEW k \in Tasks, BecomeReady(k) PROVE OnceInv' /\ [Pool!Next]_(Pool!vars)
  BY <1>21, QuietStep DEF OnceInv, CallerOut, Gone, Idle, LoopTypeOK, BecomeReady, queue, timing, ending, kernel
<1>22. CASE StopBegin
  BY <1>22, QuietStep DEF OnceInv, CallerOut, Gone, Idle, LoopTypeOK, StopBegin, queue, timing, ending, kernel
<1>23. CASE StopTickles
  BY <1>23, QuietStep DEF OnceInv, CallerOut, Gone, Idle, LoopTypeOK, StopTickles, queue, timing, ending, kernel
<1>24. CASE StopRoot
  <2>1. UNCHANGED <<m_fibers, cbs, ft, place>> /\ mainPc \in {"root", "asked", "quiet"}
    BY <1>24 DEF StopRoot, queue
  <2>2. mainPc' # "stopped"
    BY <1>24 DEF StopRoot, RunRoot, Proceed
  <2>3. pc[Caller] = "off" /\ Caller \in Threads
    BY <2>1 DEF ControlInv, Calls, Threads
  <2>4. /\ \A u \in Threads : u # Caller => pc'[u] = pc[u]
        /\ pc'[Caller] = "off" \/ (UseCaller /\ pc'[Caller] = "scan" /\ mainPc' = "called")
    BY <1>24, <2>3 DEF StopRoot, RunRoot, Proceed, Go, LoopTypeOK, OnceInv, CallerOut
  <2>5. ASSUME NEW u \in Threads, \E i \in DOMAIN m_fibers : Runnable(u, m_fibers[i])
        PROVE  Gone(u)' <=> Gone(u)
    <3>1. m_fibers # <<>>
      BY <2>5
    <3>2. ~UseCaller \/ mainPc' # "joining"
      BY <1>24, <3>1 DEF StopRoot, RunRoot, Proceed, QueueStops
    <3> QED BY <2>1, <2>2, <2>3, <2>4, <3>2 DEF Gone
  <2>6. CallerOut'
    BY <1>24, <2>3, <2>4 DEF OnceInv, CallerOut, StopRoot, Proceed
  <2>7. \A u \in Threads : pc'[u] = "exec" => pc[u] = "exec" /\ ft'[u] = ft[u]
    BY <2>1, <2>4
  <2> QED BY <2>1, <2>2, <2>5, <2>6, <2>7, QuietStep
<1>25. CASE Join
  BY <1>25, JoinStep
<1>26. CASE Time
  BY <1>26, QuietStep DEF OnceInv, CallerOut, Gone, Idle, LoopTypeOK, Time, queue, timing, ending, kernel
<1>27. CASE UNCHANGED loop
  BY <1>27, QuietStep DEF OnceInv, CallerOut, Gone, Idle, LoopTypeOK, loop, queue, timing, ending, kernel
<1>28. ASSUME NEW t \in Threads, LookForTimers(t) PROVE OnceInv' /\ [Pool!Next]_(Pool!vars)
  <2>1. pc[t] = "expire" /\ (\E w \in {"handle", "listing"} : Go(t, w)) /\ UNCHANGED <<m_fibers, cbs, ft, place, mainPc>>
    BY <1>28 DEF LookForTimers, At, queue
  <2> QED BY <2>1, GoStep
<1> QED BY <1>1, <1>2, <1>3, <1>4, <1>5, <1>6, <1>7, <1>8, <1>9, <1>10, <1>11, <1>12, <1>13, <1>14, <1>15, <1>16, <1>17, <1>18, <1>19, <1>20, <1>21, <1>22, <1>23, <1>24, <1>25, <1>26, <1>27, <1>28 DEF Next, Call, Run, Crash, CancelCrash, Fail, Returns, Stop, Actors, vars

(* Every IOManager implements TaskPool, for any number of threads and       *)
(* callbacks, with and without use_caller: whatever schedule(), events,     *)
(* deadlines and cancelEvent do at once, a callback that was submitted is   *)
(* run exactly once, no thread leaves run() while an entry waits that only  *)
(* it might take, and stop() returns with no callback waiting or running.   *)
THEOREM IOManagerImplementsTaskPool == Spec => ImplementsTaskPool
<1>1. Init => OnceInv
  <2> SUFFICES ASSUME Init PROVE OnceInv
    OBVIOUS
  <2>1. DOMAIN m_fibers = {} /\ \A t \in Threads : DOMAIN cbs[t] = {} /\ ToSet(cbs[t]) = {}
    BY DEF Init, ToSet
  <2>2. QueueOnce
    BY <2>1 DEF Init, QueueOnce, Distinct, Listed
  <2>3. HandOnce
    BY <2>1 DEF Init, HandOnce
  <2>4. CallerOut
    BY LoopAssumption DEF Init, Threads, CallerOut
  <2> QED BY <2>2, <2>3, <2>4 DEF OnceInv
<1>2. Init => Pool!Init
  <2> SUFFICES ASSUME Init PROVE Pool!Init
    OBVIOUS
  <2>1. \A k \in Tasks : StatusOf(k) = "idle"
    BY DEF Init, StatusOf
  <2>2. (mainPc = "stopped") = FALSE
    BY DEF Init
  <2> QED BY <2>1, <2>2 DEF Pool!Init
<1>3. LoopInv /\ LoopInv' /\ OnceInv /\ [Next]_vars => OnceInv' /\ [Pool!Next]_(Pool!vars)
  BY PoolNext DEF LoopInv
<1> QED BY <1>1, <1>2, <1>3, LoopInvariant, PTL DEF Spec, ImplementsTaskPool, Pool!Spec

=============================================================================
