--------------------------- MODULE IOManagerLoop ---------------------------
(***************************************************************************)
(* An IOManager as a whole: run() of the scheduler with the idle(),        *)
(* tickle() and stopping() that IOManager puts in the place of the         *)
(* scheduler's own, over the pipe, the timers and the events that wake a   *)
(* thread sleeping in epoll_wait.  A task is a callback that is submitted, *)
(* registered for the event of a descriptor of its own, or given to a      *)
(* timer, and that runs once.  Fibers that yield, the life of an FdContext *)
(* and the set of timers are the subject of Schedular, IOManager and       *)
(* TimerManager; this module is about the wake-ups between them.           *)
(*                                                                         *)
(* Time is what is left of every deadline and of every epoll_wait.  An int *)
(* has IntBits bits and a uint64_t twice as many.  The jump of the clock   *)
(* that listExpiredCb looks for is the subject of TimerManager.            *)
(***************************************************************************)
EXTENDS Integers, Sequences, FiniteSets, SequencesExt

CONSTANTS
  Workers,     \* the threads start() creates
  Caller,      \* the thread that constructs and stops the IOManager
  UseCaller,   \* the constructor's use_caller
  Client,      \* a thread of the program that is no thread of the scheduler
  Tasks,       \* the callbacks
  Pins,        \* the threads that callers of schedule() name
  AnyThread,   \* thread == -1
  None,        \* no task
  Pipe,        \* the report of the read end of m_tickleFds
  IntBits,     \* width of int
  MAX_TIMEOUT, \* the longest sleep of idle()
  Delays       \* the delays that timers are added with

Threads == Workers \cup {Caller}
Actors  == Threads \cup {Client}

ASSUME LoopAssumption ==
  /\ IsFiniteSet(Workers) /\ Caller \notin Workers /\ UseCaller \in BOOLEAN
  /\ Client \notin Threads /\ AnyThread \notin Threads
  /\ Pins \subseteq Workers
  /\ None \notin Tasks /\ Pipe \notin Tasks
  /\ IntBits \in Nat \ {0, 1} /\ Delays \subseteq Nat
  /\ MAX_TIMEOUT \in Nat \ {0} /\ MAX_TIMEOUT < 2 ^ (IntBits - 1)

VARIABLES
  m_fibers, m_activeThreadCount, m_idleThreadCount,
  m_stopping,          \* m_autoStop && m_stopping
  m_pendingEventCount,
  m_tickled,           \* a thread was told of the front of the timers
  pc,                  \* where each thread is in run() and idle()
  ft,                  \* the task a thread took from the queue
  idleTerm,            \* the thread's idle fiber has ended
  late,                \* history: timers and events added by a task that ran on
                       \* a thread whose idle fiber had ended
  next_timeout,        \* what is left of the sleep of a thread
  cbs,                 \* the callbacks listExpiredCb gave to a thread
  hot,                 \* the reports of epoll_wait a thread has not handled
  tickling,            \* the actor is about to call tickle()
  owes,                \* the actor is about to do --m_pendingEventCount
  place,               \* where each task is
  rem,                 \* what is left of the deadline of a task's timer
  pipe,                \* kernel: the pipe holds a byte
  ready,               \* kernel: the tasks whose descriptor is ready
  edge,                \* kernel: the ready descriptors not yet reported
  mainPc,              \* where the owner is in the life of the IOManager
  unowned,             \* the tasks whose EventContext has a null schedular
  crashed              \* the program followed a null or an end() pointer

queue  == <<m_fibers, m_activeThreadCount>>
kernel == <<pipe, ready, edge>>
timing == <<m_tickled, rem>>
ending == <<idleTerm, late>>
failing == <<unowned, crashed>>
loop == <<queue, m_idleThreadCount, m_stopping, m_pendingEventCount, timing, pc,
          ft, ending, next_timeout, cbs, hot, tickling, owes, place, kernel,
          mainPc>>
vars == <<loop, failing>>

Entry   == [task : Tasks, thread : Threads \cup {AnyThread}]
Forever == -1

-----------------------------------------------------------------------------
(* (int)n for an n of twice the width *)
ToInt(n) ==
  LET low == n % 2 ^ IntBits IN
  IF low >= 2 ^ (IntBits - 1) THEN low - 2 ^ IntBits ELSE low
(* ~0ull *)
NoTimer == 2 ^ (2 * IntBits) - 1

(* Mutant: with no timer idle() sleeps until something happens. *)
SleepUnbounded(timeout) ==
  IF timeout = NoTimer THEN -1
  ELSE ToInt(IF ToInt(timeout) > MAX_TIMEOUT THEN MAX_TIMEOUT ELSE timeout)
(* Mutant: the nearest deadline is not looked at. *)
SleepMax(timeout) == MAX_TIMEOUT
(* The timeout idle() hands to epoll_wait; a negative one has no end. *)
SleepFor(timeout) ==
  IF timeout # NoTimer
  THEN ToInt(IF ToInt(timeout) > MAX_TIMEOUT THEN MAX_TIMEOUT ELSE timeout)
  ELSE MAX_TIMEOUT

m_timers == {k \in Tasks : place[k] = "timer"}
(* getNextTimer *)
NextTimer ==
  IF m_timers = {} THEN NoTimer
  ELSE CHOOSE d \in {rem[k] : k \in m_timers} : \A k \in m_timers : d <= rem[k]

(* IOManager::stopping reads the timers, the count of events and, under the *)
(* mutex of the scheduler, its queue, one after the other; the first that   *)
(* keeps the IOManager alive ends it.                                       *)
(* Mutant: a registered event does not keep the IOManager alive. *)
EventsIgnored == TRUE
NoEvents      == m_pendingEventCount = 0
QueueStops    == m_stopping /\ m_fibers = <<>> /\ m_activeThreadCount = 0

(* schedule: the task enters the queue, and tickle() is to be called when   *)
(* the queue was empty                                                      *)
NeedTickle == m_fibers = <<>>
Push(x, k, thr) ==
  /\ m_fibers' = Append(m_fibers, [task |-> k, thread |-> thr])
  /\ tickling' = [tickling EXCEPT ![x] = NeedTickle]
Move(k, to)  == place' = [place EXCEPT ![k] = to]
Go(t, to)    == pc' = [pc EXCEPT ![t] = to]
(* An actor does its next step once the calls it is in have returned. *)
Ready(x)     == ~tickling[x] /\ ~owes[x]
At(t, where) == pc[t] = where /\ Ready(t)

Running(t)   == At(t, "exec")
Outside      == mainPc = "started" /\ Ready(Client)
(* Whether x is a thread that does not look at timers and events again: it  *)
(* only takes what it finds in its last scan.                               *)
Leaving(x)   == x # Client /\ idleTerm[x]
Note(x, k)   == late' = IF Leaving(x) THEN late \cup {k} ELSE late
(* Where a client or the body of a task may call the IOManager from *)
MayCall(x)   == IF x = Client THEN Outside ELSE Running(x)

Runnable(t, e) == e.thread \in {AnyThread, t}
Foreign(t)     == \E i \in DOMAIN m_fibers : ~Runnable(t, m_fibers[i])

-----------------------------------------------------------------------------
(* The constructor ends with start(). *)
Init ==
  /\ m_fibers = <<>> /\ m_activeThreadCount = 0 /\ m_idleThreadCount = 0
  /\ m_stopping = FALSE /\ m_pendingEventCount = 0 /\ m_tickled = FALSE
  /\ pc = [t \in Threads |-> IF t \in Workers THEN "scan" ELSE "off"]
  /\ ft = [t \in Threads |-> None]
  /\ idleTerm = [t \in Threads |-> FALSE] /\ late = {}
  /\ next_timeout = [t \in Threads |-> 0]
  /\ cbs = [t \in Threads |-> <<>>]
  /\ hot = [t \in Threads |-> {}]
  /\ tickling = [x \in Actors |-> FALSE]
  /\ owes = [x \in Actors |-> FALSE]
  /\ place = [k \in Tasks |-> "new"]
  /\ rem = [k \in Tasks |-> 0]
  /\ pipe = FALSE /\ ready = {} /\ edge = {}
  /\ mainPc = "started" /\ unowned = {} /\ crashed = FALSE

-----------------------------------------------------------------------------
(* Calls of the IOManager by a client and by the bodies of tasks.          *)

(* tickle: nothing is written while no thread is counted as idle *)
Tickle(x) ==
  /\ tickling[x]
  /\ tickling' = [tickling EXCEPT ![x] = FALSE]
  /\ pipe' = (pipe \/ m_idleThreadCount > 0)
  /\ UNCHANGED <<queue, m_idleThreadCount, m_stopping, m_pendingEventCount,
                 timing, pc, ft, ending, next_timeout, cbs, hot, owes, place,
                 ready, edge, mainPc, failing>>

(* schedule(cb, thread) *)
Schedule(x, k, thr) ==
  /\ MayCall(x) /\ place[k] = "new"
  /\ Push(x, k, thr)
  /\ Move(k, "queued")
  /\ UNCHANGED <<m_activeThreadCount, m_idleThreadCount, m_stopping,
                 m_pendingEventCount, timing, pc, ft, ending, next_timeout,
                 cbs, hot, owes, kernel, mainPc, failing>>

(* addEvent(fd, READ, cb), on a descriptor that is not yet ready: the event *)
(* is kept with Schedular::GetThis(), which is null on a thread outside     *)
(* the scheduler.                                                           *)
AddEvent(x, k) ==
  /\ MayCall(x) /\ place[k] = "new"
  /\ m_pendingEventCount' = m_pendingEventCount + 1
  /\ Move(k, "event") /\ Note(x, k)
  /\ unowned' = IF x = Client THEN unowned \cup {k} ELSE unowned
  /\ UNCHANGED <<queue, m_idleThreadCount, m_stopping, timing, pc, ft,
                 idleTerm, next_timeout, cbs, hot, tickling, owes, kernel,
                 mainPc, crashed>>

(* addTimer(ms, cb): of two timers with one deadline either may be first.   *)
AddTimer(x, k, ms) ==
  /\ MayCall(x) /\ place[k] = "new"
  /\ Move(k, "timer") /\ Note(x, k)
  /\ rem' = [rem EXCEPT ![k] = ms]
  /\ \E first \in BOOLEAN :
       /\ first => \A j \in m_timers : ms <= rem[j]
       /\ ~first => \E j \in m_timers : ms >= rem[j]
       /\ m_tickled' = (m_tickled \/ first)
       /\ tickling' = [tickling EXCEPT ![x] = first /\ ~m_tickled]
  /\ UNCHANGED <<queue, m_idleThreadCount, m_stopping, m_pendingEventCount, pc,
                 ft, idleTerm, next_timeout, cbs, hot, owes, kernel, mainPc,
                 failing>>

(* triggerEvent: the callback enters the queue, the count goes down after;  *)
(* it needs the scheduler of the event.                                     *)
Trigger(x, k) ==
  /\ k \notin unowned
  /\ Push(x, k, AnyThread)
  /\ Move(k, "queued")
  /\ owes' = [owes EXCEPT ![x] = TRUE]

(* cancelEvent(fd, READ), by a client also while stop() waits *)
Cancels(k) == Ready(Client) /\ mainPc # "stopped" /\ place[k] = "event"
CancelEvent(k) ==
  /\ Cancels(k)
  /\ Trigger(Client, k)
  /\ edge' = edge \ {k}
  /\ UNCHANGED <<m_activeThreadCount, m_idleThreadCount, m_stopping,
                 m_pendingEventCount, timing, pc, ft, ending, next_timeout,
                 cbs, hot, pipe, ready, mainPc, failing>>
(* Mutant: the count is not taken down. *)
CountDownForgotten(x) ==
  /\ owes[x] /\ ~tickling[x]
  /\ owes' = [owes EXCEPT ![x] = FALSE]
  /\ UNCHANGED <<queue, m_idleThreadCount, m_stopping, m_pendingEventCount,
                 timing, pc, ft, ending, next_timeout, cbs, hot, tickling,
                 place, kernel, mainPc, failing>>
(* --m_pendingEventCount, after triggerEvent and its schedule() returned *)
CountDown(x) ==
  /\ owes[x] /\ ~tickling[x]
  /\ owes' = [owes EXCEPT ![x] = FALSE]
  /\ m_pendingEventCount' = m_pendingEventCount - 1
  /\ UNCHANGED <<queue, m_idleThreadCount, m_stopping, timing, pc, ft, ending,
                 next_timeout, cbs, hot, tickling, place, kernel, mainPc,
                 failing>>

-----------------------------------------------------------------------------
(* run() on thread t.                                                      *)

(* The scan: the first entry for this thread, and tickle_me when an entry   *)
(* was passed over or is left behind the one that was taken.                *)
Take(t) ==
  /\ At(t, "scan")
  /\ \E i \in DOMAIN m_fibers :
       /\ Runnable(t, m_fibers[i])
       /\ \A j \in 1..(i - 1) : ~Runnable(t, m_fibers[j])
       /\ m_fibers' = RemoveAt(m_fibers, i)
       /\ ft' = [ft EXCEPT ![t] = m_fibers[i].task]
       /\ Move(m_fibers[i].task, "running")
  /\ tickling' = [tickling EXCEPT ![t] = Len(m_fibers) > 1]
  /\ m_activeThreadCount' = m_activeThreadCount + 1
  /\ Go(t, "exec")
  /\ UNCHANGED <<m_idleThreadCount, m_stopping, m_pendingEventCount, timing,
                 ending, next_timeout, cbs, hot, owes, kernel, mainPc,
                 failing>>

(* The callback returns. *)
Finish(t) ==
  /\ Running(t)
  /\ Move(ft[t], "done")
  /\ ft' = [ft EXCEPT ![t] = None]
  /\ m_activeThreadCount' = m_activeThreadCount - 1
  /\ Go(t, "scan")
  /\ UNCHANGED <<m_fibers, m_idleThreadCount, m_stopping, m_pendingEventCount,
                 timing, ending, next_timeout, cbs, hot, tickling, owes,
                 kernel, mainPc, failing>>

(* Nothing for this thread: the scan is over before the thread is counted. *)
ScanNothing(t) ==
  /\ At(t, "scan")
  /\ \A i \in DOMAIN m_fibers : ~Runnable(t, m_fibers[i])
  /\ tickling' = [tickling EXCEPT ![t] = Foreign(t)]
  /\ Go(t, IF idleTerm[t] THEN "break" ELSE "enter")
  /\ UNCHANGED <<queue, m_idleThreadCount, m_stopping, m_pendingEventCount,
                 timing, ft, ending, next_timeout, cbs, hot, owes, place,
                 kernel, mainPc, failing>>
EnterIdle(t) ==
  /\ At(t, "enter")
  /\ m_idleThreadCount' = m_idleThreadCount + 1
  /\ Go(t, "idle")
  /\ UNCHANGED <<queue, m_stopping, m_pendingEventCount, timing, ft, ending,
                 next_timeout, cbs, hot, tickling, owes, place, kernel, mainPc,
                 failing>>

(* The idle fiber has ended and so does run(); on the caller's thread       *)
(* stop() goes on.                                                          *)
Break(t) ==
  /\ At(t, "break")
  /\ Go(t, "exited")
  /\ mainPc' = IF t = Caller THEN "joining" ELSE mainPc
  /\ UNCHANGED <<queue, m_idleThreadCount, m_stopping, m_pendingEventCount,
                 timing, ft, ending, next_timeout, cbs, hot, tickling, owes,
                 place, kernel, failing>>

-----------------------------------------------------------------------------
(* IOManager::idle on thread t.                                            *)

(* stopping(next_timeout) answers no and idle() sleeps, or it goes on to    *)
(* its next question; after the last one the idle fiber ends.               *)
Sleep(t, timeout) ==
  /\ LET ms == SleepFor(timeout) IN
       next_timeout' = [next_timeout EXCEPT ![t] = IF ms < 0 THEN Forever ELSE ms]
  /\ Go(t, "wait")
AskTimers(t) ==
  /\ At(t, "idle")
  /\ m_tickled' = FALSE
  /\ IF m_timers = {} THEN Go(t, "asked") /\ UNCHANGED next_timeout
     ELSE Sleep(t, NextTimer)
  /\ UNCHANGED <<queue, m_idleThreadCount, m_stopping, m_pendingEventCount,
                 rem, ft, ending, cbs, hot, tickling, owes, place, kernel,
                 mainPc, failing>>
AskEvents(t) ==
  /\ At(t, "asked")
  /\ IF NoEvents THEN Go(t, "quiet") /\ UNCHANGED next_timeout
     ELSE Sleep(t, NoTimer)
  /\ UNCHANGED <<queue, m_idleThreadCount, m_stopping, m_pendingEventCount,
                 timing, ft, ending, cbs, hot, tickling, owes, place, kernel,
                 mainPc, failing>>
AskQueue(t) ==
  /\ At(t, "quiet")
  /\ IF QueueStops THEN Go(t, "leave") /\ UNCHANGED next_timeout
     ELSE Sleep(t, NoTimer)
  /\ idleTerm' = [idleTerm EXCEPT ![t] = QueueStops]
  /\ UNCHANGED <<queue, m_idleThreadCount, m_stopping, m_pendingEventCount,
                 timing, ft, late, cbs, hot, tickling, owes, place, kernel,
                 mainPc, failing>>

(* epoll_wait returns with what there is, or when its time is over. *)
Wakes(t) == pipe \/ edge # {} \/ next_timeout[t] = 0
EpollReturns(t) ==
  /\ At(t, "wait") /\ Wakes(t)
  /\ hot' = [hot EXCEPT ![t] = edge \cup (IF pipe THEN {Pipe} ELSE {})]
  /\ edge' = {}
  /\ next_timeout' = [next_timeout EXCEPT ![t] = 0]
  /\ Go(t, "expire")
  /\ UNCHANGED <<queue, m_idleThreadCount, m_stopping, m_pendingEventCount,
                 timing, ft, ending, cbs, tickling, owes, place, pipe, ready,
                 mainPc, failing>>

(* listExpiredCb looks for timers under the read lock, which it gives back; *)
(* the callbacks leave the timers under the write lock ...                  *)
LookForTimers(t) ==
  /\ At(t, "expire")
  /\ Go(t, IF m_timers = {} THEN "handle" ELSE "listing")
  /\ UNCHANGED <<queue, m_idleThreadCount, m_stopping, m_pendingEventCount,
                 timing, ft, ending, next_timeout, cbs, hot, tickling, owes,
                 place, kernel, mainPc, failing>>
Expired == {k \in m_timers : rem[k] = 0}
ListExpired(t) ==
  /\ At(t, "listing") /\ m_timers # {}
  /\ \E s \in SetToSeqs(Expired) : cbs' = [cbs EXCEPT ![t] = s]
  /\ place' = [k \in Tasks |-> IF k \in Expired THEN "taken" ELSE place[k]]
  /\ Go(t, "submit")
  /\ UNCHANGED <<queue, m_idleThreadCount, m_stopping, m_pendingEventCount,
                 timing, ft, ending, next_timeout, hot, tickling, owes, kernel,
                 mainPc, failing>>
(* ... and enter the queue later, all under one lock *)
Submit(t) ==
  /\ At(t, "submit")
  /\ m_fibers' = m_fibers \o [i \in DOMAIN cbs[t] |->
                                [task |-> cbs[t][i], thread |-> AnyThread]]
  /\ tickling' = [tickling EXCEPT ![t] = cbs[t] # <<>> /\ NeedTickle]
  /\ place' = [k \in Tasks |-> IF k \in ToSet(cbs[t]) THEN "queued" ELSE place[k]]
  /\ cbs' = [cbs EXCEPT ![t] = <<>>]
  /\ Go(t, "handle")
  /\ UNCHANGED <<m_activeThreadCount, m_idleThreadCount, m_stopping,
                 m_pendingEventCount, timing, ft, ending, next_timeout, hot,
                 owes, kernel, mainPc, failing>>

(* The pipe is read until it is empty. *)
Drain(t) ==
  /\ At(t, "handle") /\ Pipe \in hot[t]
  /\ hot' = [hot EXCEPT ![t] = @ \ {Pipe}]
  /\ pipe' = FALSE
  /\ UNCHANGED <<queue, m_idleThreadCount, m_stopping, m_pendingEventCount,
                 timing, pc, ft, ending, next_timeout, cbs, tickling, owes,
                 place, ready, edge, mainPc, failing>>
(* Mutant: what epoll reported is triggered although it was cancelled. *)
Reported(k)  == TRUE
RealEvent(k) == place[k] = "event"
(* A reported event is triggered if it is still registered. *)
Handle(t, k) ==
  /\ At(t, "handle") /\ k \in hot[t]
  /\ hot' = [hot EXCEPT ![t] = @ \ {k}]
  /\ IF RealEvent(k)
       THEN Trigger(t, k)
       ELSE UNCHANGED <<m_fibers, tickling, place, owes>>
  /\ UNCHANGED <<m_activeThreadCount, m_idleThreadCount, m_stopping,
                 m_pendingEventCount, timing, pc, ft, ending, next_timeout,
                 cbs, kernel, mainPc, failing>>

(* The idle fiber switches out, or has ended, and run() goes on. *)
LeaveIdle(t) ==
  /\ \/ At(t, "handle") /\ hot[t] = {}
     \/ At(t, "leave")
  /\ m_idleThreadCount' = m_idleThreadCount - 1
  /\ Go(t, "scan")
  /\ UNCHANGED <<queue, m_stopping, m_pendingEventCount, timing, ft, ending,
                 next_timeout, cbs, hot, tickling, owes, place, kernel, mainPc,
                 failing>>

(* The end of the program: triggerEvent follows the null scheduler of an    *)
(* event, or listExpiredCb the begin() of the timers that another thread    *)
(* has emptied since this one looked.                                       *)
Follows(t) ==
  \/ At(t, "handle") /\ \E k \in hot[t] \cap unowned : RealEvent(k)
  \/ At(t, "listing") /\ m_timers = {}
Fail ==
  /\ crashed' = TRUE
  /\ UNCHANGED <<loop, unowned>>
Crash(t)       == Follows(t) /\ Fail
CancelCrash(k) == Cancels(k) /\ k \in unowned /\ Fail

-----------------------------------------------------------------------------
(* stop() by the owner, and the world outside.                             *)

(* The flags; the calls of tickle() after them write when a thread is idle. *)
StopBegin ==
  /\ mainPc = "started"
  /\ m_stopping' = TRUE
  /\ mainPc' = "flagged"
  /\ UNCHANGED <<queue, m_idleThreadCount, m_pendingEventCount, timing, pc, ft,
                 ending, next_timeout, cbs, hot, tickling, owes, place, kernel,
                 failing>>
StopTickles ==
  /\ mainPc = "flagged"
  /\ pipe' = (pipe \/ m_idleThreadCount > 0)
  /\ mainPc' = "root"
  /\ UNCHANGED <<queue, m_idleThreadCount, m_stopping, m_pendingEventCount,
                 timing, pc, ft, ending, next_timeout, cbs, hot, tickling,
                 owes, place, ready, edge, failing>>
(* The caller's thread runs run() when stopping() says that something is    *)
(* left.                                                                    *)
RunRoot == Go(Caller, "scan") /\ mainPc' = "called"
Proceed(to) == mainPc' = to /\ UNCHANGED pc
StopRoot ==
  /\ \/ mainPc = "root" /\ ~UseCaller /\ Proceed("joining")
     \/ mainPc = "root" /\ UseCaller
          /\ (IF m_timers = {} THEN Proceed("asked") ELSE RunRoot)
     \/ mainPc = "asked" /\ (IF NoEvents THEN Proceed("quiet") ELSE RunRoot)
     \/ mainPc = "quiet" /\ (IF QueueStops THEN Proceed("joining") ELSE RunRoot)
  /\ m_tickled' = (m_tickled /\ ~(mainPc = "root" /\ UseCaller))
  /\ UNCHANGED <<queue, m_idleThreadCount, m_stopping, m_pendingEventCount,
                 rem, ft, ending, next_timeout, cbs, hot, tickling, owes,
                 place, kernel, failing>>
Join ==
  /\ mainPc = "joining"
  /\ \A t \in Workers : pc[t] = "exited"
  /\ mainPc' = "stopped"
  /\ UNCHANGED <<queue, m_idleThreadCount, m_stopping, m_pendingEventCount,
                 timing, pc, ft, ending, next_timeout, cbs, hot, tickling,
                 owes, place, kernel, failing>>

(* Time passes for every deadline and for every sleep. *)
Time ==
  /\ \/ \E k \in m_timers : rem[k] > 0
     \/ \E t \in Threads : next_timeout[t] > 0
  /\ rem' = [k \in Tasks |-> IF rem[k] > 0 THEN rem[k] - 1 ELSE 0]
  /\ next_timeout' = [t \in Threads |->
       IF next_timeout[t] > 0 THEN next_timeout[t] - 1 ELSE next_timeout[t]]
  /\ UNCHANGED <<queue, m_idleThreadCount, m_stopping, m_pendingEventCount,
                 m_tickled, pc, ft, ending, cbs, hot, tickling, owes, place,
                 kernel, mainPc, failing>>

(* The descriptor of a task becomes ready. *)
BecomeReady(k) ==
  /\ k \notin ready /\ place[k] = "event"
  /\ ready' = ready \cup {k}
  /\ edge' = edge \cup {k}
  /\ UNCHANGED <<queue, m_idleThreadCount, m_stopping, m_pendingEventCount,
                 timing, pc, ft, ending, next_timeout, cbs, hot, tickling,
                 owes, place, pipe, mainPc, failing>>

-----------------------------------------------------------------------------
Call(x) ==
  \E k \in Tasks :
    \/ \E thr \in Pins \cup {AnyThread} : Schedule(x, k, thr)
    \/ AddEvent(x, k)
    \/ \E ms \in Delays : AddTimer(x, k, ms)
(* What an actor has begun it goes on with. *)
Returns(x) == Tickle(x) \/ CountDown(x)
Run(t) ==
  \/ Returns(t) \/ Take(t) \/ Finish(t)
  \/ ScanNothing(t) \/ EnterIdle(t) \/ Break(t)
  \/ AskTimers(t) \/ AskEvents(t) \/ AskQueue(t)
  \/ EpollReturns(t) \/ LookForTimers(t) \/ ListExpired(t) \/ Submit(t)
  \/ Drain(t) \/ (\E k \in Tasks : Handle(t, k)) \/ LeaveIdle(t) \/ Crash(t)
Stop == StopTickles \/ StopRoot \/ Join

Next ==
  /\ ~crashed
  /\ \/ \E x \in Actors : Call(x)
     \/ \E t \in Threads : Run(t)
     \/ \E k \in Tasks : CancelEvent(k) \/ CancelCrash(k) \/ BecomeReady(k)
     \/ Returns(Client) \/ StopBegin \/ Stop \/ Time

Spec == Init /\ [][Next]_vars

(* Threads keep running, calls return, time passes, until the program       *)
(* crashes.  Nothing obliges a client to call or a descriptor to become     *)
(* ready.                                                                   *)
Fairness ==
  /\ \A t \in Threads : WF_vars(~crashed /\ Run(t))
  /\ WF_vars(~crashed /\ Returns(Client)) /\ WF_vars(~crashed /\ Stop)
  /\ WF_vars(~crashed /\ Time)
FairSpec == Spec /\ Fairness

-----------------------------------------------------------------------------
(* When stop() has returned nothing the IOManager was given is left: not in *)
(* the queue, not among the timers, not in the hands of a thread, and no    *)
(* event is registered.  Entries for one thread may be left, when that      *)
(* thread had ended before they were submitted, and so may a timer or an    *)
(* event that a thread added after its idle fiber had ended.                *)
NothingLeft ==
  mainPc = "stopped" =>
    /\ \A k \in Tasks \ late : place[k] \in {"new", "queued", "done"}
    /\ \A i \in DOMAIN m_fibers :
         m_fibers[i].thread # AnyThread \/ m_fibers[i].task \in late
    /\ m_pendingEventCount = 0 \/ late # {}

(* An entry for a thread whose idle fiber has ended may find it gone. *)
Deserted(k) ==
  \E i \in DOMAIN m_fibers :
    /\ m_fibers[i].task = k
    /\ \E t \in Threads : m_fibers[i].thread = t /\ idleTerm[t]

(* Every callback that is due is run, although tickle() may find nobody to  *)
(* wake: one that was submitted, one whose deadline has come and one whose  *)
(* event was reported, unless it waits for a thread that has left run(),    *)
(* was left behind by one, or the program crashes.                          *)
DueRuns ==
  \A k \in Tasks :
    (\/ place[k] \in {"timer", "queued"}
     \/ place[k] = "event" /\ k \in ready)
      ~> (place[k] = "done" \/ Deserted(k) \/ k \in late \/ crashed)

(* stop() returns, unless an event never comes, an entry waits for a thread *)
(* that has left run(), or the program crashes.                             *)
StopReturns ==
  (mainPc = "flagged") ~>
    \/ mainPc = "stopped" \/ crashed
    \/ \E k \in Tasks : place[k] = "event" \/ Deserted(k)

(* While a timer is set some thread is up, is being woken, or sleeps no     *)
(* longer than the deadline, or the owner is on the way through stop() to   *)
(* look at the timers itself: nobody has to come by for the timer to fire   *)
(* in time.                                                                 *)
SomeoneIsUp(d) ==
  \/ UseCaller /\ mainPc \in {"flagged", "root"}
  \/ pipe \/ edge # {} \/ \E x \in Actors : tickling[x]
  \/ \E t \in Threads : pc[t] \notin {"off", "wait", "break", "exited"}
  \/ \E t \in Threads : pc[t] = "wait" /\ next_timeout[t] \in 0..d
TimersAreWatched ==
  mainPc \notin {"stopped"} =>
    \A k \in m_timers \ late : SomeoneIsUp(rem[k])

-----------------------------------------------------------------------------
(* The IOManager as the pool of tasks it is for its clients.  A callback is *)
(* submitted by schedule(), by its event or by its deadline; from then on   *)
(* it waits, in the hands of the thread that found it expired or in the     *)
(* queue, unless every thread that might run it has left run() for good.    *)
Gone(t) ==
  \/ pc[t] \in {"break", "exited"}
  \/ t = Caller /\ (~UseCaller \/ mainPc \in {"joining", "stopped"})
Stranded(k) ==
  \E i \in DOMAIN m_fibers :
    /\ m_fibers[i].task = k
    /\ \A t \in Threads : Runnable(t, m_fibers[i]) => Gone(t)
StatusOf(k) ==
  CASE place[k] \in {"new", "event", "timer"} -> "idle"
    [] place[k] = "taken"   -> "waiting"
    [] place[k] = "queued"  -> IF Stranded(k) THEN "stranded" ELSE "waiting"
    [] place[k] = "running" -> "running"
    [] place[k] = "done"    -> "ended"
Pool == INSTANCE TaskPool WITH
          status <- [k \in Tasks |-> StatusOf(k)],
          closed <- (mainPc = "stopped")

(* The IOManager implements TaskPool: however schedule(), events, deadlines *)
(* and cancelEvent race, a callback is run exactly once, one that waits is  *)
(* not left behind by the threads that leave, and stop() returns with no    *)
(* callback waiting or running.                                             *)
ImplementsTaskPool == Pool!Spec

=============================================================================
