----------------------------- MODULE Schedular -----------------------------
(***************************************************************************)
(* The fiber scheduler: Schedular::schedule, start, stop and run, together *)
(* with the state machine of the fibers it runs (Fiber::swapIn, swapOut,   *)
(* YieldToReady, YieldToHold, MainFunc).                                   *)
(*                                                                         *)
(* A task is a fiber.  The callback branch of run() wraps the callback in  *)
(* a fiber (cb_fiber) and then makes the same transitions as the fiber     *)
(* branch, so a callback is a task that is reset before it is submitted.   *)
(* The thread that owns the scheduler is Caller; it calls start and stop,  *)
(* and when UseCaller holds it also runs run() in m_rootFiber from stop(). *)
(***************************************************************************)
EXTENDS Naturals, Sequences, FiniteSets

CONSTANTS
  Workers,    \* the ids of all threads that calls of start() create
  ThreadCount,\* m_threadCount, the threads that one start() creates
  Caller,     \* the thread that constructs, starts and stops the scheduler
  UseCaller,  \* the constructor's use_caller
  Tasks,      \* the fibers
  Holders,    \* the tasks whose body waits for an event with YieldToHold
  Pins,       \* the threads that callers of schedule() name
  AnyThread,  \* thread == -1: every thread may run the entry
  None,       \* no task: ft.fiber == nullptr and ft.cb == nullptr
  MaxYields,  \* bound: yields of one task
  MaxCalls,   \* bound: calls of schedule() by clients and by running tasks
  MaxStarts   \* bound: calls of start()

Threads == Workers \cup {Caller}

(* A pin names a thread that run() can run on. *)
ASSUME SchedularAssumption ==
  /\ IsFiniteSet(Workers) /\ Caller \notin Workers /\ UseCaller \in BOOLEAN
  /\ ThreadCount \in Nat
  /\ Holders \subseteq Tasks /\ None \notin Tasks
  /\ Pins \subseteq Workers \cup (IF UseCaller THEN {Caller} ELSE {})
  /\ AnyThread \notin Threads
  /\ MaxYields \in Nat /\ MaxCalls \in Nat /\ MaxStarts \in Nat

VARIABLES
  m_fibers,             \* the queue of entries [fiber, thread]
  m_activeThreadCount,
  m_idleThreadCount,
  m_stopping,
  m_autoStop,
  m_state,              \* state of each task's fiber
  rootState,            \* state of m_rootFiber
  pc,                   \* where each thread is in run()
  ft,                   \* the task a thread took from the queue
  idleTerm,             \* the thread's idle fiber reached TERM
  wake,                 \* the registration that will resubmit a held task
  mainPc,               \* where the owner is in the life of the scheduler
  pin,                  \* history: the thread named when a task was submitted
  yields, calls, starts,\* bounded counters
  abort                 \* the assertion that stopped the process, or "none"

vars == <<m_fibers, m_activeThreadCount, m_idleThreadCount, m_stopping,
          m_autoStop, m_state, rootState, pc, ft, idleTerm, wake, mainPc, pin,
          yields, calls, starts, abort>>

FiberState == {"INIT", "HOLD", "EXEC", "TERM", "READY", "EXCEPT"}
Ended      == {"TERM", "EXCEPT"}
PC         == {"off", "scan", "dispatch", "exec", "swapout", "back", "settle",
               "hold", "idle", "exited"}
Entry      == [fiber : Tasks, thread : Threads \cup {AnyThread}]

-----------------------------------------------------------------------------
(* Mutant: the entry is copied and not erased. *)
EraseForgotten(s, i) == s
(* m_fibers.erase(it) *)
Erase(s, i) == [j \in 1..(Len(s) - 1) |-> IF j < i THEN s[j] ELSE s[j + 1]]

(* Mutant: a fiber that still executes is not pushed. *)
PushUnlessExec(k, thr) ==
  IF m_state[k] = "EXEC" THEN m_fibers
  ELSE Append(m_fibers, [fiber |-> k, thread |-> thr])
(* scheduleNoLock: push_back under m_mutex *)
Push(k, thr) == Append(m_fibers, [fiber |-> k, thread |-> thr])

(* Mutant: a READY fiber that came back is not put in the queue again. *)
RequeueForgotten(k) == m_fibers
(* schedule(ft.fiber) by run(): the thread argument has its default, -1 *)
Requeue(k) == Push(k, AnyThread)

(* Mutant: the scan does not compare it->thread with the thread's id. *)
RunnableAnywhere(t, e) == m_state[e.fiber] # "EXEC"
(* The entries run() does not skip: not for another thread, not executing. *)
Runnable(t, e) ==
  /\ e.thread \in {AnyThread, t}
  /\ m_state[e.fiber] # "EXEC"
NoWork(t) == \A i \in DOMAIN m_fibers : ~Runnable(t, m_fibers[i])

(* Schedular::stopping *)
Stopping ==
  m_autoStop /\ m_stopping /\ m_fibers = <<>> /\ m_activeThreadCount = 0

Queued(k)   == \E i \in DOMAIN m_fibers : m_fibers[i].fiber = k
InHand(k)   == \E t \in Threads : ft[t] = k
(* A task that nobody is responsible for: its submitter may use it. *)
Free(k)     == /\ m_state[k] \in Ended \cup {"INIT"}
               /\ ~Queued(k) /\ ~InHand(k)
(* The context of k is the one some thread's registers still hold. *)
OnCpu(k)    == \E t \in Threads : ft[t] = k /\ pc[t] \in {"exec", "swapout"}

(* --m_activeThreadCount *)
ActiveDown == m_activeThreadCount' = m_activeThreadCount - 1
(* ft.reset() *)
Release(t)  == ft' = [ft EXCEPT ![t] = None]
Go(t, to)   == pc' = [pc EXCEPT ![t] = to]
SetState(k, s) == m_state' = [m_state EXCEPT ![k] = s]

-----------------------------------------------------------------------------
Init ==
  /\ m_fibers = <<>>
  /\ m_activeThreadCount = 0
  /\ m_idleThreadCount = 0
  /\ m_stopping = TRUE
  /\ m_autoStop = FALSE
  /\ m_state = [k \in Tasks |-> "INIT"]
  /\ rootState = "INIT"
  /\ pc = [t \in Threads |-> "off"]
  /\ ft = [t \in Threads |-> None]
  /\ idleTerm = [t \in Threads |-> FALSE]
  /\ wake = [k \in Tasks |-> "none"]
  /\ mainPc = "constructed"
  /\ pin = [k \in Tasks |-> AnyThread]
  /\ yields = [k \in Tasks |-> 0]
  /\ calls = 0
  /\ starts = 0
  /\ abort = "none"

-----------------------------------------------------------------------------
(* The owner of the scheduler.                                             *)

Outside == mainPc \in {"constructed", "started"}

(* A caller of schedule() names no thread, its own or the owner's, or one   *)
(* that start() has made; that one may have left since.                     *)
Known == {AnyThread, Caller} \cup {t \in Workers : pc[t] # "off"}

(* schedule(fc, thread) by a client *)
ClientSchedule(k, thr) ==
  /\ Outside /\ Free(k) /\ thr \in Known /\ calls < MaxCalls
  /\ m_fibers' = Push(k, thr)
  /\ pin' = [pin EXCEPT ![k] = thr]
  /\ calls' = calls + 1
  /\ UNCHANGED <<m_activeThreadCount, m_idleThreadCount, m_stopping,
                 m_autoStop, m_state, rootState, pc, ft, idleTerm, wake,
                 mainPc, yields, starts, abort>>

(* schedule(begin, end): the whole range under one lock, for any thread *)
ClientScheduleRange(a, b) ==
  /\ Outside /\ a # b /\ Free(a) /\ Free(b) /\ calls < MaxCalls
  /\ m_fibers' = Append(Push(a, AnyThread), [fiber |-> b, thread |-> AnyThread])
  /\ pin' = [pin EXCEPT ![a] = AnyThread, ![b] = AnyThread]
  /\ calls' = calls + 1
  /\ UNCHANGED <<m_activeThreadCount, m_idleThreadCount, m_stopping,
                 m_autoStop, m_state, rootState, pc, ft, idleTerm, wake,
                 mainPc, yields, starts, abort>>

(* Fiber::reset: an ended fiber gets a new callback and a fresh context *)
Reset(k) ==
  /\ Outside /\ Free(k) /\ m_state[k] \in Ended
  /\ SetState(k, "INIT")
  /\ UNCHANGED <<m_fibers, m_activeThreadCount, m_idleThreadCount, m_stopping,
                 m_autoStop, rootState, pc, ft, idleTerm, wake, mainPc, pin,
                 yields, calls, starts, abort>>

(* start() makes new threads, with ids that no thread had before; what is   *)
(* queued for a thread that an earlier stop() joined stays where it is.     *)
(* m_autoStop keeps the value an earlier stop() gave it.                    *)
Start ==
  /\ mainPc \in {"constructed", "stopped"} /\ starts < MaxStarts
  /\ m_stopping
  /\ m_stopping' = FALSE
  /\ \E new \in SUBSET {t \in Workers : pc[t] = "off"} :
       /\ Cardinality(new) = ThreadCount
       /\ pc' = [t \in Threads |-> IF t \in new THEN "scan"
                                  ELSE IF t = Caller THEN "off" ELSE pc[t]]
  /\ idleTerm' = [t \in Threads |-> FALSE]
  /\ mainPc' = "started"
  /\ starts' = starts + 1
  /\ UNCHANGED <<m_fibers, m_activeThreadCount, m_idleThreadCount, m_autoStop,
                 m_state, rootState, ft, wake, pin, yields, calls, abort>>

(* stop(), the store to m_autoStop *)
StopBegin ==
  /\ mainPc = "started"
  /\ m_autoStop' = TRUE
  /\ mainPc' = "stopFlag"
  /\ UNCHANGED <<m_fibers, m_activeThreadCount, m_idleThreadCount, m_stopping,
                 m_state, rootState, pc, ft, idleTerm, wake, pin, yields,
                 calls, starts, abort>>

(* stop(), the store to m_stopping and the early return of a scheduler that *)
(* has only the caller's thread                                             *)
ReturnsEarly ==
  /\ UseCaller /\ ThreadCount = 0 /\ rootState \in {"INIT", "TERM"}
  /\ m_autoStop /\ m_fibers = <<>> /\ m_activeThreadCount = 0
StopFlag ==
  /\ mainPc = "stopFlag"
  /\ m_stopping' = TRUE
  /\ mainPc' = IF ReturnsEarly THEN "stopped" ELSE "stopRoot"
  /\ UNCHANGED <<m_fibers, m_activeThreadCount, m_idleThreadCount, m_autoStop,
                 m_state, rootState, pc, ft, idleTerm, wake, pin, yields,
                 calls, starts, abort>>

(* stop(): m_rootFiber->call() when there is work left.  A root fiber that  *)
(* has ended resumes after its last back(), on the "never reach" assertion. *)
StopRootSkip ==
  /\ mainPc = "stopRoot"
  /\ ~UseCaller \/ Stopping
  /\ mainPc' = "joining"
  /\ UNCHANGED <<m_fibers, m_activeThreadCount, m_idleThreadCount, m_stopping,
                 m_autoStop, m_state, rootState, pc, ft, idleTerm, wake, pin,
                 yields, calls, starts, abort>>
StopRootCall ==
  /\ mainPc = "stopRoot"
  /\ UseCaller /\ ~Stopping
  /\ rootState' = "EXEC"
  /\ mainPc' = "root"
  /\ IF rootState = "TERM"
       THEN abort' = "neverReach" /\ UNCHANGED <<pc, idleTerm>>
       ELSE /\ Go(Caller, "scan")
            /\ idleTerm' = [idleTerm EXCEPT ![Caller] = FALSE]
            /\ UNCHANGED abort
  /\ UNCHANGED <<m_fibers, m_activeThreadCount, m_idleThreadCount, m_stopping,
                 m_autoStop, m_state, ft, wake, pin, yields, calls, starts>>

(* stop(): join every worker that start() made *)
Join ==
  /\ mainPc = "joining"
  /\ \A t \in Workers : pc[t] \in {"off", "exited"}
  /\ mainPc' = "stopped"
  /\ UNCHANGED <<m_fibers, m_activeThreadCount, m_idleThreadCount, m_stopping,
                 m_autoStop, m_state, rootState, pc, ft, idleTerm, wake, pin,
                 yields, calls, starts, abort>>

-----------------------------------------------------------------------------
(* run() on thread t.                                                      *)

(* The scan under m_mutex takes the first runnable entry. *)
Take(t) ==
  /\ pc[t] = "scan"
  /\ \E i \in DOMAIN m_fibers :
       /\ Runnable(t, m_fibers[i])
       /\ \A j \in 1..(i - 1) : ~Runnable(t, m_fibers[j])
       /\ m_fibers' = Erase(m_fibers, i)
       /\ ft' = [ft EXCEPT ![t] = m_fibers[i].fiber]
  /\ m_activeThreadCount' = m_activeThreadCount + 1
  /\ Go(t, "dispatch")
  /\ UNCHANGED <<m_idleThreadCount, m_stopping, m_autoStop, m_state, rootState,
                 idleTerm, wake, mainPc, pin, yields, calls, starts, abort>>

(* Mutant: the continue of run() comes before --m_activeThreadCount. *)
DropUncounted(t) ==
  /\ pc[t] = "dispatch" /\ m_state[ft[t]] \in Ended
  /\ Release(t)
  /\ Go(t, "scan")
  /\ UNCHANGED <<m_fibers, m_activeThreadCount, m_idleThreadCount, m_stopping,
                 m_autoStop, m_state, rootState, idleTerm, wake, mainPc, pin,
                 yields, calls, starts, abort>>
(* An entry whose fiber has ended is dropped. *)
Drop(t) ==
  /\ pc[t] = "dispatch" /\ m_state[ft[t]] \in Ended
  /\ ActiveDown
  /\ Release(t)
  /\ Go(t, "scan")
  /\ UNCHANGED <<m_fibers, m_idleThreadCount, m_stopping, m_autoStop, m_state,
                 rootState, idleTerm, wake, mainPc, pin, yields, calls, starts,
                 abort>>

(* Fiber::swapIn: its assertion, and the switch to a context that must not  *)
(* be the one another thread is still executing.                            *)
SwapIn(t) ==
  /\ pc[t] = "dispatch" /\ m_state[ft[t]] \notin Ended
  /\ SetState(ft[t], "EXEC")
  /\ abort' = IF m_state[ft[t]] = "EXEC" THEN "swapIn"
              ELSE IF OnCpu(ft[t]) THEN "liveContext" ELSE "none"
  /\ wake' = [wake EXCEPT ![ft[t]] = "none"]
  /\ Go(t, "exec")
  /\ UNCHANGED <<m_fibers, m_activeThreadCount, m_idleThreadCount, m_stopping,
                 m_autoStop, rootState, ft, idleTerm, mainPc, pin, yields,
                 calls, starts>>

(* Fiber::YieldToReady: its assertion and the store before swapOut *)
YieldToReady(t) ==
  /\ pc[t] = "exec" /\ wake[ft[t]] = "none" /\ yields[ft[t]] < MaxYields
  /\ abort' = IF m_state[ft[t]] = "EXEC" THEN "none" ELSE "yield"
  /\ SetState(ft[t], "READY")
  /\ yields' = [yields EXCEPT ![ft[t]] = @ + 1]
  /\ Go(t, "swapout")
  /\ UNCHANGED <<m_fibers, m_activeThreadCount, m_idleThreadCount, m_stopping,
                 m_autoStop, rootState, ft, idleTerm, wake, mainPc, pin, calls,
                 starts>>

(* The body registers itself with a timer or an event before it holds. *)
Arm(t) ==
  /\ pc[t] = "exec" /\ ft[t] \in Holders
  /\ wake[ft[t]] = "none" /\ yields[ft[t]] < MaxYields
  /\ wake' = [wake EXCEPT ![ft[t]] = "armed"]
  /\ UNCHANGED <<m_fibers, m_activeThreadCount, m_idleThreadCount, m_stopping,
                 m_autoStop, m_state, rootState, pc, ft, idleTerm, mainPc, pin,
                 yields, calls, starts, abort>>

(* Fiber::YieldToHold: its assertion and the store before swapOut *)
YieldToHold(t) ==
  /\ pc[t] = "exec" /\ wake[ft[t]] # "none"
  /\ abort' = IF m_state[ft[t]] = "EXEC" THEN "none" ELSE "yield"
  /\ SetState(ft[t], "HOLD")
  /\ yields' = [yields EXCEPT ![ft[t]] = @ + 1]
  /\ Go(t, "swapout")
  /\ UNCHANGED <<m_fibers, m_activeThreadCount, m_idleThreadCount, m_stopping,
                 m_autoStop, rootState, ft, idleTerm, wake, mainPc, pin, calls,
                 starts>>

(* Fiber::MainFunc after the body returned or threw *)
Finish(t) ==
  /\ pc[t] = "exec" /\ wake[ft[t]] = "none"
  /\ \E s \in Ended : SetState(ft[t], s)
  /\ Go(t, "swapout")
  /\ UNCHANGED <<m_fibers, m_activeThreadCount, m_idleThreadCount, m_stopping,
                 m_autoStop, rootState, ft, idleTerm, wake, mainPc, pin,
                 yields, calls, starts, abort>>

(* A body submits another task. *)
TaskSchedule(t, k, thr) ==
  /\ pc[t] = "exec" /\ Free(k) /\ thr \in Known /\ calls < MaxCalls
  /\ m_fibers' = Push(k, thr)
  /\ pin' = [pin EXCEPT ![k] = thr]
  /\ calls' = calls + 1
  /\ UNCHANGED <<m_activeThreadCount, m_idleThreadCount, m_stopping,
                 m_autoStop, m_state, rootState, pc, ft, idleTerm, wake,
                 mainPc, yields, starts, abort>>

(* Fiber::swapOut: the context is saved and run() is back on the cpu. *)
SwapOut(t) ==
  /\ pc[t] = "swapout"
  /\ Go(t, "back")
  /\ UNCHANGED <<m_fibers, m_activeThreadCount, m_idleThreadCount, m_stopping,
                 m_autoStop, m_state, rootState, ft, idleTerm, wake, mainPc,
                 pin, yields, calls, starts, abort>>

(* --m_activeThreadCount, before the fiber is looked at *)
Back(t) ==
  /\ pc[t] = "back"
  /\ ActiveDown
  /\ Go(t, "settle")
  /\ UNCHANGED <<m_fibers, m_idleThreadCount, m_stopping, m_autoStop, m_state,
                 rootState, ft, idleTerm, wake, mainPc, pin, yields, calls,
                 starts, abort>>

(* A READY fiber goes back to the queue, for any thread; an ended one is    *)
(* forgotten; any other is put on hold.                                     *)
SettleReady(t) ==
  /\ pc[t] = "settle" /\ m_state[ft[t]] = "READY"
  /\ m_fibers' = Requeue(ft[t])
  /\ Release(t)
  /\ Go(t, "scan")
  /\ UNCHANGED <<m_activeThreadCount, m_idleThreadCount, m_stopping,
                 m_autoStop, m_state, rootState, idleTerm, wake, mainPc, pin,
                 yields, calls, starts, abort>>
SettleEnded(t) ==
  /\ pc[t] = "settle" /\ m_state[ft[t]] \in Ended
  /\ Release(t)
  /\ Go(t, "scan")
  /\ UNCHANGED <<m_fibers, m_activeThreadCount, m_idleThreadCount, m_stopping,
                 m_autoStop, m_state, rootState, idleTerm, wake, mainPc, pin,
                 yields, calls, starts, abort>>
SettleOther(t) ==
  /\ pc[t] = "settle" /\ m_state[ft[t]] \notin Ended \cup {"READY"}
  /\ Go(t, "hold")
  /\ UNCHANGED <<m_fibers, m_activeThreadCount, m_idleThreadCount, m_stopping,
                 m_autoStop, m_state, rootState, ft, idleTerm, wake, mainPc,
                 pin, yields, calls, starts, abort>>
SettleHold(t) ==
  /\ pc[t] = "hold"
  /\ SetState(ft[t], "HOLD")
  /\ Release(t)
  /\ Go(t, "scan")
  /\ UNCHANGED <<m_fibers, m_activeThreadCount, m_idleThreadCount, m_stopping,
                 m_autoStop, rootState, idleTerm, wake, mainPc, pin, yields,
                 calls, starts, abort>>

(* No runnable entry: the thread runs its idle fiber ... *)
EnterIdle(t) ==
  /\ pc[t] = "scan" /\ NoWork(t) /\ ~idleTerm[t]
  /\ m_idleThreadCount' = m_idleThreadCount + 1
  /\ Go(t, "idle")
  /\ UNCHANGED <<m_fibers, m_activeThreadCount, m_stopping, m_autoStop,
                 m_state, rootState, ft, idleTerm, wake, mainPc, pin, yields,
                 calls, starts, abort>>
(* ... Schedular::idle looks at stopping() and yields or ends ...           *)
LeaveIdle(t) ==
  /\ pc[t] = "idle"
  /\ idleTerm' = [idleTerm EXCEPT ![t] = Stopping]
  /\ m_idleThreadCount' = m_idleThreadCount - 1
  /\ Go(t, "scan")
  /\ UNCHANGED <<m_fibers, m_activeThreadCount, m_stopping, m_autoStop,
                 m_state, rootState, ft, wake, mainPc, pin, yields, calls,
                 starts, abort>>
(* ... and the thread leaves run() once the idle fiber has ended.           *)
(* CallerMainFunc: on the caller's thread that ends m_rootFiber, and stop() *)
(* goes on.                                                                 *)
CallerMainFunc(t) ==
  /\ rootState' = IF t = Caller THEN "TERM" ELSE rootState
  /\ mainPc' = IF t = Caller THEN "joining" ELSE mainPc
Break(t) ==
  /\ pc[t] = "scan" /\ NoWork(t) /\ idleTerm[t]
  /\ Go(t, "exited")
  /\ CallerMainFunc(t)
  /\ UNCHANGED <<m_fibers, m_activeThreadCount, m_idleThreadCount, m_stopping,
                 m_autoStop, m_state, ft, idleTerm, wake, pin, yields, calls,
                 starts, abort>>

(* The timer or the event of an armed task calls schedule(fiber). *)
Wake(k) ==
  /\ wake[k] = "armed"
  /\ wake' = [wake EXCEPT ![k] = "fired"]
  /\ m_fibers' = Push(k, AnyThread)
  /\ UNCHANGED <<m_activeThreadCount, m_idleThreadCount, m_stopping,
                 m_autoStop, m_state, rootState, pc, ft, idleTerm, mainPc, pin,
                 yields, calls, starts, abort>>

-----------------------------------------------------------------------------
Body(t) ==
  \/ YieldToReady(t) \/ Arm(t) \/ YieldToHold(t) \/ Finish(t)
  \/ \E k \in Tasks, thr \in Pins \cup {AnyThread} : TaskSchedule(t, k, thr)
Run(t) ==
  \/ Take(t) \/ Drop(t) \/ SwapIn(t) \/ Body(t) \/ SwapOut(t) \/ Back(t)
  \/ SettleReady(t) \/ SettleEnded(t) \/ SettleOther(t) \/ SettleHold(t)
  \/ EnterIdle(t) \/ LeaveIdle(t) \/ Break(t)
Stop == StopFlag \/ StopRootSkip \/ StopRootCall \/ Join
Client ==
  \/ \E k \in Tasks, thr \in Pins \cup {AnyThread} : ClientSchedule(k, thr)
  \/ \E a, b \in Tasks : ClientScheduleRange(a, b)
  \/ \E k \in Tasks : Reset(k)
  \/ Start \/ StopBegin

(* An assertion that fails ends the process. *)
Alive == abort = "none"
Next ==
  /\ Alive
  /\ Client \/ Stop \/ (\E t \in Threads : Run(t)) \/ (\E k \in Tasks : Wake(k))

Spec == Init /\ [][Next]_vars

(* Every thread of the process keeps running, stop() included, and what an  *)
(* armed task waits for happens.  Nothing obliges a client to call.         *)
Fairness ==
  /\ \A t \in Threads : WF_vars(Alive /\ Run(t))
  /\ \A k \in Tasks : WF_vars(Alive /\ Wake(k))
  /\ WF_vars(Alive /\ Stop)
FairSpec == Spec /\ Fairness

-----------------------------------------------------------------------------
(* Every variable keeps its type, and a thread that is past the scan of     *)
(* run() has a task in hand.                                                *)
TypeOK ==
  /\ m_fibers \in Seq(Entry)
  /\ m_activeThreadCount \in Nat
  /\ m_idleThreadCount \in Nat
  /\ m_stopping \in BOOLEAN
  /\ m_autoStop \in BOOLEAN
  /\ m_state \in [Tasks -> FiberState]
  /\ rootState \in {"INIT", "EXEC", "TERM"}
  /\ pc \in [Threads -> PC]
  /\ ft \in [Threads -> Tasks \cup {None}]
  /\ idleTerm \in [Threads -> BOOLEAN]
  /\ wake \in [Tasks -> {"none", "armed", "fired"}]
  /\ mainPc \in {"constructed", "started", "stopFlag", "stopRoot", "root",
                 "joining", "stopped"}
  /\ pin \in [Tasks -> Threads \cup {AnyThread}]
  /\ yields \in [Tasks -> Nat]
  /\ calls \in Nat
  /\ starts \in Nat
  /\ abort \in {"none", "swapIn", "yield", "liveContext", "neverReach"}
  /\ \A t \in Threads : (ft[t] # None) <=>
       (pc[t] \in {"dispatch", "exec", "swapout", "back", "settle", "hold"})

(* The atomic counters that stopping() and tickle() read are exact: as many *)
(* threads are between a take and the return of swapIn, and as many are in  *)
(* their idle fiber, as the counters say.                                   *)
ActiveThreads == {t \in Threads : pc[t] \in {"dispatch", "exec", "swapout", "back"}}
IdleThreads   == {t \in Threads : pc[t] = "idle"}
CountersExact ==
  /\ m_activeThreadCount = Cardinality(ActiveThreads)
  /\ m_idleThreadCount = Cardinality(IdleThreads)

(* A submitted fiber is in one place: never twice in the queue, never in    *)
(* the queue and in a thread's hands, never in the hands of two threads,    *)
(* and it executes exactly while a thread's cpu holds its context.          *)
OnePlace ==
  /\ \A i, j \in DOMAIN m_fibers :
       m_fibers[i].fiber = m_fibers[j].fiber => i = j
  /\ \A t \in Threads : ft[t] # None => ~Queued(ft[t])
  /\ \A t, u \in Threads : ft[t] # None /\ ft[t] = ft[u] => t = u
  /\ \A k \in Tasks :
       m_state[k] = "EXEC" => \E t \in Threads : ft[t] = k /\ pc[t] = "exec"

(* FiberAndThread::thread is "the id of the thread it runs on"              *)
(* (schedular.h:57): until it first yields, and run() puts it back for any  *)
(* thread, a task submitted for a thread runs on no other.                  *)
PinHonoured ==
  \A t \in Threads :
    pc[t] = "exec" /\ yields[ft[t]] = 0 => pin[ft[t]] \in {AnyThread, t}

(* The assertions of swapIn, YieldToReady and YieldToHold hold, and no      *)
(* context is entered while another thread still executes it.               *)
FiberAssertionsHold == abort \notin {"swapIn", "yield", "liveContext"}

(* A held fiber whose event fires before stop() is executed again: the      *)
(* resubmission is not lost even when it comes before the fiber has left    *)
(* its thread.  stopping() does not count held fibers, so an event that     *)
(* fires later may find no thread left.                                     *)
WokenResumes ==
  \A k \in Tasks :
    (wake[k] = "fired" /\ ~m_stopping) ~> (wake[k] = "none" \/ ~Alive)

(* An entry is stranded if it is for a worker that has left, for good, or   *)
(* for the caller's thread once stop() has gone past m_rootFiber->call(),   *)
(* until the next start().                                                  *)
Gone(t) == pc[t] = "exited" \/ (t = Caller /\ mainPc \in {"joining", "stopped"})
Stranded(k) ==
  \E i \in DOMAIN m_fibers :
    /\ m_fibers[i].fiber = k
    /\ \E t \in Threads : m_fibers[i].thread = t /\ Gone(t)

(* stop() returns: every thread leaves run() once the work is done, unless  *)
(* an entry for a thread that has left keeps stopping() false.              *)
StopCompletes ==
  (mainPc = "stopFlag") ~>
    (mainPc = "stopped" \/ ~Alive \/ \E k \in Tasks : Stranded(k))

(* Every submitted fiber that does not hold is run to its end once threads  *)
(* run, whatever the fibers beside it do, unless the thread it was for has  *)
(* left.                                                                    *)
SubmittedFinishes ==
  \A k \in Tasks \ Holders :
    (mainPc = "started" /\ Queued(k)) ~>
      ((m_state[k] \in Ended /\ ~Queued(k)) \/ ~Alive \/ Stranded(k))

-----------------------------------------------------------------------------
(* The scheduler as the pool of tasks it is for its clients: an entry for a *)
(* fiber that has ended means nothing, and between the queue and swapIn,    *)
(* and between its yield and its return to the queue, a fiber waits.        *)
StatusOf(k) ==
  CASE m_state[k] \in Ended  -> "ended"
    [] m_state[k] = "EXEC"    -> "running"
    [] m_state[k] = "READY"   -> "waiting"
    [] m_state[k] = "HOLD"    -> IF wake[k] = "fired" THEN "waiting" ELSE "held"
    [] m_state[k] = "INIT"    -> IF Stranded(k) THEN "stranded"
                                 ELSE IF Queued(k) \/ InHand(k) THEN "waiting"
                                 ELSE "idle"
Pool == INSTANCE TaskPool WITH
          status <- [k \in Tasks |-> StatusOf(k)],
          closed <- (mainPc = "stopped")

(* The scheduler implements TaskPool: whatever its threads do between them, *)
(* a submitted fiber is run exactly once per submission and per yield,      *)
(* never after its end, and stop() returns with no fiber waiting but those  *)
(* for a thread that has left, which a later start() does not revive unless *)
(* the thread is the caller's.                                              *)
ImplementsTaskPool == Pool!Spec

=============================================================================
