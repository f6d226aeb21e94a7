-------------------------- MODULE SchedularProofs --------------------------
(***************************************************************************)
(* Proofs about Schedular, for every value of its constants.               *)
(***************************************************************************)
EXTENDS Schedular, FiniteSetTheorems, SequenceTheorems, TLAPS

-----------------------------------------------------------------------------
(* Erasing one entry of the queue leaves a queue, one entry shorter. *)
LEMMA EraseType ==
  ASSUME NEW S, NEW s \in Seq(S), NEW i \in DOMAIN s
  PROVE  /\ Erase(s, i) \in Seq(S)
         /\ Len(Erase(s, i)) = Len(s) - 1
<1>1. Len(s) \in Nat /\ DOMAIN s = 1..Len(s) /\ \A j \in 1..Len(s) : s[j] \in S
  OBVIOUS
<1>2. Len(s) - 1 \in Nat
  BY <1>1
<1>3. \A j \in 1..(Len(s) - 1) : (IF j < i THEN s[j] ELSE s[j + 1]) \in S
  BY <1>1, <1>2
<1>4. Erase(s, i) \in [1..(Len(s) - 1) -> S]
  BY <1>3 DEF Erase
<1>. QED
  BY <1>2, <1>4, SeqDef

(* The set of threads is finite. *)
LEMMA ThreadsFinite == IsFiniteSet(Threads)
BY SchedularAssumption, FS_AddElement DEF Threads

(* How a move of one thread changes the two sets that the counters count. *)
LEMMA MoveCounts ==
  ASSUME TypeOK, NEW t \in Threads, NEW to \in PC, Go(t, to)
  PROVE  /\ to \in {"dispatch", "exec", "swapout", "back"} =>
              ActiveThreads' = ActiveThreads \cup {t}
         /\ to \notin {"dispatch", "exec", "swapout", "back"} =>
              ActiveThreads' = ActiveThreads \ {t}
         /\ to = "idle" => IdleThreads' = IdleThreads \cup {t}
         /\ to # "idle" => IdleThreads' = IdleThreads \ {t}
BY DEF TypeOK, Go, ActiveThreads, IdleThreads

(* Cardinality of a set of threads with one more and with one less. *)
LEMMA CountThreads ==
  ASSUME NEW S \in SUBSET Threads, NEW t \in Threads
  PROVE  /\ Cardinality(S) \in Nat
         /\ t \notin S => Cardinality(S \cup {t}) = Cardinality(S) + 1
         /\ t \notin S => S \ {t} = S
         /\ t \in S => /\ S \cup {t} = S
                       /\ Cardinality(S \ {t}) = Cardinality(S) - 1
                       /\ Cardinality(S) - 1 \in Nat
<1>1. IsFiniteSet(S)
  BY ThreadsFinite, FS_Subset
<1>2. Cardinality(S) \in Nat
  BY <1>1, FS_CardinalityType
<1>3. t \notin S => Cardinality(S \cup {t}) = Cardinality(S) + 1
  BY <1>1, FS_AddElement
<1>4. ASSUME t \in S
      PROVE  /\ Cardinality(S \ {t}) = Cardinality(S) - 1
             /\ Cardinality(S) - 1 \in Nat
  <2>1. Cardinality(S \ {t}) = Cardinality(S) - 1
    BY <1>1, <1>4, FS_RemoveElement
  <2>2. Cardinality(S \ {t}) \in Nat
    BY <1>1, FS_RemoveElement, FS_CardinalityType
  <2>. QED BY <2>1, <2>2
<1>. QED BY <1>2, <1>3, <1>4

-----------------------------------------------------------------------------
(* Where the threads are while the owner is outside run(): before start()   *)
(* and after stop() no thread is in run(), and the caller's thread is in    *)
(* run() only while stop() is in m_rootFiber->call(); a scheduler without   *)
(* threads of its own has no worker.                                        *)
OwnerInv ==
  /\ mainPc \in {"constructed", "stopped"} =>
       \A t \in Threads : pc[t] \in {"off", "exited"}
  /\ mainPc # "root" => pc[Caller] \in {"off", "exited"}
  /\ ThreadCount = 0 => \A t \in Workers : pc[t] = "off"

CountInv == TypeOK /\ OwnerInv /\ CountersExact

(* The initial state satisfies the invariant. *)
LEMMA CountInvInit == Init => CountInv
<1>. SUFFICES ASSUME Init PROVE CountInv
  OBVIOUS
<1>1. TypeOK
  <2>1. m_fibers \in Seq(Entry)
    BY EmptySeq DEF Init
  <2>2. \A t \in Threads : ft[t] = None /\ pc[t] = "off"
    BY DEF Init
  <2>. QED
    BY <2>1, <2>2 DEF Init, TypeOK, FiberState, PC
<1>2. OwnerInv
  BY DEF Init, OwnerInv, Threads
<1>3. ActiveThreads = {} /\ IdleThreads = {}
  BY DEF Init, ActiveThreads, IdleThreads
<1>. QED
  BY <1>1, <1>2, <1>3, FS_EmptySet DEF Init, CountInv, CountersExact

(* Steps that move no thread keep the counters exact. *)
LEMMA StillCounts ==
  ASSUME CountersExact,
         UNCHANGED <<pc, m_activeThreadCount, m_idleThreadCount>>
  PROVE  CountersExact'
BY DEF CountersExact, ActiveThreads, IdleThreads

(* A thread that moves within the same set, or to or from one that is not   *)
(* counted, keeps the counters exact when it leaves them alone.             *)
LEMMA MoveKeepsCounts ==
  ASSUME TypeOK, CountersExact, NEW t \in Threads, NEW to \in PC, Go(t, to),
         pc[t] \in {"dispatch", "exec", "swapout", "back"} <=>
           to \in {"dispatch", "exec", "swapout", "back"},
         pc[t] # "idle", to # "idle",
         UNCHANGED <<m_activeThreadCount, m_idleThreadCount>>
  PROVE  CountersExact'
<1>1. ActiveThreads' = ActiveThreads /\ IdleThreads' = IdleThreads
  BY DEF TypeOK, Go, ActiveThreads, IdleThreads
<1>. QED
  BY <1>1 DEF CountersExact

(* Taking an entry counts the thread as active. *)
LEMMA TakeCounts ==
  ASSUME TypeOK, CountersExact, NEW t \in Threads,
         pc[t] = "scan", Go(t, "dispatch"),
         m_activeThreadCount' = m_activeThreadCount + 1,
         UNCHANGED m_idleThreadCount
  PROVE  CountersExact'
<1>1. /\ ActiveThreads' = ActiveThreads \cup {t}
      /\ IdleThreads' = IdleThreads \ {t}
  BY MoveCounts DEF PC
<1>2. /\ t \notin ActiveThreads /\ t \notin IdleThreads
      /\ ActiveThreads \in SUBSET Threads /\ IdleThreads \in SUBSET Threads
  BY DEF ActiveThreads, IdleThreads
<1>. QED
  BY <1>1, <1>2, CountThreads DEF CountersExact

(* --m_activeThreadCount uncounts it. *)
LEMMA DownCounts ==
  ASSUME TypeOK, CountersExact, NEW t \in Threads, NEW to \in {"scan", "settle"},
         pc[t] \in {"dispatch", "back"}, Go(t, to), ActiveDown,
         UNCHANGED m_idleThreadCount
  PROVE  CountersExact' /\ m_activeThreadCount' \in Nat
<1>1. /\ ActiveThreads' = ActiveThreads \ {t}
      /\ IdleThreads' = IdleThreads \ {t}
  BY MoveCounts DEF PC
<1>2. /\ t \in ActiveThreads /\ t \notin IdleThreads
      /\ ActiveThreads \in SUBSET Threads /\ IdleThreads \in SUBSET Threads
  BY DEF ActiveThreads, IdleThreads
<1>. QED
  BY <1>1, <1>2, CountThreads DEF CountersExact, ActiveDown

(* The idle fiber counts the thread as idle while it runs. *)
LEMMA IdleCounts ==
  ASSUME TypeOK, CountersExact, NEW t \in Threads,
         UNCHANGED m_activeThreadCount,
         \/ /\ pc[t] = "scan" /\ Go(t, "idle")
            /\ m_idleThreadCount' = m_idleThreadCount + 1
         \/ /\ pc[t] = "idle" /\ Go(t, "scan")
            /\ m_idleThreadCount' = m_idleThreadCount - 1
  PROVE  CountersExact' /\ m_idleThreadCount' \in Nat
<1>1. /\ t \notin ActiveThreads
      /\ ActiveThreads \in SUBSET Threads /\ IdleThreads \in SUBSET Threads
  BY DEF ActiveThreads, IdleThreads
<1>2. CASE /\ pc[t] = "scan" /\ Go(t, "idle")
           /\ m_idleThreadCount' = m_idleThreadCount + 1
  <2>1. /\ ActiveThreads' = ActiveThreads \ {t}
        /\ IdleThreads' = IdleThreads \cup {t}
    BY <1>2, MoveCounts DEF PC
  <2>2. t \notin IdleThreads
    BY <1>2 DEF IdleThreads
  <2>3. m_idleThreadCount' = m_idleThreadCount + 1
    BY <1>2
  <2>4. ActiveThreads' = ActiveThreads
    BY <1>1, <2>1
  <2>5. /\ Cardinality(IdleThreads') = Cardinality(IdleThreads) + 1
        /\ Cardinality(IdleThreads) \in Nat
    BY <1>1, <2>1, <2>2, CountThreads
  <2>. QED
    BY <2>3, <2>4, <2>5 DEF CountersExact
<1>3. CASE /\ pc[t] = "idle" /\ Go(t, "scan")
           /\ m_idleThreadCount' = m_idleThreadCount - 1
  <2>1. /\ ActiveThreads' = ActiveThreads \ {t}
        /\ IdleThreads' = IdleThreads \ {t}
    BY <1>3, MoveCounts DEF PC
  <2>2. t \in IdleThreads
    BY <1>3 DEF IdleThreads
  <2>3. m_idleThreadCount' = m_idleThreadCount - 1
    BY <1>3
  <2>4. ActiveThreads' = ActiveThreads
    BY <1>1, <2>1
  <2>5. /\ Cardinality(IdleThreads') = Cardinality(IdleThreads) - 1
        /\ Cardinality(IdleThreads) - 1 \in Nat
    BY <1>1, <2>1, <2>2, CountThreads
  <2>. QED
    BY <2>3, <2>4, <2>5 DEF CountersExact
<1>. QED
  BY <1>2, <1>3


(* What start() does to the threads: workers that were off, ThreadCount of  *)
(* them, begin run(); those that have left do not come back.                *)
LEMMA StartMoves ==
  ASSUME TypeOK, Start
  PROVE  /\ pc' \in [Threads -> PC] /\ pc'[Caller] = "off"
         /\ \E new \in SUBSET {t \in Workers : pc[t] = "off"} :
              /\ ThreadCount = 0 => new = {}
              /\ ThreadCount # 0 => new # {}
              /\ ThreadCount = 1 => \A t, u \in new : t = u
              /\ \A t \in Workers : pc'[t] = IF t \in new THEN "scan" ELSE pc[t]
<1>1. PICK new \in SUBSET {t \in Workers : pc[t] = "off"} :
        /\ Cardinality(new) = ThreadCount
        /\ pc' = [t \in Threads |-> IF t \in new THEN "scan"
                                   ELSE IF t = Caller THEN "off" ELSE pc[t]]
  BY DEF Start
<1>2. IsFiniteSet(new)
  BY SchedularAssumption, FS_Subset
<1>3. /\ ThreadCount = 0 => new = {}
      /\ ThreadCount # 0 => new # {}
  BY <1>1, <1>2, FS_EmptySet
<1>4. ThreadCount = 1 => \A t, u \in new : t = u
  BY <1>1, <1>2, FS_Singleton
<1>5. pc' \in [Threads -> PC]
  BY <1>1 DEF TypeOK, PC
<1>6. Caller \in Threads /\ Caller \notin Workers /\ Workers \subseteq Threads
  BY SchedularAssumption DEF Threads
<1> QED BY <1>1, <1>3, <1>4, <1>5, <1>6

(* Every action of Next keeps the invariant, one step per action. *)
LEMMA CountInvNext == CountInv /\ [Next]_vars => CountInv'
<1>. SUFFICES ASSUME CountInv, [Next]_vars PROVE CountInv'
  OBVIOUS
<1>. TypeOK /\ OwnerInv /\ CountersExact
  BY DEF CountInv
<1>. Threads = Workers \cup {Caller} /\ Pins \subseteq Threads /\ Caller \in Threads
     /\ None \notin Tasks /\ Caller \notin Workers
  BY SchedularAssumption DEF Threads
<1>. UseCaller \in BOOLEAN
  BY SchedularAssumption
<1>1. ASSUME NEW k \in Tasks, NEW thr \in Pins \cup {AnyThread}, ClientSchedule(k, thr)
      PROVE  CountInv'
  <2>1. TypeOK'
    BY <1>1 DEF ClientSchedule, TypeOK, FiberState, PC, Ended, Push, Entry, Outside
  <2>2. OwnerInv'
    BY <1>1 DEF ClientSchedule, OwnerInv
  <2>3. CountersExact'
    BY <1>1, StillCounts DEF ClientSchedule
  <2>. QED
    BY <2>1, <2>2, <2>3 DEF CountInv
<1>2. ASSUME NEW a \in Tasks, NEW b \in Tasks, ClientScheduleRange(a, b)
      PROVE  CountInv'
  <2>0. m_fibers' \in Seq(Entry)
    <3>1. Push(a, AnyThread) \in Seq(Entry)
      BY DEF TypeOK, Push, Entry
    <3>. QED
      BY <1>2, <3>1 DEF ClientScheduleRange, Entry
  <2>00. pin' \in [Tasks -> Threads \cup {AnyThread}]
    BY <1>2 DEF ClientScheduleRange, TypeOK
  <2>1. TypeOK'
    <3>1. /\ calls' = calls + 1
          /\ UNCHANGED <<m_activeThreadCount, m_idleThreadCount, m_stopping,
                         m_autoStop, m_state, rootState, pc, ft, idleTerm, wake,
                         mainPc, yields, starts, abort>>
      BY <1>2 DEF ClientScheduleRange
    <3>. QED
      BY <2>0, <2>00, <3>1 DEF TypeOK
  <2>2. OwnerInv'
    BY <1>2 DEF ClientScheduleRange, OwnerInv
  <2>3. CountersExact'
    BY <1>2, StillCounts DEF ClientScheduleRange
  <2>. QED
    BY <2>1, <2>2, <2>3 DEF CountInv
<1>3. ASSUME NEW k \in Tasks, Reset(k)
      PROVE  CountInv'
  <2>1. TypeOK'
    BY <1>3 DEF Reset, TypeOK, FiberState, PC, Ended, SetState
  <2>2. OwnerInv'
    BY <1>3 DEF Reset, OwnerInv
  <2>3. CountersExact'
    BY <1>3, StillCounts DEF Reset
  <2>. QED
    BY <2>1, <2>2, <2>3 DEF CountInv
<1>4. CASE Start
  <2>1. \A t \in Threads : pc[t] \in {"off", "exited"} /\ ft[t] = None
    BY <1>4 DEF Start, OwnerInv, TypeOK
  <2>2. TypeOK'
    <3>1. pc' \in [Threads -> PC] /\ idleTerm' \in [Threads -> BOOLEAN]
      BY <1>4, StartMoves DEF Start
    <3>2. \A t \in Threads : ft'[t] = None /\ pc'[t] \in {"off", "scan", "exited"}
      BY <1>4, <2>1, StartMoves DEF Start
    <3>3. \A t \in Threads : (ft'[t] # None) <=>
            (pc'[t] \in {"dispatch", "exec", "swapout", "back", "settle", "hold"})
      BY <3>2
    <3>4. /\ mainPc' = "started" /\ starts' = starts + 1
          /\ UNCHANGED <<m_fibers, m_activeThreadCount, m_idleThreadCount, m_autoStop,
                         m_state, rootState, ft, wake, pin, yields, calls, abort>>
      BY <1>4 DEF Start
    <3>5. m_stopping' \in BOOLEAN
      BY <1>4, Zenon DEF Start
    <3>. QED
      BY <3>1, <3>3, <3>4, <3>5 DEF TypeOK
  <2>3. OwnerInv'
    BY <1>4, StartMoves DEF Start, OwnerInv
  <2>4. ActiveThreads' = ActiveThreads /\ IdleThreads' = IdleThreads
    <3>1. \A t \in Threads : pc'[t] \in {"off", "scan", "exited"}
      BY <1>4, <2>1, StartMoves
    <3> QED BY <2>1, <3>1 DEF ActiveThreads, IdleThreads
  <2>5. CountersExact'
    BY <1>4, <2>4 DEF Start, CountersExact
  <2>. QED
    BY <2>2, <2>3, <2>5 DEF CountInv
<1>5. CASE StopBegin
  <2>1. TypeOK'
    BY <1>5 DEF StopBegin, TypeOK, FiberState, PC, Ended
  <2>2. OwnerInv'
    BY <1>5 DEF StopBegin, OwnerInv
  <2>3. CountersExact'
    BY <1>5, StillCounts DEF StopBegin
  <2>. QED
    BY <2>1, <2>2, <2>3 DEF CountInv
<1>6. CASE StopFlag
  <2>1. TypeOK'
    BY <1>6 DEF StopFlag, TypeOK, FiberState, PC, Ended
  <2>2. OwnerInv'
    BY <1>6 DEF StopFlag, OwnerInv, ReturnsEarly
  <2>3. CountersExact'
    BY <1>6, StillCounts DEF StopFlag
  <2>. QED
    BY <2>1, <2>2, <2>3 DEF CountInv
<1>7. CASE StopRootSkip
  <2>1. TypeOK'
    BY <1>7 DEF StopRootSkip, TypeOK, FiberState, PC, Ended
  <2>2. OwnerInv'
    BY <1>7 DEF StopRootSkip, OwnerInv
  <2>3. CountersExact'
    BY <1>7, StillCounts DEF StopRootSkip
  <2>. QED
    BY <2>1, <2>2, <2>3 DEF CountInv
<1>8. CASE StopRootCall
  <2>1. CASE rootState = "TERM"
    <3>1. TypeOK'
      BY <1>8, <2>1 DEF StopRootCall, TypeOK, FiberState, PC, Ended
    <3>2. OwnerInv'
      BY <1>8, <2>1 DEF StopRootCall, OwnerInv
    <3>3. CountersExact'
      BY <1>8, <2>1, StillCounts DEF StopRootCall
    <3>. QED
      BY <3>1, <3>2, <3>3 DEF CountInv
  <2>2. CASE rootState # "TERM"
    <3>1. pc[Caller] \in {"off", "exited"} /\ ft[Caller] = None
      BY <1>8 DEF StopRootCall, OwnerInv, TypeOK
    <3>2. TypeOK'
      <4>1. /\ pc' = [pc EXCEPT ![Caller] = "scan"] /\ ft' = ft
            /\ idleTerm' = [idleTerm EXCEPT ![Caller] = FALSE]
        BY <1>8, <2>2 DEF StopRootCall, Go
      <4>2. pc' \in [Threads -> PC] /\ idleTerm' \in [Threads -> BOOLEAN]
        BY <4>1 DEF TypeOK, PC
      <4>3. \A t \in Threads : (ft'[t] # None) <=>
              (pc'[t] \in {"dispatch", "exec", "swapout", "back", "settle", "hold"})
        BY <3>1, <4>1 DEF TypeOK
      <4>. QED
        BY <1>8, <2>2, <4>2, <4>3 DEF StopRootCall, TypeOK
    <3>3. OwnerInv'
      BY <1>8, <2>2 DEF StopRootCall, OwnerInv, Go, TypeOK
    <3>4. CountersExact'
      BY <1>8, <2>2, <3>1, MoveKeepsCounts DEF StopRootCall, PC
    <3>. QED
      BY <3>2, <3>3, <3>4 DEF CountInv
  <2>. QED
    BY <2>1, <2>2
<1>9. CASE Join
  <2>1. TypeOK'
    BY <1>9 DEF Join, TypeOK, FiberState, PC, Ended
  <2>2. OwnerInv'
    BY <1>9 DEF Join, OwnerInv
  <2>3. CountersExact'
    BY <1>9, StillCounts DEF Join
  <2>. QED
    BY <2>1, <2>2, <2>3 DEF CountInv
<1>10. ASSUME NEW t \in Threads, Take(t)
      PROVE  CountInv'
  <2>0. PICK i \in DOMAIN m_fibers : /\ m_fibers' = Erase(m_fibers, i)
                                     /\ ft' = [ft EXCEPT ![t] = m_fibers[i].fiber]
    BY <1>10 DEF Take
  <2>00. m_fibers' \in Seq(Entry) /\ m_fibers[i].fiber \in Tasks
    <3>1. m_fibers \in Seq(Entry)
      BY DEF TypeOK
    <3>2. m_fibers[i] \in Entry
      BY <3>1
    <3>. QED
      BY <2>0, <3>1, <3>2, EraseType DEF Entry
  <2>1. CountersExact'
    BY <1>10, TakeCounts DEF Take
  <2>2. TypeOK'
    BY <1>10, <2>1, <2>0, <2>00 DEF Take, TypeOK, FiberState, PC, Ended, Go
  <2>3. OwnerInv'
    BY <1>10 DEF Take, Go, OwnerInv, TypeOK
  <2>. QED
    BY <2>1, <2>2, <2>3 DEF CountInv
<1>11. ASSUME NEW t \in Threads, Drop(t)
      PROVE  CountInv'
  <2>1. CountersExact' /\ m_activeThreadCount' \in Nat
    BY <1>11, DownCounts DEF Drop
  <2>2. TypeOK'
    BY <1>11, <2>1 DEF Drop, TypeOK, FiberState, PC, Ended, Go, Release
  <2>3. OwnerInv'
    BY <1>11 DEF Drop, Go, OwnerInv, TypeOK
  <2>. QED
    BY <2>1, <2>2, <2>3 DEF CountInv
<1>12. ASSUME NEW t \in Threads, SwapIn(t)
      PROVE  CountInv'
  <2>1. CountersExact'
    BY <1>12, MoveKeepsCounts DEF SwapIn, PC
  <2>2. TypeOK'
    BY <1>12, <2>1 DEF SwapIn, TypeOK, FiberState, PC, Ended, Go, SetState
  <2>3. OwnerInv'
    BY <1>12 DEF SwapIn, Go, OwnerInv, TypeOK
  <2>. QED
    BY <2>1, <2>2, <2>3 DEF CountInv
<1>13. ASSUME NEW t \in Threads, YieldToReady(t)
      PROVE  CountInv'
  <2>1. CountersExact'
    BY <1>13, MoveKeepsCounts DEF YieldToReady, PC
  <2>2. TypeOK'
    BY <1>13, <2>1 DEF YieldToReady, TypeOK, FiberState, PC, Ended, Go, SetState
  <2>3. OwnerInv'
    BY <1>13 DEF YieldToReady, Go, OwnerInv, TypeOK
  <2>. QED
    BY <2>1, <2>2, <2>3 DEF CountInv
<1>14. ASSUME NEW t \in Threads, Arm(t)
      PROVE  CountInv'
  <2>1. TypeOK'
    BY <1>14 DEF Arm, TypeOK, FiberState, PC, Ended
  <2>2. OwnerInv'
    BY <1>14 DEF Arm, OwnerInv
  <2>3. CountersExact'
    BY <1>14, StillCounts DEF Arm
  <2>. QED
    BY <2>1, <2>2, <2>3 DEF CountInv
<1>15. ASSUME NEW t \in Threads, YieldToHold(t)
      PROVE  CountInv'
  <2>1. CountersExact'
    BY <1>15, MoveKeepsCounts DEF YieldToHold, PC
  <2>2. TypeOK'
    BY <1>15, <2>1 DEF YieldToHold, TypeOK, FiberState, PC, Ended, Go, SetState
  <2>3. OwnerInv'
    BY <1>15 DEF YieldToHold, Go, OwnerInv, TypeOK
  <2>. QED
    BY <2>1, <2>2, <2>3 DEF CountInv
<1>16. ASSUME NEW t \in Threads, Finish(t)
      PROVE  CountInv'
  <2>1. CountersExact'
    BY <1>16, MoveKeepsCounts DEF Finish, PC
  <2>2. TypeOK'
    BY <1>16, <2>1 DEF Finish, TypeOK, FiberState, PC, Ended, Go, SetState
  <2>3. OwnerInv'
    BY <1>16 DEF Finish, Go, OwnerInv, TypeOK
  <2>. QED
    BY <2>1, <2>2, <2>3 DEF CountInv
<1>17. ASSUME NEW t \in Threads, NEW k \in Tasks, NEW thr \in Pins \cup {AnyThread},
             TaskSchedule(t, k, thr)
      PROVE  CountInv'
  <2>1. TypeOK'
    BY <1>17 DEF TaskSchedule, TypeOK, FiberState, PC, Ended, Push, Entry
  <2>2. OwnerInv'
    BY <1>17 DEF TaskSchedule, OwnerInv
  <2>3. CountersExact'
    BY <1>17, StillCounts DEF TaskSchedule
  <2>. QED
    BY <2>1, <2>2, <2>3 DEF CountInv
<1>18. ASSUME NEW t \in Threads, SwapOut(t)
      PROVE  CountInv'
  <2>1. CountersExact'
    BY <1>18, MoveKeepsCounts DEF SwapOut, PC
  <2>2. TypeOK'
    BY <1>18, <2>1 DEF SwapOut, TypeOK, FiberState, PC, Ended, Go
  <2>3. OwnerInv'
    BY <1>18 DEF SwapOut, Go, OwnerInv, TypeOK
  <2>. QED
    BY <2>1, <2>2, <2>3 DEF CountInv
<1>19. ASSUME NEW t \in Threads, Back(t)
      PROVE  CountInv'
  <2>1. CountersExact' /\ m_activeThreadCount' \in Nat
    BY <1>19, DownCounts DEF Back
  <2>2. TypeOK'
    BY <1>19, <2>1 DEF Back, TypeOK, FiberState, PC, Ended, Go
  <2>3. OwnerInv'
    BY <1>19 DEF Back, Go, OwnerInv, TypeOK
  <2>. QED
    BY <2>1, <2>2, <2>3 DEF CountInv
<1>20. ASSUME NEW t \in Threads, SettleReady(t)
      PROVE  CountInv'
  <2>1. CountersExact'
    BY <1>20, MoveKeepsCounts DEF SettleReady, PC
  <2>2. TypeOK'
    BY <1>20, <2>1 DEF SettleReady, TypeOK, FiberState, PC, Ended, Go, Push, Requeue, Release, Entry
  <2>3. OwnerInv'
    BY <1>20 DEF SettleReady, Go, OwnerInv, TypeOK
  <2>. QED
    BY <2>1, <2>2, <2>3 DEF CountInv
<1>21. ASSUME NEW t \in Threads, SettleEnded(t)
      PROVE  CountInv'
  <2>1. CountersExact'
    BY <1>21, MoveKeepsCounts DEF SettleEnded, PC
  <2>2. TypeOK'
    BY <1>21, <2>1 DEF SettleEnded, TypeOK, FiberState, PC, Ended, Go, Release
  <2>3. OwnerInv'
    BY <1>21 DEF SettleEnded, Go, OwnerInv, TypeOK
  <2>. QED
    BY <2>1, <2>2, <2>3 DEF CountInv
<1>22. ASSUME NEW t \in Threads, SettleOther(t)
      PROVE  CountInv'
  <2>1. CountersExact'
    BY <1>22, MoveKeepsCounts DEF SettleOther, PC
  <2>2. TypeOK'
    BY <1>22, <2>1 DEF SettleOther, TypeOK, FiberState, PC, Ended, Go
  <2>3. OwnerInv'
    BY <1>22 DEF SettleOther, Go, OwnerInv, TypeOK
  <2>. QED
    BY <2>1, <2>2, <2>3 DEF CountInv
<1>23. ASSUME NEW t \in Threads, SettleHold(t)
      PROVE  CountInv'
  <2>1. CountersExact'
    BY <1>23, MoveKeepsCounts DEF SettleHold, PC
  <2>2. TypeOK'
    BY <1>23, <2>1 DEF SettleHold, TypeOK, FiberState, PC, Ended, Go, SetState, Release
  <2>3. OwnerInv'
    BY <1>23 DEF SettleHold, Go, OwnerInv, TypeOK
  <2>. QED
    BY <2>1, <2>2, <2>3 DEF CountInv
<1>24. ASSUME NEW t \in Threads, EnterIdle(t)
      PROVE  CountInv'
  <2>1. CountersExact' /\ m_idleThreadCount' \in Nat
    BY <1>24, IdleCounts DEF EnterIdle
  <2>2. TypeOK'
    BY <1>24, <2>1 DEF EnterIdle, TypeOK, FiberState, PC, Ended, Go
  <2>3. OwnerInv'
    BY <1>24 DEF EnterIdle, Go, OwnerInv, TypeOK
  <2>. QED
    BY <2>1, <2>2, <2>3 DEF CountInv
<1>25. ASSUME NEW t \in Threads, LeaveIdle(t)
      PROVE  CountInv'
  <2>1. CountersExact' /\ m_idleThreadCount' \in Nat
    BY <1>25, IdleCounts DEF LeaveIdle
  <2>2. TypeOK'
    BY <1>25, <2>1 DEF LeaveIdle, Stopping, TypeOK, FiberState, PC, Ended, Go
  <2>3. OwnerInv'
    BY <1>25 DEF LeaveIdle, Go, OwnerInv, TypeOK
  <2>. QED
    BY <2>1, <2>2, <2>3 DEF CountInv
<1>26. ASSUME NEW t \in Threads, Break(t)
      PROVE  CountInv'
  <2>1. CountersExact'
    BY <1>26, MoveKeepsCounts DEF Break, CallerMainFunc, PC
  <2>2. TypeOK'
    BY <1>26, <2>1 DEF Break, CallerMainFunc, TypeOK, FiberState, PC, Ended, Go
  <2>3. OwnerInv'
    BY <1>26 DEF Break, CallerMainFunc, Go, OwnerInv, TypeOK
  <2>. QED
    BY <2>1, <2>2, <2>3 DEF CountInv
<1>27. ASSUME NEW k \in Tasks, Wake(k)
      PROVE  CountInv'
  <2>1. TypeOK'
    BY <1>27 DEF Wake, TypeOK, FiberState, PC, Ended, Push, Entry
  <2>2. OwnerInv'
    BY <1>27 DEF Wake, OwnerInv
  <2>3. CountersExact'
    BY <1>27, StillCounts DEF Wake
  <2>. QED
    BY <2>1, <2>2, <2>3 DEF CountInv
<1>28. CASE UNCHANGED vars
  BY <1>28, ZenonT(60) DEF vars, CountInv, TypeOK, OwnerInv, CountersExact, ActiveThreads, IdleThreads
<1>. QED
  BY <1>1, <1>2, <1>3, <1>4, <1>5, <1>6, <1>7, <1>8, <1>9, <1>10, <1>11, <1>12, <1>13,
     <1>14, <1>15, <1>16, <1>17, <1>18, <1>19, <1>20, <1>21, <1>22, <1>23, <1>24, <1>25, <1>26, <1>27, <1>28
  DEF Next, Client, Stop, Run, Body

(* The variables of the scheduler keep their types in every behaviour, and  *)
(* a thread between the scan and the end of the loop body has a task.       *)
THEOREM TypeCorrect == Spec => []TypeOK
<1>1. CountInv => TypeOK
  BY DEF CountInv
<1>. QED
  BY CountInvInit, CountInvNext, <1>1, PTL DEF Spec

(* m_activeThreadCount and m_idleThreadCount are exact in every behaviour,  *)
(* whatever the number of threads, so they never wrap below zero.           *)
THEOREM CountersAreExact == Spec => []CountersExact
<1>1. CountInv => CountersExact
  BY DEF CountInv
<1>. QED
  BY CountInvInit, CountInvNext, <1>1, PTL DEF Spec

-----------------------------------------------------------------------------
(* Where the fibers are.  A fiber that has not yet held is regular: its     *)
(* resubmission comes from run() only.  Once a fiber has held, its event    *)
(* may submit it while a thread still has it, and nothing of this is        *)
(* claimed for it any more.                                                 *)
Regular(k) == k \notin Holders \/ yields[k] = 0

(* A regular fiber is in the queue once, or in the hands of one thread; in  *)
(* both only while it executes and its event has already fired.             *)
RegularOnce ==
  /\ \A i, j \in DOMAIN m_fibers :
       m_fibers[i].fiber = m_fibers[j].fiber /\ Regular(m_fibers[i].fiber) => i = j
  /\ \A t, u \in Threads : ft[t] # None /\ ft[t] = ft[u] /\ Regular(ft[t]) => t = u
  /\ \A t \in Threads : \A i \in DOMAIN m_fibers :
       ft[t] = m_fibers[i].fiber /\ Regular(ft[t]) =>
         m_state[ft[t]] = "EXEC" /\ wake[ft[t]] = "fired"

(* What run() knows of the fiber in its hands, step by step *)
RegularInHand ==
  \A t \in Threads :
    ft[t] # None /\ Regular(ft[t]) =>
      /\ pc[t] = "dispatch" => m_state[ft[t]] # "EXEC"
      /\ pc[t] = "exec" => m_state[ft[t]] = "EXEC"
      /\ pc[t] \in {"swapout", "back", "settle"} => m_state[ft[t]] \in Ended \cup {"READY"}
      /\ pc[t] # "hold"

(* A regular fiber executes in a thread, and waits for an event only then. *)
RegularState ==
  \A k \in Tasks :
    Regular(k) =>
      /\ m_state[k] = "EXEC" => \E t \in Threads : ft[t] = k /\ pc[t] = "exec"
      /\ m_state[k] # "HOLD"
      /\ m_state[k] = "READY" => yields[k] # 0
      /\ wake[k] # "none" => k \in Holders /\ m_state[k] = "EXEC"
      /\ wake[k] = "armed" => ~Queued(k)

(* Until a fiber yields, its entry names the thread it was submitted for.   *)
PinKept ==
  /\ \A i \in DOMAIN m_fibers :
       yields[m_fibers[i].fiber] = 0 =>
         \/ m_fibers[i].thread = pin[m_fibers[i].fiber]
         \/ m_state[m_fibers[i].fiber] = "EXEC"
  /\ \A t \in Threads :
       ft[t] # None /\ yields[ft[t]] = 0 => pin[ft[t]] \in {AnyThread, t}

PlaceInv == RegularOnce /\ RegularInHand /\ RegularState /\ PinKept

(* push_back adds the last entry, erase moves the later ones up. *)
LEMMA PushEntries ==
  ASSUME NEW s \in Seq(Entry), NEW e \in Entry, NEW r, r = Append(s, e)
  PROVE  /\ r \in Seq(Entry)
         /\ Len(s) + 1 \in DOMAIN r /\ Len(s) + 1 \notin DOMAIN s
         /\ DOMAIN r = DOMAIN s \cup {Len(s) + 1}
         /\ r[Len(s) + 1] = e
         /\ \A i \in DOMAIN s : r[i] = s[i]
OBVIOUS

LEMMA EraseEntries ==
  ASSUME NEW s \in Seq(Entry), NEW i \in DOMAIN s, NEW r, r = Erase(s, i)
  PROVE  /\ \A j \in DOMAIN r : (IF j < i THEN j ELSE j + 1) \in DOMAIN s \ {i}
         /\ \A j \in DOMAIN r : r[j] = s[IF j < i THEN j ELSE j + 1]
         /\ \A j \in DOMAIN s \ {i} : \E l \in DOMAIN r : j = IF l < i THEN l ELSE l + 1
         /\ DOMAIN r \subseteq Int /\ i \in Int
<1>1. DOMAIN s = 1..Len(s) /\ Len(s) \in Nat /\ i \in 1..Len(s)
  OBVIOUS
<1>2. DOMAIN r = 1..(Len(s) - 1)
  BY DEF Erase
<1>3. \A j \in DOMAIN r : r[j] = s[IF j < i THEN j ELSE j + 1]
  BY <1>2 DEF Erase
<1>4. \A j \in DOMAIN r : (IF j < i THEN j ELSE j + 1) \in DOMAIN s \ {i}
  BY <1>1, <1>2
<1>5. ASSUME NEW j \in DOMAIN s \ {i}
      PROVE  \E l \in DOMAIN r : j = IF l < i THEN l ELSE l + 1
  <2>1. CASE j < i
    BY <1>1, <1>2, <2>1
  <2>2. CASE j > i
    <3>1. j - 1 \in DOMAIN r /\ ~(j - 1 < i)
      BY <1>1, <1>2, <2>2
    <3>2. j = (j - 1) + 1
      BY <1>1
    <3> QED BY <3>1, <3>2
  <2> QED BY <1>1, <2>1, <2>2
<1> QED BY <1>1, <1>2, <1>3, <1>4, <1>5

LEMMA QueueType ==
  ASSUME TypeOK
  PROVE  /\ m_fibers \in Seq(Entry)
         /\ \A i \in DOMAIN m_fibers :
              /\ m_fibers[i] \in Entry /\ m_fibers[i].fiber \in Tasks
              /\ m_fibers[i].thread \in Threads \cup {AnyThread}
<1>1. m_fibers \in Seq(Entry)
  BY DEF TypeOK
<1>2. \A i \in DOMAIN m_fibers : m_fibers[i] \in Entry
  BY <1>1
<1> QED BY <1>1, <1>2 DEF Entry

LEMMA PlaceInvInit == Init => PlaceInv
<1> SUFFICES ASSUME Init PROVE PlaceInv
  OBVIOUS
<1>1. DOMAIN m_fibers = {} /\ \A t \in Threads : ft[t] = None
  BY DEF Init
<1>2. \A k \in Tasks : m_state[k] = "INIT" /\ wake[k] = "none"
  BY DEF Init
<1>3. RegularOnce /\ RegularInHand /\ PinKept
  BY <1>1 DEF RegularOnce, RegularInHand, PinKept
<1>4. RegularState
  BY <1>2 DEF RegularState
<1> QED BY <1>3, <1>4 DEF PlaceInv

(* Steps that leave the queue and the hands of the threads alone *)
LEMMA SamePlaces ==
  ASSUME TypeOK, PlaceInv, UNCHANGED <<m_fibers, ft, m_state, wake, yields, pin>>,
         \A t \in Threads : ft[t] # None => pc'[t] = pc[t]
  PROVE  PlaceInv'
<1>1. RegularOnce' /\ PinKept'
  BY DEF PlaceInv, RegularOnce, PinKept, Regular
<1>2. RegularInHand'
  BY DEF PlaceInv, RegularInHand, Regular
<1>3. \A t \in Threads : \A k \in Tasks : ft[t] = k => ft[t] # None
  BY SchedularAssumption
<1>4. RegularState'
  BY <1>3 DEF PlaceInv, RegularState, Regular, Queued
<1> QED BY <1>1, <1>2, <1>4 DEF PlaceInv

(* schedule() of fibers that their submitter has, one or a range *)
LEMMA SubmitPlaces ==
  ASSUME TypeOK, PlaceInv,
         DOMAIN m_fibers \subseteq DOMAIN m_fibers',
         \A i \in DOMAIN m_fibers : m_fibers'[i] = m_fibers[i],
         \A i \in DOMAIN m_fibers' \ DOMAIN m_fibers :
           /\ m_fibers'[i].fiber \in Tasks /\ Free(m_fibers'[i].fiber)
           /\ m_fibers'[i].thread = pin'[m_fibers'[i].fiber],
         \A i, j \in DOMAIN m_fibers' \ DOMAIN m_fibers :
           m_fibers'[i].fiber = m_fibers'[j].fiber => i = j,
         \A x \in Tasks : ~Free(x) => pin'[x] = pin[x],
         UNCHANGED <<ft, m_state, wake, yields, pc>>
  PROVE  PlaceInv'
<1>1. /\ \A i \in DOMAIN m_fibers : m_fibers[i].fiber \in Tasks /\ ~Free(m_fibers[i].fiber)
      /\ \A t \in Threads : ft[t] # None => ft[t] \in Tasks /\ ~Free(ft[t])
      /\ \A x \in Tasks : Free(x) => m_state[x] # "EXEC"
  <2>1. \A i \in DOMAIN m_fibers : m_fibers[i].fiber \in Tasks
    BY QueueType
  <2> QED BY <2>1 DEF Free, Queued, InHand, Ended, TypeOK
<1>2. \A i \in DOMAIN m_fibers' :
        \/ i \in DOMAIN m_fibers /\ m_fibers'[i] = m_fibers[i] /\ ~Free(m_fibers'[i].fiber)
        \/ i \notin DOMAIN m_fibers /\ Free(m_fibers'[i].fiber)
  BY <1>1
<1>3. RegularOnce'
  <2>1. \A i, j \in DOMAIN m_fibers' :
          m_fibers'[i].fiber = m_fibers'[j].fiber /\ Regular(m_fibers'[i].fiber) => i = j
    BY <1>2 DEF PlaceInv, RegularOnce
  <2>2. \A t \in Threads : \A i \in DOMAIN m_fibers' :
          ft[t] = m_fibers'[i].fiber /\ Regular(ft[t]) =>
            m_state[ft[t]] = "EXEC" /\ wake[ft[t]] = "fired"
    <3> TAKE t \in Threads
    <3> TAKE i \in DOMAIN m_fibers'
    <3>1. CASE ft[t] = None
      BY <1>1, <3>1, SchedularAssumption
    <3>2. CASE ft[t] # None
      BY <1>1, <1>2, <3>2 DEF PlaceInv, RegularOnce
    <3> QED BY <3>1, <3>2
  <2> QED BY <2>1, <2>2 DEF PlaceInv, RegularOnce, Regular
<1>4. RegularInHand'
  BY DEF PlaceInv, RegularInHand, Regular
<1>5. RegularState'
  <2>1. ASSUME NEW x \in Tasks, Regular(x), wake[x] = "armed" PROVE ~Queued(x)'
    <3>1. m_state[x] = "EXEC" /\ ~Queued(x)
      BY <2>1 DEF PlaceInv, RegularState
    <3>2. ~Free(x)
      BY <1>1, <3>1
    <3> QED BY <1>2, <3>1, <3>2 DEF Queued
  <2> QED BY <2>1 DEF PlaceInv, RegularState, Regular
<1>6. PinKept'
  <2>1. ASSUME NEW i \in DOMAIN m_fibers', yields'[m_fibers'[i].fiber] = 0
        PROVE  \/ m_fibers'[i].thread = pin'[m_fibers'[i].fiber]
               \/ m_state'[m_fibers'[i].fiber] = "EXEC"
    BY <1>1, <1>2, <2>1 DEF PlaceInv, PinKept
  <2>2. \A t \in Threads : ft'[t] # None /\ yields'[ft'[t]] = 0 => pin'[ft'[t]] \in {AnyThread, t}
    BY <1>1 DEF PlaceInv, PinKept
  <2> QED BY <2>1, <2>2 DEF PinKept
<1> QED BY <1>3, <1>4, <1>5, <1>6 DEF PlaceInv

(* The submissions of clients and of running fibers *)
LEMMA SubmitOne ==
  ASSUME TypeOK, PlaceInv, NEW k \in Tasks, NEW thr \in Threads \cup {AnyThread}, Free(k),
         m_fibers' = Push(k, thr), pin' = [pin EXCEPT ![k] = thr],
         UNCHANGED <<ft, m_state, wake, yields, pc>>
  PROVE  PlaceInv'
<1> DEFINE e == [fiber |-> k, thread |-> thr]
           n == Len(m_fibers) + 1
<1>1. e \in Entry /\ e.fiber = k /\ e.thread = thr
  BY DEF Entry
<1>2. m_fibers' = Append(m_fibers, e) /\ m_fibers \in Seq(Entry)
  BY DEF Push, TypeOK
<1> HIDE DEF e
<1>3. /\ n \notin DOMAIN m_fibers
      /\ DOMAIN m_fibers' = DOMAIN m_fibers \cup {n}
      /\ m_fibers'[n] = e
      /\ \A i \in DOMAIN m_fibers : m_fibers'[i] = m_fibers[i]
  BY <1>1, <1>2, PushEntries
<1>4. pin'[k] = thr /\ \A x \in Tasks \ {k} : pin'[x] = pin[x]
  BY DEF TypeOK
<1> HIDE DEF n
<1> QED BY <1>1, <1>3, <1>4, SubmitPlaces

LEMMA SubmitRange ==
  ASSUME TypeOK, PlaceInv, NEW a \in Tasks, NEW b \in Tasks, ClientScheduleRange(a, b)
  PROVE  PlaceInv'
<1> DEFINE ea == [fiber |-> a, thread |-> AnyThread]
           eb == [fiber |-> b, thread |-> AnyThread]
           s == Append(m_fibers, ea)
           n == Len(m_fibers) + 1
           m == Len(s) + 1
<1>1. /\ ea \in Entry /\ ea.fiber = a /\ ea.thread = AnyThread
      /\ eb \in Entry /\ eb.fiber = b /\ eb.thread = AnyThread
  BY DEF Entry
<1>2. /\ m_fibers' = Append(s, eb) /\ a # b /\ Free(a) /\ Free(b)
      /\ pin' = [pin EXCEPT ![a] = AnyThread, ![b] = AnyThread]
      /\ UNCHANGED <<ft, m_state, wake, yields, pc>>
  BY DEF ClientScheduleRange, Push
<1>3. m_fibers \in Seq(Entry)
  BY DEF TypeOK
<1> HIDE DEF ea, eb
<1>4. /\ s \in Seq(Entry) /\ n \notin DOMAIN m_fibers
      /\ DOMAIN s = DOMAIN m_fibers \cup {n}
      /\ s[n] = ea /\ \A i \in DOMAIN m_fibers : s[i] = m_fibers[i]
  BY <1>1, <1>3, PushEntries
<1> HIDE DEF s, n
<1>5. /\ m \notin DOMAIN s
      /\ DOMAIN m_fibers' = DOMAIN s \cup {m}
      /\ m_fibers'[m] = eb /\ \A i \in DOMAIN s : m_fibers'[i] = s[i]
  <2>1. eb \in Entry /\ s \in Seq(Entry) /\ m_fibers' = Append(s, eb)
    BY <1>1, <1>2, <1>4
  <2> QED BY <2>1, PushEntries
<1> HIDE DEF m
<1>6. pin'[a] = AnyThread /\ pin'[b] = AnyThread /\ \A x \in Tasks \ {a, b} : pin'[x] = pin[x]
  BY <1>2 DEF TypeOK
<1>7. \A i \in DOMAIN m_fibers' \ DOMAIN m_fibers :
        (i = n /\ m_fibers'[i] = ea) \/ (i = m /\ m_fibers'[i] = eb)
  BY <1>4, <1>5
<1>8. /\ DOMAIN m_fibers \subseteq DOMAIN m_fibers'
      /\ \A i \in DOMAIN m_fibers : m_fibers'[i] = m_fibers[i]
  BY <1>4, <1>5
<1>9. \A i \in DOMAIN m_fibers' \ DOMAIN m_fibers :
        /\ m_fibers'[i].fiber \in Tasks /\ Free(m_fibers'[i].fiber)
        /\ m_fibers'[i].thread = pin'[m_fibers'[i].fiber]
  BY <1>1, <1>2, <1>6, <1>7
<1>10. \A i, j \in DOMAIN m_fibers' \ DOMAIN m_fibers :
         m_fibers'[i].fiber = m_fibers'[j].fiber => i = j
  BY <1>1, <1>2, <1>7
<1>11. \A x \in Tasks : ~Free(x) => pin'[x] = pin[x]
  BY <1>2, <1>6
<1> QED BY <1>2, <1>8, <1>9, <1>10, <1>11, SubmitPlaces

(* The thread that has k changes what is known of k: its state, its event,  *)
(* its yields, and where the thread is in run().                            *)
LEMMA HandStep ==
  ASSUME TypeOK, PlaceInv, NEW t \in Threads, NEW k \in Tasks, ft[t] = k,
         UNCHANGED <<m_fibers, ft, pin>>,
         \A u \in Threads : u # t => pc'[u] = pc[u],
         \A x \in Tasks : x # k => /\ m_state'[x] = m_state[x]
                                   /\ wake'[x] = wake[x] /\ yields'[x] = yields[x],
         yields'[k] = 0 => yields[k] = 0,
         k \notin Holders \/ yields'[k] = 0 =>
           /\ Queued(k) => m_state'[k] = "EXEC" /\ wake'[k] = "fired"
           /\ pc'[t] = "dispatch" => m_state'[k] # "EXEC"
           /\ pc'[t] = "exec" => m_state'[k] = "EXEC"
           /\ pc'[t] \in {"swapout", "back", "settle"} => m_state'[k] \in Ended \cup {"READY"}
           /\ pc'[t] # "hold"
           /\ m_state'[k] = "EXEC" => pc'[t] = "exec"
           /\ m_state'[k] # "HOLD"
           /\ m_state'[k] = "READY" => yields'[k] # 0
           /\ wake'[k] # "none" => k \in Holders /\ m_state'[k] = "EXEC"
           /\ wake'[k] = "armed" => ~Queued(k)
  PROVE  PlaceInv'
<1> DEFINE Later(x) == x \notin Holders \/ yields'[x] = 0
<1>1. k # None /\ \A u \in Threads : ft[u] # None => ft[u] \in Tasks
  BY SchedularAssumption DEF TypeOK
<1>2. \A x \in Tasks : Later(x) => Regular(x)
  BY DEF Regular
<1>3. \A i \in DOMAIN m_fibers : m_fibers[i].fiber \in Tasks
  BY QueueType
<1>4. \A u \in Threads : ft[u] = k /\ Regular(k) => u = t
  BY <1>1 DEF PlaceInv, RegularOnce
<1>5. RegularOnce'
  <2>1. \A i, j \in DOMAIN m_fibers' :
          m_fibers'[i].fiber = m_fibers'[j].fiber /\ Later(m_fibers'[i].fiber) => i = j
    BY <1>2, <1>3 DEF PlaceInv, RegularOnce
  <2>2. \A u, v \in Threads : ft'[u] # None /\ ft'[u] = ft'[v] /\ Later(ft'[u]) => u = v
    BY <1>1, <1>2 DEF PlaceInv, RegularOnce
  <2>3. ASSUME NEW u \in Threads, NEW i \in DOMAIN m_fibers',
               ft'[u] = m_fibers'[i].fiber, Later(ft'[u])
        PROVE  m_state'[ft'[u]] = "EXEC" /\ wake'[ft'[u]] = "fired"
    <3>1. CASE ft[u] = k
      BY <2>3, <3>1 DEF Queued, Regular
    <3>2. CASE ft[u] # k
      BY <1>2, <1>3, <2>3, <3>2 DEF PlaceInv, RegularOnce
    <3> QED BY <3>1, <3>2
  <2> QED BY <2>1, <2>2, <2>3 DEF RegularOnce, Regular
<1>6. RegularInHand'
  <2> SUFFICES ASSUME NEW u \in Threads, ft'[u] # None, Later(ft'[u])
               PROVE  /\ pc'[u] = "dispatch" => m_state'[ft'[u]] # "EXEC"
                      /\ pc'[u] = "exec" => m_state'[ft'[u]] = "EXEC"
                      /\ pc'[u] \in {"swapout", "back", "settle"} =>
                           m_state'[ft'[u]] \in Ended \cup {"READY"}
                      /\ pc'[u] # "hold"
    BY DEF RegularInHand, Regular
  <2>1. CASE ft[u] = k
    BY <1>2, <1>4, <2>1 DEF Regular
  <2>2. CASE ft[u] # k
    BY <1>1, <1>2, <2>2 DEF PlaceInv, RegularInHand
  <2> QED BY <2>1, <2>2
<1>7. RegularState'
  <2>1. ASSUME NEW x \in Tasks, Later(x)
        PROVE  /\ m_state'[x] = "EXEC" => \E u \in Threads : ft'[u] = x /\ pc'[u] = "exec"
               /\ m_state'[x] # "HOLD"
               /\ m_state'[x] = "READY" => yields'[x] # 0
               /\ wake'[x] # "none" => x \in Holders /\ m_state'[x] = "EXEC"
               /\ wake'[x] = "armed" => ~Queued(x)'
    <3>1. CASE x = k
      BY <2>1, <3>1 DEF Regular, Queued
    <3>2. CASE x # k
      <4>1. \A u \in Threads : ft[u] = x => u # t
        BY <3>2
      <4>2. Regular(x)
        BY <1>2, <2>1
      <4> QED BY <3>2, <4>1, <4>2 DEF PlaceInv, RegularState, Queued
    <3> QED BY <3>1, <3>2
  <2> QED BY <2>1 DEF RegularState, Regular
<1>8. PinKept'
  <2>1. ASSUME NEW i \in DOMAIN m_fibers', yields'[m_fibers'[i].fiber] = 0
        PROVE  \/ m_fibers'[i].thread = pin'[m_fibers'[i].fiber]
               \/ m_state'[m_fibers'[i].fiber] = "EXEC"
    <3>1. CASE m_fibers[i].fiber = k
      BY <2>1, <3>1 DEF Queued
    <3>2. CASE m_fibers[i].fiber # k
      BY <1>3, <2>1, <3>2 DEF PlaceInv, PinKept
    <3> QED BY <3>1, <3>2
  <2>2. \A u \in Threads : ft'[u] # None /\ yields'[ft'[u]] = 0 => pin'[ft'[u]] \in {AnyThread, u}
    BY <1>1 DEF PlaceInv, PinKept
  <2> QED BY <2>1, <2>2 DEF PinKept
<1> QED BY <1>5, <1>6, <1>7, <1>8 DEF PlaceInv

(* A thread lets go of its task. *)
LEMMA ReleaseStep ==
  ASSUME TypeOK, PlaceInv, NEW t \in Threads, NEW k \in Tasks, ft[t] = k,
         ft' = [ft EXCEPT ![t] = None],
         UNCHANGED <<m_fibers, wake, yields, pin>>,
         \A u \in Threads : u # t => pc'[u] = pc[u],
         \A x \in Tasks : x # k => m_state'[x] = m_state[x],
         Regular(k) => m_state'[k] = m_state[k] /\ m_state[k] # "EXEC"
  PROVE  PlaceInv'
<1> DEFINE Later(x) == x \notin Holders \/ yields'[x] = 0
<1>1. /\ \A u \in Threads : ft[u] # None => ft[u] \in Tasks
      /\ \A u \in Threads : ft'[u] = IF u = t THEN None ELSE ft[u]
      /\ k # None
  BY SchedularAssumption DEF TypeOK
<1>2. \A i \in DOMAIN m_fibers : m_fibers[i].fiber \in Tasks
  BY QueueType
<1>3. \A x \in Tasks : Later(x) <=> Regular(x)
  BY DEF Regular
<1>4. \A x \in Tasks : Regular(x) => m_state'[x] = m_state[x]
  OBVIOUS
<1>5. RegularOnce'
  <2>1. \A i, j \in DOMAIN m_fibers' :
          m_fibers'[i].fiber = m_fibers'[j].fiber /\ Later(m_fibers'[i].fiber) => i = j
    BY <1>2, <1>3 DEF PlaceInv, RegularOnce
  <2>2. \A u, v \in Threads : ft'[u] # None /\ ft'[u] = ft'[v] /\ Later(ft'[u]) => u = v
    BY <1>1, <1>3 DEF PlaceInv, RegularOnce
  <2>3. ASSUME NEW u \in Threads, NEW i \in DOMAIN m_fibers',
               ft'[u] = m_fibers'[i].fiber, Later(ft'[u])
        PROVE  m_state'[ft'[u]] = "EXEC" /\ wake'[ft'[u]] = "fired"
    <3>1. ft'[u] = ft[u] /\ ft[u] \in Tasks /\ Regular(ft[u])
      BY <1>1, <1>2, <1>3, <2>3, SchedularAssumption
    <3>2. m_state[ft[u]] = "EXEC" /\ wake[ft[u]] = "fired"
      BY <2>3, <3>1 DEF PlaceInv, RegularOnce
    <3> QED BY <1>4, <3>1, <3>2
  <2> QED BY <2>1, <2>2, <2>3 DEF RegularOnce, Regular
<1>6. RegularInHand'
  <2> SUFFICES ASSUME NEW u \in Threads, ft'[u] # None, Later(ft'[u])
               PROVE  /\ pc'[u] = "dispatch" => m_state'[ft'[u]] # "EXEC"
                      /\ pc'[u] = "exec" => m_state'[ft'[u]] = "EXEC"
                      /\ pc'[u] \in {"swapout", "back", "settle"} =>
                           m_state'[ft'[u]] \in Ended \cup {"READY"}
                      /\ pc'[u] # "hold"
    BY DEF RegularInHand, Regular
  <2>1. u # t /\ ft'[u] = ft[u] /\ ft[u] \in Tasks /\ Regular(ft[u]) /\ ft[u] # None
    BY <1>1, <1>3
  <2>2. m_state'[ft[u]] = m_state[ft[u]] /\ pc'[u] = pc[u]
    BY <1>4, <2>1
  <2> QED BY <2>1, <2>2 DEF PlaceInv, RegularInHand
<1>7. RegularState'
  <2>1. ASSUME NEW x \in Tasks, Later(x)
        PROVE  /\ m_state'[x] = "EXEC" => \E u \in Threads : ft'[u] = x /\ pc'[u] = "exec"
               /\ m_state'[x] # "HOLD"
               /\ m_state'[x] = "READY" => yields'[x] # 0
               /\ wake'[x] # "none" => x \in Holders /\ m_state'[x] = "EXEC"
               /\ wake'[x] = "armed" => ~Queued(x)'
    <3>1. Regular(x) /\ m_state'[x] = m_state[x] /\ (Queued(x)' <=> Queued(x))
      BY <1>3, <1>4, <2>1 DEF Queued
    <3>2. m_state[x] = "EXEC" => \E u \in Threads : ft[u] = x /\ pc[u] = "exec" /\ u # t
      BY <3>1 DEF PlaceInv, RegularState
    <3>3. m_state'[x] = "EXEC" => \E u \in Threads : ft'[u] = x /\ pc'[u] = "exec"
      BY <1>1, <3>1, <3>2
    <3> QED BY <3>1, <3>3 DEF PlaceInv, RegularState
  <2> QED BY <2>1 DEF RegularState, Regular
<1>8. PinKept'
  <2>1. ASSUME NEW i \in DOMAIN m_fibers', yields'[m_fibers'[i].fiber] = 0
        PROVE  \/ m_fibers'[i].thread = pin'[m_fibers'[i].fiber]
               \/ m_state'[m_fibers'[i].fiber] = "EXEC"
    BY <1>2, <1>4, <2>1 DEF PlaceInv, PinKept, Regular
  <2>2. \A u \in Threads : ft'[u] # None /\ yields'[ft'[u]] = 0 => pin'[ft'[u]] \in {AnyThread, u}
    BY <1>1 DEF PlaceInv, PinKept
  <2> QED BY <2>1, <2>2 DEF PinKept
<1> QED BY <1>5, <1>6, <1>7, <1>8 DEF PlaceInv

(* The push of run() or of an event, seen from the queue *)
LEMMA PushPlaces ==
  ASSUME TypeOK, NEW k \in Tasks, m_fibers' = Push(k, AnyThread)
  PROVE  /\ DOMAIN m_fibers \subseteq DOMAIN m_fibers'
         /\ \A i \in DOMAIN m_fibers : m_fibers'[i] = m_fibers[i] /\ m_fibers[i].fiber \in Tasks
         /\ \A i \in DOMAIN m_fibers' \ DOMAIN m_fibers : m_fibers'[i].fiber = k
         /\ \A i, j \in DOMAIN m_fibers' \ DOMAIN m_fibers : i = j
<1> DEFINE e == [fiber |-> k, thread |-> AnyThread]
           n == Len(m_fibers) + 1
<1>1. e \in Entry /\ e.fiber = k
  BY DEF Entry
<1>2. m_fibers' = Append(m_fibers, e) /\ m_fibers \in Seq(Entry)
  BY DEF Push, TypeOK
<1> HIDE DEF e
<1>3. /\ DOMAIN m_fibers' = DOMAIN m_fibers \cup {n}
      /\ m_fibers'[n] = e
      /\ \A i \in DOMAIN m_fibers : m_fibers'[i] = m_fibers[i]
  BY <1>1, <1>2, PushEntries
<1>4. \A i \in DOMAIN m_fibers : m_fibers[i].fiber \in Tasks
  BY QueueType
<1> HIDE DEF n
<1> QED BY <1>1, <1>3, <1>4

LEMMA SettleReadyPlaces ==
  ASSUME TypeOK, PlaceInv, NEW t \in Threads, SettleReady(t)
  PROVE  PlaceInv'
<1> DEFINE k == ft[t]
<1>1. /\ k \in Tasks /\ k # None /\ m_state[k] = "READY"
      /\ m_fibers' = Push(k, AnyThread) /\ UNCHANGED <<m_state, wake, yields, pin>>
      /\ \A u \in Threads : ft'[u] = IF u = t THEN None ELSE ft[u]
      /\ \A u \in Threads : u # t => pc'[u] = pc[u]
  BY SchedularAssumption DEF SettleReady, Requeue, Release, Go, TypeOK
<1>2. \A u \in Threads : ft[u] # None => ft[u] \in Tasks
  BY DEF TypeOK
<1> HIDE DEF k
<1>3. /\ DOMAIN m_fibers \subseteq DOMAIN m_fibers'
      /\ \A i \in DOMAIN m_fibers : m_fibers'[i] = m_fibers[i] /\ m_fibers[i].fiber \in Tasks
      /\ \A i \in DOMAIN m_fibers' \ DOMAIN m_fibers : m_fibers'[i].fiber = k
      /\ \A i, j \in DOMAIN m_fibers' \ DOMAIN m_fibers : i = j
  BY <1>1, PushPlaces
<1>4. Regular(k) => /\ yields[k] # 0
                    /\ \A i \in DOMAIN m_fibers : m_fibers[i].fiber # k
                    /\ \A u \in Threads : ft[u] = k => u = t
  <2>1. Regular(k) => yields[k] # 0
    BY <1>1 DEF PlaceInv, RegularState
  <2>2. Regular(k) => \A i \in DOMAIN m_fibers : m_fibers[i].fiber # k
    BY <1>1 DEF PlaceInv, RegularOnce, k
  <2>3. Regular(k) => \A u \in Threads : ft[u] = k => u = t
    BY <1>1 DEF PlaceInv, RegularOnce, k
  <2> QED BY <2>1, <2>2, <2>3
<1>5. yields[k] # 0
  BY <1>4 DEF Regular
<1>6. RegularOnce'
  <2>1. \A i, j \in DOMAIN m_fibers' :
          m_fibers'[i].fiber = m_fibers'[j].fiber /\ Regular(m_fibers'[i].fiber) => i = j
    BY <1>3, <1>4 DEF PlaceInv, RegularOnce
  <2>2. \A u, v \in Threads : ft'[u] # None /\ ft'[u] = ft'[v] /\ Regular(ft'[u]) => u = v
    BY <1>1 DEF PlaceInv, RegularOnce
  <2>3. \A u \in Threads : \A i \in DOMAIN m_fibers' :
          ft'[u] = m_fibers'[i].fiber /\ Regular(ft'[u]) =>
            m_state[ft'[u]] = "EXEC" /\ wake[ft'[u]] = "fired"
    <3> SUFFICES ASSUME NEW u \in Threads, NEW i \in DOMAIN m_fibers',
                        ft'[u] = m_fibers'[i].fiber, Regular(ft'[u])
                 PROVE  m_state[ft'[u]] = "EXEC" /\ wake[ft'[u]] = "fired"
      OBVIOUS
    <3>1. u # t /\ ft'[u] = ft[u]
      BY <1>1, <1>3, SchedularAssumption
    <3>2. i \in DOMAIN m_fibers
      BY <1>3, <1>4, <3>1
    <3> QED BY <1>3, <3>1, <3>2 DEF PlaceInv, RegularOnce
  <2> QED BY <1>1, <2>1, <2>2, <2>3 DEF RegularOnce, Regular
<1>7. RegularInHand'
  BY <1>1 DEF PlaceInv, RegularInHand, Regular
<1>8. RegularState'
  <2>1. ASSUME NEW x \in Tasks, Regular(x)
        PROVE  /\ m_state[x] = "EXEC" => \E u \in Threads : ft'[u] = x /\ pc'[u] = "exec"
               /\ wake[x] = "armed" => ~\E i \in DOMAIN m_fibers' : m_fibers'[i].fiber = x
    <3>1. m_state[x] = "EXEC" => \E u \in Threads : ft'[u] = x /\ pc'[u] = "exec"
      <4>1. \A u \in Threads : ft[u] = x /\ m_state[x] = "EXEC" => u # t
        BY <1>1 DEF k
      <4> QED BY <1>1, <2>1, <4>1 DEF PlaceInv, RegularState
    <3>2. wake[x] = "armed" => ~\E i \in DOMAIN m_fibers' : m_fibers'[i].fiber = x
      BY <1>1, <1>3, <2>1 DEF PlaceInv, RegularState, Queued
    <3> QED BY <3>1, <3>2
  <2> QED BY <1>1, <2>1 DEF PlaceInv, RegularState, Regular, Queued
<1>9. PinKept'
  <2>1. \A i \in DOMAIN m_fibers' : yields[m_fibers'[i].fiber] = 0 =>
          m_fibers'[i].thread = pin[m_fibers'[i].fiber] \/ m_state[m_fibers'[i].fiber] = "EXEC"
    BY <1>3, <1>5 DEF PlaceInv, PinKept
  <2>2. \A u \in Threads : ft'[u] # None /\ yields[ft'[u]] = 0 => pin[ft'[u]] \in {AnyThread, u}
    BY <1>1 DEF PlaceInv, PinKept
  <2> QED BY <1>1, <2>1, <2>2 DEF PinKept
<1> QED BY <1>6, <1>7, <1>8, <1>9 DEF PlaceInv

LEMMA WakePlaces ==
  ASSUME TypeOK, PlaceInv, NEW k \in Tasks, Wake(k)
  PROVE  PlaceInv'
<1>1. /\ wake[k] = "armed" /\ wake'[k] = "fired"
      /\ \A x \in Tasks : x # k => wake'[x] = wake[x]
      /\ m_fibers' = Push(k, AnyThread) /\ UNCHANGED <<m_state, pc, ft, yields, pin>>
  BY DEF Wake, TypeOK
<1>2. /\ DOMAIN m_fibers \subseteq DOMAIN m_fibers'
      /\ \A i \in DOMAIN m_fibers : m_fibers'[i] = m_fibers[i] /\ m_fibers[i].fiber \in Tasks
      /\ \A i \in DOMAIN m_fibers' \ DOMAIN m_fibers : m_fibers'[i].fiber = k
      /\ \A i, j \in DOMAIN m_fibers' \ DOMAIN m_fibers : i = j
  BY <1>1, PushPlaces
<1>3. Regular(k) => /\ k \in Holders /\ m_state[k] = "EXEC"
                    /\ \A i \in DOMAIN m_fibers : m_fibers[i].fiber # k
  BY <1>1 DEF PlaceInv, RegularState, Queued
<1>4. RegularOnce'
  <2>1. \A i, j \in DOMAIN m_fibers' :
          m_fibers'[i].fiber = m_fibers'[j].fiber /\ Regular(m_fibers'[i].fiber) => i = j
    BY <1>2, <1>3 DEF PlaceInv, RegularOnce
  <2>2. \A u, v \in Threads : ft[u] # None /\ ft[u] = ft[v] /\ Regular(ft[u]) => u = v
    BY DEF PlaceInv, RegularOnce
  <2>3. ASSUME NEW u \in Threads, NEW i \in DOMAIN m_fibers',
               ft[u] = m_fibers'[i].fiber, Regular(ft[u])
        PROVE  m_state[ft[u]] = "EXEC" /\ wake'[ft[u]] = "fired"
    <3>1. CASE ft[u] = k
      BY <1>1, <1>3, <2>3, <3>1
    <3>2. CASE ft[u] # k
      BY <1>1, <1>2, <2>3, <3>2 DEF PlaceInv, RegularOnce
    <3> QED BY <3>1, <3>2
  <2> QED BY <1>1, <2>1, <2>2, <2>3 DEF RegularOnce, Regular
<1>5. RegularInHand'
  BY <1>1 DEF PlaceInv, RegularInHand, Regular
<1>6. RegularState'
  <2>1. ASSUME NEW x \in Tasks, Regular(x)
        PROVE  /\ wake'[x] # "none" => x \in Holders /\ m_state[x] = "EXEC"
               /\ wake'[x] = "armed" => ~\E i \in DOMAIN m_fibers' : m_fibers'[i].fiber = x
    <3>1. CASE x = k
      BY <1>1, <1>3, <2>1, <3>1
    <3>2. CASE x # k
      BY <1>1, <1>2, <2>1, <3>2 DEF PlaceInv, RegularState, Queued
    <3> QED BY <3>1, <3>2
  <2> QED BY <1>1, <2>1 DEF PlaceInv, RegularState, Regular, Queued
<1>7. PinKept'
  <2>1. \A i \in DOMAIN m_fibers' : yields[m_fibers'[i].fiber] = 0 =>
          m_fibers'[i].thread = pin[m_fibers'[i].fiber] \/ m_state[m_fibers'[i].fiber] = "EXEC"
    BY <1>2, <1>3 DEF PlaceInv, PinKept, Regular
  <2> QED BY <1>1, <2>1 DEF PlaceInv, PinKept
<1> QED BY <1>4, <1>5, <1>6, <1>7 DEF PlaceInv

(* The take of run(): the entry leaves the queue for the thread's hands. *)
LEMMA TakePlaces ==
  ASSUME TypeOK, PlaceInv, NEW t \in Threads, Take(t)
  PROVE  PlaceInv'
<1>1. PICK i \in DOMAIN m_fibers :
        /\ Runnable(t, m_fibers[i])
        /\ m_fibers' = Erase(m_fibers, i)
        /\ ft' = [ft EXCEPT ![t] = m_fibers[i].fiber]
  BY DEF Take
<1> DEFINE k == m_fibers[i].fiber
           Old(j) == IF j < i THEN j ELSE j + 1
<1>2. /\ k \in Tasks /\ k # None
      /\ \A j \in DOMAIN m_fibers : m_fibers[j].fiber \in Tasks
      /\ \A u \in Threads : ft[u] # None => ft[u] \in Tasks
  BY QueueType, SchedularAssumption DEF TypeOK
<1>3. /\ UNCHANGED <<m_state, wake, yields, pin>> /\ pc'[t] = "dispatch"
      /\ ft[t] = None
      /\ \A u \in Threads : u # t => pc'[u] = pc[u]
      /\ \A u \in Threads : ft'[u] = IF u = t THEN k ELSE ft[u]
  BY <1>1, <1>2 DEF Take, Go, TypeOK
<1>4. m_state[k] # "EXEC" /\ m_fibers[i].thread \in {AnyThread, t}
  BY <1>1 DEF Runnable
<1>5. /\ \A j \in DOMAIN m_fibers' : Old(j) \in DOMAIN m_fibers \ {i}
      /\ \A j \in DOMAIN m_fibers' : m_fibers'[j] = m_fibers[Old(j)]
      /\ DOMAIN m_fibers' \subseteq Int /\ i \in Int
  BY <1>1, QueueType, EraseEntries
<1>6. \A j, l \in DOMAIN m_fibers' : Old(j) = Old(l) => j = l
  <2>1. \A j, l \in Int : Old(j) = Old(l) => j = l
    BY <1>5
  <2> QED BY <1>5, <2>1
<1> HIDE DEF Old
<1>7. Regular(k) => /\ \A j \in DOMAIN m_fibers' : m_fibers'[j].fiber # k
                    /\ \A u \in Threads : ft[u] # k
  BY <1>4, <1>5 DEF PlaceInv, RegularOnce
<1>8. yields[k] = 0 => pin[k] \in {AnyThread, t}
  BY <1>4 DEF PlaceInv, PinKept
<1> HIDE DEF k
<1>9. RegularOnce'
  <2>1. \A j, l \in DOMAIN m_fibers' :
          m_fibers'[j].fiber = m_fibers'[l].fiber /\ Regular(m_fibers'[j].fiber) => j = l
    BY <1>5, <1>6 DEF PlaceInv, RegularOnce
  <2>2. \A u, v \in Threads : ft'[u] # None /\ ft'[u] = ft'[v] /\ Regular(ft'[u]) => u = v
    BY <1>3, <1>7 DEF PlaceInv, RegularOnce
  <2>3. \A u \in Threads : \A j \in DOMAIN m_fibers' :
          ft'[u] = m_fibers'[j].fiber /\ Regular(ft'[u]) =>
            m_state[ft'[u]] = "EXEC" /\ wake[ft'[u]] = "fired"
    BY <1>3, <1>5, <1>7 DEF PlaceInv, RegularOnce
  <2> QED BY <1>3, <2>1, <2>2, <2>3 DEF RegularOnce, Regular
<1>10. RegularInHand'
  BY <1>3, <1>4 DEF PlaceInv, RegularInHand, Regular, k
<1>11. RegularState'
  <2>1. ASSUME NEW x \in Tasks, Regular(x)
        PROVE  /\ m_state[x] = "EXEC" => \E u \in Threads : ft'[u] = x /\ pc'[u] = "exec"
               /\ wake[x] = "armed" => ~\E j \in DOMAIN m_fibers' : m_fibers'[j].fiber = x
    <3>1. m_state[x] = "EXEC" => \E u \in Threads : ft'[u] = x /\ pc'[u] = "exec"
      <4>1. x # None
        BY SchedularAssumption
      <4>2. m_state[x] = "EXEC" => \E u \in Threads : ft[u] = x /\ pc[u] = "exec" /\ u # t
        BY <1>3, <2>1, <4>1 DEF PlaceInv, RegularState
      <4> QED BY <1>3, <4>2
    <3>2. wake[x] = "armed" => ~\E j \in DOMAIN m_fibers' : m_fibers'[j].fiber = x
      BY <1>5, <2>1 DEF PlaceInv, RegularState, Queued
    <3> QED BY <3>1, <3>2
  <2> QED BY <1>3, <2>1 DEF PlaceInv, RegularState, Regular, Queued
<1>12. PinKept'
  <2>1. \A j \in DOMAIN m_fibers' : yields[m_fibers'[j].fiber] = 0 =>
          m_fibers'[j].thread = pin[m_fibers'[j].fiber] \/ m_state[m_fibers'[j].fiber] = "EXEC"
    BY <1>5 DEF PlaceInv, PinKept
  <2>2. \A u \in Threads : ft'[u] # None /\ yields[ft'[u]] = 0 => pin[ft'[u]] \in {AnyThread, u}
    BY <1>3, <1>8 DEF PlaceInv, PinKept
  <2> QED BY <1>3, <2>1, <2>2 DEF PinKept
<1> QED BY <1>9, <1>10, <1>11, <1>12 DEF PlaceInv

LEMMA ResetPlaces ==
  ASSUME TypeOK, PlaceInv, NEW k \in Tasks, Reset(k)
  PROVE  PlaceInv'
<1>1. /\ \A i \in DOMAIN m_fibers : m_fibers[i].fiber # k
      /\ \A u \in Threads : ft[u] # k
      /\ m_state[k] \in Ended /\ m_state'[k] = "INIT"
      /\ \A x \in Tasks : x # k => m_state'[x] = m_state[x]
      /\ UNCHANGED <<m_fibers, pc, ft, wake, yields, pin>>
  BY DEF Reset, SetState, Free, Queued, InHand, TypeOK
<1>2. /\ \A i \in DOMAIN m_fibers : m_fibers[i].fiber \in Tasks
      /\ \A u \in Threads : ft[u] # None => ft[u] \in Tasks
  BY QueueType DEF TypeOK
<1>3. RegularOnce' /\ PinKept'
  BY <1>1, <1>2 DEF PlaceInv, RegularOnce, PinKept, Regular
<1>4. RegularInHand'
  BY <1>1, <1>2 DEF PlaceInv, RegularInHand, Regular
<1>5. RegularState'
  <2>1. Regular(k) => wake[k] = "none"
    BY <1>1 DEF PlaceInv, RegularState, TypeOK, Ended
  <2> QED BY <1>1, <2>1 DEF PlaceInv, RegularState, Regular, Queued
<1> QED BY <1>3, <1>4, <1>5 DEF PlaceInv

(* Every action of Next keeps the places of the regular fibers. *)
LEMMA PlaceInvNext == CountInv /\ PlaceInv /\ [Next]_vars => PlaceInv'
<1> SUFFICES ASSUME CountInv, PlaceInv, [Next]_vars PROVE PlaceInv'
  OBVIOUS
<1> TypeOK /\ OwnerInv
  BY DEF CountInv
<1>. Pins \subseteq Threads /\ Caller \in Threads
  BY SchedularAssumption DEF Threads
<1>1. ASSUME NEW k \in Tasks, NEW thr \in Pins \cup {AnyThread}, ClientSchedule(k, thr)
      PROVE  PlaceInv'
  BY <1>1, SubmitOne DEF ClientSchedule
<1>2. ASSUME NEW a \in Tasks, NEW b \in Tasks, ClientScheduleRange(a, b)
      PROVE  PlaceInv'
  BY <1>2, SubmitRange
<1>3. ASSUME NEW k \in Tasks, Reset(k)
      PROVE  PlaceInv'
  BY <1>3, ResetPlaces
<1>4. CASE Start
  <2>1. \A t \in Threads : ft[t] = None
    BY <1>4 DEF Start, OwnerInv, TypeOK
  <2> QED BY <1>4, <2>1, SamePlaces DEF Start
<1>5. CASE StopBegin
  BY <1>5, SamePlaces DEF StopBegin
<1>6. CASE StopFlag
  BY <1>6, SamePlaces DEF StopFlag
<1>7. CASE StopRootSkip
  BY <1>7, SamePlaces DEF StopRootSkip
<1>8. CASE StopRootCall
  <2>1. ft[Caller] = None
    BY <1>8 DEF StopRootCall, OwnerInv, TypeOK
  <2>2. \A t \in Threads : ft[t] # None => pc'[t] = pc[t]
    BY <1>8, <2>1 DEF StopRootCall, Go, TypeOK
  <2> QED BY <1>8, <2>2, SamePlaces DEF StopRootCall
<1>9. CASE Join
  BY <1>9, SamePlaces DEF Join
<1>10. ASSUME NEW t \in Threads, Take(t)
      PROVE  PlaceInv'
  BY <1>10, TakePlaces
<1>11. ASSUME NEW t \in Threads, Drop(t)
      PROVE  PlaceInv'
  <2>1. ft[t] \in Tasks
    BY <1>11 DEF Drop, TypeOK
  <2>2. \A u \in Threads : u # t => pc'[u] = pc[u]
    BY <1>11 DEF Drop, Go, TypeOK
  <2> QED BY <1>11, <2>1, <2>2, ReleaseStep DEF Drop, Release, Ended
<1>12. ASSUME NEW t \in Threads, SwapIn(t)
      PROVE  PlaceInv'
  <2> DEFINE k == ft[t]
  <2>1. k \in Tasks /\ k # None /\ pc[t] = "dispatch"
    BY <1>12, SchedularAssumption DEF SwapIn, TypeOK
  <2>2. /\ pc'[t] = "exec" /\ \A u \in Threads : u # t => pc'[u] = pc[u]
        /\ m_state'[k] = "EXEC" /\ wake'[k] = "none"
        /\ \A x \in Tasks : x # k => m_state'[x] = m_state[x] /\ wake'[x] = wake[x]
        /\ UNCHANGED <<m_fibers, ft, pin, yields>>
    BY <1>12, <2>1 DEF SwapIn, Go, SetState, TypeOK
  <2>3. Regular(k) => ~Queued(k)
    BY <2>1 DEF PlaceInv, RegularInHand, RegularOnce, Queued
  <2> HIDE DEF k
  <2>4. ft[t] = k
    BY DEF k
  <2> QED BY <2>1, <2>2, <2>3, <2>4, HandStep DEF Regular
<1>13. ASSUME NEW t \in Threads, YieldToReady(t)
      PROVE  PlaceInv'
  <2> DEFINE k == ft[t]
  <2>1. k \in Tasks /\ k # None /\ pc[t] = "exec" /\ wake[k] = "none"
    BY <1>13, SchedularAssumption DEF YieldToReady, TypeOK
  <2>2. /\ pc'[t] = "swapout" /\ \A u \in Threads : u # t => pc'[u] = pc[u]
        /\ m_state'[k] = "READY" /\ yields'[k] # 0
        /\ \A x \in Tasks : x # k => m_state'[x] = m_state[x] /\ yields'[x] = yields[x]
        /\ UNCHANGED <<m_fibers, ft, pin, wake>>
    BY <1>13, <2>1 DEF YieldToReady, Go, SetState, TypeOK
  <2>3. Regular(k) => ~Queued(k)
    BY <2>1 DEF PlaceInv, RegularOnce, Queued
  <2> HIDE DEF k
  <2>4. ft[t] = k
    BY DEF k
  <2> QED BY <2>1, <2>2, <2>3, <2>4, HandStep DEF Regular
<1>14. ASSUME NEW t \in Threads, Arm(t)
      PROVE  PlaceInv'
  <2> DEFINE k == ft[t]
  <2>1. k \in Tasks /\ k # None /\ pc[t] = "exec" /\ wake[k] = "none" /\ k \in Holders
    BY <1>14, SchedularAssumption DEF Arm, TypeOK
  <2>2. /\ wake'[k] = "armed"
        /\ \A x \in Tasks : x # k => wake'[x] = wake[x]
        /\ UNCHANGED <<m_fibers, m_state, pc, ft, pin, yields>>
    BY <1>14, <2>1 DEF Arm, TypeOK
  <2>3. Regular(k) => ~Queued(k) /\ m_state[k] = "EXEC"
    BY <2>1 DEF PlaceInv, RegularOnce, RegularInHand, Queued
  <2> HIDE DEF k
  <2>4. ft[t] = k
    BY DEF k
  <2> QED BY <2>1, <2>2, <2>3, <2>4, HandStep DEF Regular
<1>15. ASSUME NEW t \in Threads, YieldToHold(t)
      PROVE  PlaceInv'
  <2> DEFINE k == ft[t]
  <2>1. k \in Tasks /\ k # None /\ pc[t] = "exec" /\ wake[k] # "none"
    BY <1>15, SchedularAssumption DEF YieldToHold, TypeOK
  <2>2. /\ yields'[k] # 0 /\ \A u \in Threads : u # t => pc'[u] = pc[u]
        /\ \A x \in Tasks : x # k => m_state'[x] = m_state[x] /\ yields'[x] = yields[x]
        /\ UNCHANGED <<m_fibers, ft, pin, wake>>
    BY <1>15, <2>1 DEF YieldToHold, Go, SetState, TypeOK
  <2>3. k \in Holders
    BY <2>1 DEF PlaceInv, RegularState, Regular
  <2> HIDE DEF k
  <2>4. ft[t] = k
    BY DEF k
  <2> QED BY <2>1, <2>2, <2>3, <2>4, HandStep
<1>16. ASSUME NEW t \in Threads, Finish(t)
      PROVE  PlaceInv'
  <2> DEFINE k == ft[t]
  <2>1. k \in Tasks /\ k # None /\ pc[t] = "exec" /\ wake[k] = "none"
    BY <1>16, SchedularAssumption DEF Finish, TypeOK
  <2>2. /\ pc'[t] = "swapout" /\ \A u \in Threads : u # t => pc'[u] = pc[u]
        /\ m_state'[k] \in Ended
        /\ \A x \in Tasks : x # k => m_state'[x] = m_state[x]
        /\ UNCHANGED <<m_fibers, ft, pin, wake, yields>>
    BY <1>16, <2>1 DEF Finish, Go, SetState, TypeOK
  <2>3. Regular(k) => ~Queued(k)
    BY <2>1 DEF PlaceInv, RegularOnce, Queued
  <2> HIDE DEF k
  <2>4. ft[t] = k
    BY DEF k
  <2> QED BY <2>1, <2>2, <2>3, <2>4, HandStep DEF Regular, Ended
<1>17. ASSUME NEW t \in Threads, NEW k \in Tasks, NEW thr \in Pins \cup {AnyThread},
              TaskSchedule(t, k, thr)
      PROVE  PlaceInv'
  BY <1>17, SubmitOne DEF TaskSchedule
<1>18. ASSUME NEW t \in Threads, SwapOut(t) \/ Back(t) \/ SettleOther(t)
      PROVE  PlaceInv'
  <2> DEFINE k == ft[t]
  <2>1. /\ k \in Tasks /\ k # None /\ pc[t] \in {"swapout", "back", "settle"}
        /\ UNCHANGED <<m_fibers, m_state, ft, pin, wake, yields>>
        /\ \A u \in Threads : u # t => pc'[u] = pc[u]
    BY <1>18, SchedularAssumption DEF SwapOut, Back, SettleOther, Go, TypeOK
  <2>2. Regular(k) => m_state[k] \in Ended \cup {"READY"}
    BY <2>1 DEF PlaceInv, RegularInHand
  <2>3. Regular(k) => pc'[t] \in {"back", "settle"}
    BY <1>18, <2>2 DEF SwapOut, Back, SettleOther, Go, TypeOK
  <2>4. Regular(k) => /\ ~Queued(k) /\ wake[k] = "none"
                      /\ m_state[k] = "READY" => yields[k] # 0
    BY <2>1, <2>2 DEF PlaceInv, RegularOnce, RegularState, Queued, Ended
  <2> HIDE DEF k
  <2>5. ft[t] = k
    BY DEF k
  <2> QED BY <2>1, <2>2, <2>3, <2>4, <2>5, HandStep DEF Regular, Ended
<1>19. ASSUME NEW t \in Threads, SettleReady(t)
      PROVE  PlaceInv'
  BY <1>19, SettleReadyPlaces
<1>20. ASSUME NEW t \in Threads, SettleEnded(t)
      PROVE  PlaceInv'
  <2>1. ft[t] \in Tasks
    BY <1>20 DEF SettleEnded, TypeOK
  <2>2. \A u \in Threads : u # t => pc'[u] = pc[u]
    BY <1>20 DEF SettleEnded, Go, TypeOK
  <2> QED BY <1>20, <2>1, <2>2, ReleaseStep DEF SettleEnded, Release, Ended
<1>21. ASSUME NEW t \in Threads, SettleHold(t)
      PROVE  PlaceInv'
  <2>1. ft[t] \in Tasks /\ ft[t] # None
    BY <1>21, SchedularAssumption DEF SettleHold, TypeOK
  <2>2. \A u \in Threads : u # t => pc'[u] = pc[u]
    BY <1>21 DEF SettleHold, Go, TypeOK
  <2>3. \A x \in Tasks : x # ft[t] => m_state'[x] = m_state[x]
    BY <1>21 DEF SettleHold, SetState, TypeOK
  <2>4. ~Regular(ft[t])
    BY <1>21, <2>1 DEF SettleHold, PlaceInv, RegularInHand
  <2> QED BY <1>21, <2>1, <2>2, <2>3, <2>4, ReleaseStep DEF SettleHold, Release
<1>22. ASSUME NEW t \in Threads, EnterIdle(t) \/ LeaveIdle(t) \/ Break(t)
      PROVE  PlaceInv'
  <2>1. ft[t] = None
    BY <1>22 DEF EnterIdle, LeaveIdle, Break, TypeOK
  <2>2. \A u \in Threads : ft[u] # None => pc'[u] = pc[u]
    BY <1>22, <2>1 DEF EnterIdle, LeaveIdle, Break, Go, TypeOK
  <2> QED BY <1>22, <2>2, SamePlaces DEF EnterIdle, LeaveIdle, Break
<1>23. ASSUME NEW k \in Tasks, Wake(k)
      PROVE  PlaceInv'
  BY <1>23, WakePlaces
<1>24. CASE UNCHANGED vars
  BY <1>24, SamePlaces DEF vars
<1>. QED
  BY <1>1, <1>2, <1>3, <1>4, <1>5, <1>6, <1>7, <1>8, <1>9, <1>10, <1>11, <1>12, <1>13,
     <1>14, <1>15, <1>16, <1>17, <1>18, <1>19, <1>20, <1>21, <1>22, <1>23, <1>24
  DEF Next, Client, Stop, Run, Body

LEMMA PlacesKept == Spec => [](CountInv /\ PlaceInv)
<1>1. Init => CountInv /\ PlaceInv
  BY CountInvInit, PlaceInvInit
<1>2. CountInv /\ PlaceInv /\ [Next]_vars => (CountInv /\ PlaceInv)'
  BY CountInvNext, PlaceInvNext
<1> QED BY <1>1, <1>2, PTL DEF Spec

(* The thread named when a task is submitted is the only one that runs it   *)
(* until it first yields, for any number of threads and tasks, with fibers  *)
(* that hold among them: the scan of run() passes over the entries of other *)
(* threads, and no resubmission reaches a task before its first yield.      *)
THEOREM PinsAreHonoured == Spec => []PinHonoured
<1>1. CountInv /\ PlaceInv => PinHonoured
  <2> SUFFICES ASSUME TypeOK, PlaceInv, NEW t \in Threads, pc[t] = "exec", yields[ft[t]] = 0
               PROVE  pin[ft[t]] \in {AnyThread, t}
    BY DEF PinHonoured, CountInv
  <2>1. ft[t] # None
    BY DEF TypeOK
  <2> QED BY <2>1 DEF PlaceInv, PinKept
<1> QED BY <1>1, PlacesKept, PTL

(* As long as no fiber waits for an event, a submitted fiber is in exactly  *)
(* one place: run() is the only one to resubmit, and does so after the      *)
(* fiber has left its context.                                              *)
THEOREM FibersAreInOnePlace ==
  ASSUME Holders = {}
  PROVE  Spec => []OnePlace
<1>1. CountInv /\ PlaceInv => OnePlace
  <2> SUFFICES ASSUME TypeOK, PlaceInv PROVE OnePlace
    BY DEF CountInv
  <2>1. \A k : Regular(k)
    BY DEF Regular
  <2>2. \A k \in Tasks : wake[k] = "none"
    BY <2>1 DEF PlaceInv, RegularState, TypeOK
  <2>3. \A t \in Threads : ft[t] # None => ft[t] \in Tasks
    BY DEF TypeOK
  <2>4. \A t \in Threads : ft[t] # None => ~Queued(ft[t])
    BY <2>1, <2>2, <2>3 DEF PlaceInv, RegularOnce, Queued
  <2> QED BY <2>1, <2>4 DEF PlaceInv, RegularOnce, RegularState, OnePlace
<1> QED BY <1>1, PlacesKept, PTL

(* What the assertions of Fiber rest on: they fail for a fiber only after   *)
(* some fiber has held.                                                     *)
HeldBefore == \E k \in Holders : yields[k] # 0
AssertInv  == FiberAssertionsHold \/ HeldBefore

LEMMA AssertInvNext == CountInv /\ PlaceInv /\ AssertInv /\ [Next]_vars => AssertInv'
<1> SUFFICES ASSUME TypeOK, PlaceInv, AssertInv, [Next]_vars PROVE AssertInv'
  BY DEF CountInv
<1>1. ASSUME NEW t \in Threads, SwapIn(t), Alive
      PROVE  AssertInv'
  <2>1. ft[t] \in Tasks /\ ft[t] # None /\ pc[t] = "dispatch" /\ yields' = yields
    BY <1>1, SchedularAssumption DEF SwapIn, TypeOK
  <2>2. CASE Regular(ft[t])
    <3>1. m_state[ft[t]] # "EXEC"
      BY <2>1, <2>2 DEF PlaceInv, RegularInHand
    <3>2. ~OnCpu(ft[t])
      BY <2>1, <2>2 DEF PlaceInv, RegularOnce, OnCpu
    <3> QED BY <1>1, <3>1, <3>2 DEF SwapIn, AssertInv, FiberAssertionsHold
  <2>3. CASE ~Regular(ft[t])
    BY <2>1, <2>3 DEF Regular, AssertInv, HeldBefore
  <2> QED BY <2>2, <2>3
<1>2. ASSUME NEW t \in Threads, YieldToReady(t) \/ YieldToHold(t), Alive
      PROVE  AssertInv'
  <2>1. ft[t] \in Tasks /\ ft[t] # None /\ pc[t] = "exec"
    BY <1>2, SchedularAssumption DEF YieldToReady, YieldToHold, TypeOK
  <2>2. \A k \in Tasks : yields[k] # 0 => yields'[k] # 0
    BY <1>2, <2>1 DEF YieldToReady, YieldToHold, TypeOK
  <2>3. CASE Regular(ft[t])
    <3>1. m_state[ft[t]] = "EXEC"
      BY <2>1, <2>3 DEF PlaceInv, RegularInHand
    <3> QED BY <1>2, <3>1 DEF YieldToReady, YieldToHold, AssertInv, FiberAssertionsHold
  <2>4. CASE ~Regular(ft[t])
    BY <2>1, <2>2, <2>4 DEF Regular, AssertInv, HeldBefore
  <2> QED BY <2>3, <2>4
<1>3. CASE StopRootCall
  BY <1>3 DEF StopRootCall, AssertInv, FiberAssertionsHold, HeldBefore
<1>4. CASE UNCHANGED <<abort, yields>>
  BY <1>4 DEF AssertInv, FiberAssertionsHold, HeldBefore
<1>5. CASE Next
  <2>1. CASE Client
    <3>1. UNCHANGED <<abort, yields>>
      BY <2>1 DEF Client, ClientSchedule, ClientScheduleRange, Reset, Start, StopBegin
    <3> QED BY <3>1, <1>4
  <2>2. CASE Stop
    <3>1. CASE StopFlag \/ StopRootSkip \/ Join
      BY <1>4, <3>1 DEF StopFlag, StopRootSkip, Join
    <3> QED BY <1>3, <2>2, <3>1 DEF Stop
  <2>3. CASE \E k \in Tasks : Wake(k)
    BY <1>4, <2>3 DEF Wake
  <2>4. ASSUME NEW t \in Threads, Body(t) PROVE AssertInv'
    <3>1. CASE YieldToReady(t) \/ YieldToHold(t)
      BY <1>2, <1>5, <3>1 DEF Next
    <3>2. CASE Arm(t) \/ Finish(t)
      BY <1>4, <3>2 DEF Arm, Finish
    <3>3. CASE \E k \in Tasks, thr \in Pins \cup {AnyThread} : TaskSchedule(t, k, thr)
      BY <1>4, <3>3 DEF TaskSchedule
    <3> QED BY <2>4, <3>1, <3>2, <3>3 DEF Body
  <2>5. ASSUME NEW t \in Threads, Run(t) PROVE AssertInv'
    <3>1. CASE SwapIn(t)
      BY <1>1, <1>5, <3>1 DEF Next
    <3>2. CASE Body(t)
      BY <2>4, <3>2
    <3>3. CASE Take(t) \/ Drop(t) \/ SwapOut(t) \/ Back(t)
      BY <1>4, <3>3 DEF Take, Drop, SwapOut, Back
    <3>4. CASE SettleReady(t) \/ SettleEnded(t) \/ SettleOther(t) \/ SettleHold(t)
      BY <1>4, <3>4 DEF SettleReady, SettleEnded, SettleOther, SettleHold
    <3>5. CASE EnterIdle(t) \/ LeaveIdle(t) \/ Break(t)
      BY <1>4, <3>5 DEF EnterIdle, LeaveIdle, Break
    <3> QED BY <2>5, <3>1, <3>2, <3>3, <3>4, <3>5 DEF Run
  <2> QED BY <1>5, <2>1, <2>2, <2>3, <2>5 DEF Next
<1>6. CASE UNCHANGED vars
  BY <1>4, <1>6 DEF vars
<1> QED BY <1>5, <1>6

(* Until a first fiber has held, whatever the number of threads and the     *)
(* interleaving, the assertions of swapIn, YieldToReady and YieldToHold     *)
(* hold and no live context is entered: the race that sched_hold_race finds *)
(* needs a fiber that resumes from an event.                                *)
THEOREM OnlyHeldFibersRace == Spec => [](FiberAssertionsHold \/ HeldBefore)
<1>1. Init => AssertInv
  BY DEF Init, AssertInv, FiberAssertionsHold
<1>2. AssertInv <=> (FiberAssertionsHold \/ HeldBefore)
  BY DEF AssertInv
<1> QED BY <1>1, <1>2, AssertInvNext, PlacesKept, PTL DEF Spec

(* A scheduler whose fibers never wait for an event never fails one of the  *)
(* assertions of Fiber, and never runs one context on two threads.          *)
THEOREM AssertionsHoldWithoutEvents ==
  ASSUME Holders = {}
  PROVE  Spec => []FiberAssertionsHold
<1>1. (FiberAssertionsHold \/ HeldBefore) => FiberAssertionsHold
  BY DEF HeldBefore
<1> QED BY <1>1, OnlyHeldFibersRace, PTL

-----------------------------------------------------------------------------
(* The life of the scheduler, for the refinement of TaskPool.  Until the    *)
(* store to m_stopping no idle fiber ends, so the workers of the last       *)
(* start() stay in run(), and the caller's thread is in run() only inside   *)
(* m_rootFiber->call().                                                     *)
LifeInv ==
  /\ mainPc = "constructed" => \A t \in Threads : pc[t] = "off"
  /\ mainPc \in {"started", "stopFlag", "stopRoot"} => pc[Caller] = "off"
  /\ mainPc \in {"started", "stopFlag"} =>
       /\ m_stopping = FALSE /\ \A t \in Threads : idleTerm[t] = FALSE
       /\ ThreadCount # 0 => \E t \in Workers : pc[t] \notin {"off", "exited"}

(* What run() and schedule() keep of the entries: a READY fiber is waiting  *)
(* somewhere, and in the queue it waits for any thread; only a root fiber   *)
(* makes the caller's thread one to wait for.                               *)
Waits(k, thr) == \E i \in DOMAIN m_fibers : m_fibers[i].fiber = k /\ m_fibers[i].thread = thr
WaitInv ==
  /\ \A k \in Tasks : m_state[k] = "READY" => Queued(k) \/ InHand(k)
  /\ \A k \in Tasks : \A thr \in Threads \cup {AnyThread} :
       Waits(k, thr) => /\ m_state[k] = "READY" => thr = AnyThread
                        /\ thr = Caller => UseCaller

(* Nobody waits for a worker that start() has not made yet. *)
KnownInv == \A k \in Tasks, t \in Workers : Waits(k, t) => pc[t] # "off"

(* The last thread out of run() leaves nothing that any thread could take. *)
LastOut ==
  /\ mainPc = "joining" \/ (mainPc = "stopRoot" /\ ThreadCount # 0)
  /\ \A t \in Workers : pc[t] \in {"off", "exited"}
  => \A k \in Tasks : ~Waits(k, AnyThread)

(* A step of run() that stays in run(), seen from the owner's side *)
LEMMA RunKeepsLife ==
  ASSUME TypeOK, LifeInv, NEW t \in Threads, NEW to \in PC \ {"off", "exited"},
         pc[t] # "off", Go(t, to), UNCHANGED <<mainPc, m_stopping, idleTerm>>
  PROVE  LifeInv'
<1>1. pc'[t] = to /\ \A u \in Threads : u # t => pc'[u] = pc[u]
  BY DEF Go, TypeOK
<1>2. mainPc' = "constructed" => \A u \in Threads : pc'[u] = "off"
  BY DEF LifeInv
<1>3. mainPc' \in {"started", "stopFlag", "stopRoot"} => pc'[Caller] = "off"
  BY <1>1 DEF LifeInv, Threads
<1>4. mainPc' \in {"started", "stopFlag"} =>
        /\ m_stopping' = FALSE /\ \A u \in Threads : idleTerm'[u] = FALSE
        /\ ThreadCount # 0 => \E u \in Workers : pc'[u] \notin {"off", "exited"}
  BY <1>1 DEF LifeInv, Threads
<1> QED BY <1>2, <1>3, <1>4 DEF LifeInv

LEMMA LifeInvNext == CountInv /\ LifeInv /\ [Next]_vars => LifeInv'
<1> SUFFICES ASSUME CountInv, LifeInv, [Next]_vars PROVE LifeInv'
  OBVIOUS
<1> TypeOK /\ OwnerInv
  BY DEF CountInv
<1> Caller \in Threads /\ Caller \notin Workers /\ Threads = Workers \cup {Caller}
  BY SchedularAssumption DEF Threads
<1>1. CASE UNCHANGED <<mainPc, pc, m_stopping, idleTerm>>
  BY <1>1 DEF LifeInv
<1>2. CASE Start
  <2>1. mainPc' = "started" /\ m_stopping' = FALSE
    BY <1>2 DEF Start
  <2>2. \A t \in Threads : idleTerm'[t] = FALSE
    BY <1>2 DEF Start
  <2>3. /\ pc'[Caller] = "off"
        /\ ThreadCount # 0 => \E t \in Workers : pc'[t] \notin {"off", "exited"}
    BY <1>2, StartMoves
  <2> QED BY <2>1, <2>2, <2>3 DEF LifeInv
<1>3. CASE StopBegin
  BY <1>3 DEF StopBegin, LifeInv
<1>4. CASE StopFlag
  <2>1. mainPc' \in {"stopped", "stopRoot"} /\ pc' = pc /\ mainPc = "stopFlag"
    BY <1>4 DEF StopFlag
  <2> QED BY <2>1 DEF LifeInv
<1>5. CASE StopRootSkip
  BY <1>5 DEF StopRootSkip, LifeInv
<1>6. CASE StopRootCall
  BY <1>6 DEF StopRootCall, LifeInv
<1>7. CASE Join
  BY <1>7 DEF Join, LifeInv
<1>8. ASSUME NEW t \in Threads, Run(t)
      PROVE  LifeInv'
  <2>1. CASE Take(t) \/ Drop(t) \/ SwapIn(t)
    BY <2>1, RunKeepsLife DEF Take, Drop, SwapIn, PC
  <2>2. CASE YieldToReady(t) \/ YieldToHold(t) \/ Finish(t)
    BY <2>2, RunKeepsLife DEF YieldToReady, YieldToHold, Finish, PC
  <2>3. CASE Arm(t) \/ \E k \in Tasks, thr \in Pins \cup {AnyThread} : TaskSchedule(t, k, thr)
    BY <1>1, <2>3 DEF Arm, TaskSchedule
  <2>4. CASE SwapOut(t) \/ Back(t)
    BY <2>4, RunKeepsLife DEF SwapOut, Back, PC
  <2>5. CASE SettleReady(t) \/ SettleEnded(t) \/ SettleOther(t) \/ SettleHold(t)
    BY <2>5, RunKeepsLife DEF SettleReady, SettleEnded, SettleOther, SettleHold, PC
  <2>6. CASE EnterIdle(t)
    BY <2>6, RunKeepsLife DEF EnterIdle, PC
  <2>7. CASE LeaveIdle(t)
    <3>1. pc'[t] = "scan" /\ \A u \in Threads : u # t => pc'[u] = pc[u]
      BY <2>7 DEF LeaveIdle, Go, TypeOK
    <3>2. /\ pc[t] = "idle" /\ UNCHANGED <<mainPc, m_stopping>>
          /\ idleTerm' = [idleTerm EXCEPT ![t] = Stopping]
      BY <2>7 DEF LeaveIdle
    <3>3. m_stopping = FALSE => Stopping = FALSE
      BY DEF Stopping
    <3>4. mainPc \in {"started", "stopFlag"} => \A u \in Threads : idleTerm'[u] = FALSE
      BY <3>2, <3>3 DEF LifeInv, TypeOK
    <3> QED BY <3>1, <3>2, <3>4 DEF LifeInv
  <2>8. CASE Break(t)
    <3>1. pc'[t] = "exited" /\ \A u \in Threads : u # t => pc'[u] = pc[u]
      BY <2>8 DEF Break, Go, TypeOK
    <3>2. /\ pc[t] = "scan" /\ idleTerm[t]
          /\ mainPc' = IF t = Caller THEN "joining" ELSE mainPc
      BY <2>8 DEF Break, CallerMainFunc
    <3>3. mainPc \notin {"started", "stopFlag", "constructed"}
      BY <3>2 DEF LifeInv
    <3> QED BY <3>1, <3>2, <3>3 DEF LifeInv
  <2> QED BY <1>8, <2>1, <2>2, <2>3, <2>4, <2>5, <2>6, <2>7, <2>8 DEF Run, Body
<1>9. CASE Client
  <2>1. CASE \/ \E k \in Tasks, thr \in Pins \cup {AnyThread} : ClientSchedule(k, thr)
             \/ \E a, b \in Tasks : ClientScheduleRange(a, b)
             \/ \E k \in Tasks : Reset(k)
    BY <1>1, <2>1 DEF ClientSchedule, ClientScheduleRange, Reset
  <2> QED BY <1>2, <1>3, <1>9, <2>1 DEF Client
<1>10. CASE \E k \in Tasks : Wake(k)
  BY <1>1, <1>10 DEF Wake
<1>11. CASE UNCHANGED vars
  BY <1>1, <1>11 DEF vars
<1> QED BY <1>4, <1>5, <1>6, <1>7, <1>8, <1>9, <1>10, <1>11 DEF Next, Stop

(* The places again, for a scheduler whose fibers do not hold *)
LEMMA PlainPlaces ==
  ASSUME Holders = {}, CountInv, PlaceInv
  PROVE  /\ \A i, j \in DOMAIN m_fibers : m_fibers[i].fiber = m_fibers[j].fiber => i = j
         /\ \A i \in DOMAIN m_fibers : /\ m_fibers[i].fiber \in Tasks
                                       /\ m_state[m_fibers[i].fiber] # "EXEC"
         /\ \A t \in Threads : ft[t] # None => ft[t] \in Tasks /\ ~Queued(ft[t])
         /\ \A t, u \in Threads : ft[t] # None /\ ft[t] = ft[u] => t = u
         /\ \A k \in Tasks : /\ wake[k] = "none" /\ m_state[k] # "HOLD"
                             /\ m_state[k] = "EXEC" => InHand(k)
         /\ \A t \in Threads : ft[t] # None =>
              /\ pc[t] = "dispatch" => m_state[ft[t]] # "EXEC"
              /\ pc[t] = "exec" => m_state[ft[t]] = "EXEC"
              /\ pc[t] \in {"swapout", "back", "settle"} => m_state[ft[t]] \in Ended \cup {"READY"}
              /\ pc[t] # "hold"
<1>1. \A k : Regular(k)
  BY DEF Regular
<1>2. \A k \in Tasks : wake[k] = "none"
  BY <1>1 DEF PlaceInv, RegularState, TypeOK, CountInv
<1>3. \A i \in DOMAIN m_fibers : m_fibers[i].fiber \in Tasks
  BY QueueType DEF CountInv
<1>4. \A t \in Threads : ft[t] # None => ft[t] \in Tasks /\ ~Queued(ft[t])
  BY <1>1, <1>2, ZenonT(60) DEF PlaceInv, RegularOnce, Queued, CountInv, TypeOK
<1>5. \A k \in Tasks : m_state[k] = "EXEC" => InHand(k)
  BY <1>1 DEF PlaceInv, RegularState, InHand
<1>6. \A i \in DOMAIN m_fibers : m_state[m_fibers[i].fiber] # "EXEC"
  BY <1>3, <1>4, <1>5, SchedularAssumption DEF InHand, Queued
<1>7. \A k \in Tasks : m_state[k] # "HOLD"
  BY <1>1 DEF PlaceInv, RegularState
<1>8. /\ \A i, j \in DOMAIN m_fibers : m_fibers[i].fiber = m_fibers[j].fiber => i = j
      /\ \A t, u \in Threads : ft[t] # None /\ ft[t] = ft[u] => t = u
  BY <1>1 DEF PlaceInv, RegularOnce
<1>9. RegularInHand
  BY DEF PlaceInv
<1> QED BY <1>1, <1>2, <1>3, <1>4, <1>5, <1>6, <1>7, <1>8, <1>9 DEF RegularInHand

(* What the operations on the queue do to who waits for whom *)
LEMMA QueuedWaits ==
  ASSUME NEW k
  PROVE  /\ Queued(k) <=> \E thr : Waits(k, thr)
         /\ Queued(k)' <=> \E thr : Waits(k, thr)'
         /\ Stranded(k) <=> \E t \in Threads : Waits(k, t) /\ Gone(t)
         /\ Stranded(k)' <=> \E t \in Threads : Waits(k, t)' /\ Gone(t)'
  BY DEF Queued, Stranded, Waits

LEMMA PushWaits ==
  ASSUME TypeOK, NEW k \in Tasks, NEW thr \in Threads \cup {AnyThread}, m_fibers' = Push(k, thr)
  PROVE  \A x, u : Waits(x, u)' <=> Waits(x, u) \/ (x = k /\ u = thr)
<1> DEFINE e == [fiber |-> k, thread |-> thr]
           n == Len(m_fibers) + 1
<1>1. e \in Entry /\ e.fiber = k /\ e.thread = thr
  BY DEF Entry
<1>2. m_fibers' = Append(m_fibers, e) /\ m_fibers \in Seq(Entry)
  BY DEF Push, TypeOK
<1> HIDE DEF e
<1>3. /\ DOMAIN m_fibers' = DOMAIN m_fibers \cup {n}
      /\ m_fibers'[n] = e
      /\ \A i \in DOMAIN m_fibers : m_fibers'[i] = m_fibers[i]
  BY <1>1, <1>2, PushEntries
<1> HIDE DEF n
<1> QED BY <1>1, <1>3 DEF Waits

LEMMA PushTwoWaits ==
  ASSUME TypeOK, NEW a \in Tasks, NEW b \in Tasks, ClientScheduleRange(a, b)
  PROVE  \A x, u : Waits(x, u)' <=> Waits(x, u) \/ (x \in {a, b} /\ u = AnyThread)
<1> DEFINE ea == [fiber |-> a, thread |-> AnyThread]
           eb == [fiber |-> b, thread |-> AnyThread]
           s == Append(m_fibers, ea)
           n == Len(m_fibers) + 1
           m == Len(s) + 1
<1>1. /\ ea \in Entry /\ ea.fiber = a /\ ea.thread = AnyThread
      /\ eb \in Entry /\ eb.fiber = b /\ eb.thread = AnyThread
  BY DEF Entry
<1>2. m_fibers' = Append(s, eb) /\ m_fibers \in Seq(Entry)
  BY DEF ClientScheduleRange, Push, TypeOK
<1> HIDE DEF ea, eb
<1>3. /\ s \in Seq(Entry) /\ DOMAIN s = DOMAIN m_fibers \cup {n}
      /\ s[n] = ea /\ \A i \in DOMAIN m_fibers : s[i] = m_fibers[i]
  BY <1>1, <1>2, PushEntries
<1> HIDE DEF s, n
<1>4. /\ DOMAIN m_fibers' = DOMAIN s \cup {m}
      /\ m_fibers'[m] = eb /\ \A i \in DOMAIN s : m_fibers'[i] = s[i]
  <2>1. eb \in Entry /\ s \in Seq(Entry) /\ m_fibers' = Append(s, eb)
    BY <1>1, <1>2, <1>3
  <2> QED BY <2>1, PushEntries
<1> HIDE DEF m
<1>5. ASSUME NEW x, NEW u, Waits(x, u)'
      PROVE  Waits(x, u) \/ (x \in {a, b} /\ u = AnyThread)
  BY <1>1, <1>3, <1>4, <1>5 DEF Waits
<1>6. ASSUME NEW x, NEW u, Waits(x, u) \/ (x \in {a, b} /\ u = AnyThread)
      PROVE  Waits(x, u)'
  BY <1>1, <1>3, <1>4, <1>6 DEF Waits
<1> QED BY <1>5, <1>6

LEMMA TakeWaits ==
  ASSUME Holders = {}, CountInv, PlaceInv, NEW t \in Threads, Take(t)
  PROVE  \E k \in Tasks : \E thr \in {AnyThread, t} :
           /\ Waits(k, thr) /\ ft' = [ft EXCEPT ![t] = k] /\ ft[t] = None
           /\ \A u : Waits(k, u) => u = thr
           /\ \A x, u : Waits(x, u)' <=> Waits(x, u) /\ x # k
<1>1. TypeOK
  BY DEF CountInv
<1>2. PICK i \in DOMAIN m_fibers :
        /\ Runnable(t, m_fibers[i])
        /\ m_fibers' = Erase(m_fibers, i)
        /\ ft' = [ft EXCEPT ![t] = m_fibers[i].fiber]
  BY DEF Take
<1> DEFINE k == m_fibers[i].fiber
           thr == m_fibers[i].thread
           Old(j) == IF j < i THEN j ELSE j + 1
<1>3. k \in Tasks /\ thr \in {AnyThread, t} /\ ft[t] = None /\ Waits(k, thr)
  BY <1>1, <1>2, QueueType DEF Runnable, Take, TypeOK, Waits
<1>4. /\ \A j \in DOMAIN m_fibers' : Old(j) \in DOMAIN m_fibers \ {i}
      /\ \A j \in DOMAIN m_fibers' : m_fibers'[j] = m_fibers[Old(j)]
      /\ \A j \in DOMAIN m_fibers \ {i} : \E l \in DOMAIN m_fibers' : j = Old(l)
  BY <1>1, <1>2, QueueType, EraseEntries
<1> HIDE DEF Old
<1>5. \A j \in DOMAIN m_fibers : m_fibers[j].fiber = k => j = i
  BY PlainPlaces
<1>6. \A u : Waits(k, u) => u = thr
  BY <1>5 DEF Waits
<1>7. ASSUME NEW x, NEW u, Waits(x, u)' PROVE Waits(x, u) /\ x # k
  BY <1>4, <1>5, <1>7 DEF Waits
<1>8. ASSUME NEW x, NEW u, Waits(x, u), x # k PROVE Waits(x, u)'
  <2>1. PICK j \in DOMAIN m_fibers : m_fibers[j].fiber = x /\ m_fibers[j].thread = u
    BY <1>8 DEF Waits
  <2>2. j \in DOMAIN m_fibers \ {i}
    BY <1>8, <2>1
  <2> QED BY <1>4, <2>1, <2>2 DEF Waits
<1> QED BY <1>2, <1>3, <1>6, <1>7, <1>8

LEMMA StatusSame ==
  ASSUME NEW x \in Tasks, m_state'[x] = m_state[x], m_state[x] # "HOLD",
         m_state[x] = "INIT" => /\ Stranded(x)' <=> Stranded(x)
                                /\ Queued(x)' \/ InHand(x)' <=> Queued(x) \/ InHand(x)
  PROVE  StatusOf(x)' = StatusOf(x)
  BY DEF StatusOf, Ended

LEMMA PoolStutter ==
  ASSUME \A x \in Tasks : StatusOf(x)' = StatusOf(x),
         mainPc' = "stopped" <=> mainPc = "stopped"
  PROVE  UNCHANGED Pool!vars
  BY DEF Pool!vars

LEMMA PoolMove ==
  ASSUME NEW k \in Tasks, \A x \in Tasks : x # k => StatusOf(x)' = StatusOf(x),
         mainPc' = "stopped" <=> mainPc = "stopped",
         \/ StatusOf(k) = "waiting" /\ StatusOf(k)' = "running"
         \/ StatusOf(k) = "running" /\ StatusOf(k)' = "waiting"
         \/ StatusOf(k) = "running" /\ StatusOf(k)' = "ended"
  PROVE  Pool!Next
<1>1. [x \in Tasks |-> StatusOf(x)]' = [[x \in Tasks |-> StatusOf(x)] EXCEPT ![k] = StatusOf(k)']
  OBVIOUS
<1>2. (mainPc = "stopped")' = (mainPc = "stopped")
  OBVIOUS
<1> QED BY <1>1, <1>2 DEF Pool!Next, Pool!Run, Pool!Yield, Pool!Finish, Pool!Move

LEMMA PoolSubmit ==
  ASSUME NEW K \in SUBSET Tasks, K # {}, NEW to \in {"waiting", "stranded"},
         \A x \in Tasks \ K : StatusOf(x)' = StatusOf(x),
         \A x \in K : StatusOf(x) = "idle" /\ StatusOf(x)' = to,
         mainPc' = mainPc, mainPc # "stopped"
  PROVE  Pool!Next
<1>1. [x \in Tasks |-> StatusOf(x)]'
        = [x \in Tasks |-> IF x \in K THEN to ELSE [y \in Tasks |-> StatusOf(y)][x]]
  OBVIOUS
<1>2. \A x \in K : [y \in Tasks |-> StatusOf(y)][x] = "idle"
  OBVIOUS
<1>3. (mainPc = "stopped")' = (mainPc = "stopped")
  OBVIOUS
<1>4. Pool!Submit(K, to)
  BY <1>1, <1>2, <1>3 DEF Pool!Submit
<1> QED BY <1>4 DEF Pool!Next

(* The steps of the refinement, by what they do to fibers and entries.      *)
(* schedule(), by a client or by a body, of one fiber or of a range         *)
LEMMA SubmitStep ==
  ASSUME WaitInv, NEW K \in SUBSET Tasks, NEW thr \in Pins \cup {AnyThread},
         \A k \in K : Free(k),
         \A x, u : Waits(x, u)' <=> Waits(x, u) \/ (x \in K /\ u = thr),
         UNCHANGED <<m_state, ft, pc, mainPc>>, mainPc # "stopped",
         \A x \in Tasks : m_state[x] # "HOLD"
  PROVE  WaitInv' /\ [Pool!Next]_(Pool!vars)
<1>1. thr = Caller => UseCaller
  BY SchedularAssumption DEF Threads
<1>2. /\ \A x \in Tasks : Queued(x)' <=> Queued(x) \/ x \in K
      /\ \A x \in Tasks : InHand(x)' <=> InHand(x)
      /\ \A u : Gone(u)' <=> Gone(u)
      /\ \A x \in Tasks : Stranded(x)' <=> Stranded(x) \/ (x \in K /\ thr \in Threads /\ Gone(thr))
  <2>1. \A x \in Tasks : Queued(x)' <=> Queued(x) \/ x \in K
    BY QueuedWaits
  <2>2. \A u : Gone(u)' <=> Gone(u)
    BY DEF Gone
  <2>3. \A x \in Tasks : Stranded(x)' <=> Stranded(x) \/ (x \in K /\ thr \in Threads /\ Gone(thr))
    BY QueuedWaits, <2>2
  <2> QED BY <2>1, <2>2, <2>3 DEF InHand
<1>3. \A k \in K : m_state[k] \in Ended \cup {"INIT"} /\ ~Queued(k) /\ ~InHand(k)
  BY DEF Free
<1>4. WaitInv'
  <2>1. \A x \in Tasks : m_state'[x] = "READY" => Queued(x)' \/ InHand(x)'
    BY <1>2 DEF WaitInv
  <2>2. \A x \in Tasks : \A u \in Threads \cup {AnyThread} :
          Waits(x, u)' => /\ m_state'[x] = "READY" => u = AnyThread
                          /\ u = Caller => UseCaller
    BY <1>1, <1>3 DEF WaitInv, Ended
  <2> QED BY <2>1, <2>2 DEF WaitInv
<1> DEFINE I == {k \in K : m_state[k] = "INIT"}
           to == IF thr \in Threads /\ Gone(thr) THEN "stranded" ELSE "waiting"
<1>5. \A x \in Tasks \ I : StatusOf(x)' = StatusOf(x)
  <2> SUFFICES ASSUME NEW x \in Tasks \ I PROVE StatusOf(x)' = StatusOf(x)
    OBVIOUS
  <2>1. m_state[x] = "INIT" => x \notin K
    OBVIOUS
  <2> QED BY <1>2, <2>1, StatusSame
<1>6. ASSUME NEW k \in I PROVE StatusOf(k) = "idle" /\ StatusOf(k)' = to
  <2>1. k \in Tasks /\ k \in K /\ m_state[k] = "INIT" /\ ~Queued(k) /\ ~InHand(k)
    BY <1>3
  <2>2. ~Stranded(k)
    BY <2>1, QueuedWaits
  <2>3. Queued(k)' /\ (Stranded(k)' <=> (thr \in Threads /\ Gone(thr)))
    BY <1>2, <2>1, <2>2
  <2> QED BY <2>1, <2>2, <2>3 DEF StatusOf, Ended
<1>7. CASE I = {}
  <2>1. UNCHANGED Pool!vars
    BY <1>5, <1>7, PoolStutter
  <2> QED BY <1>4, <2>1
<1>8. CASE I # {}
  <2>1. I \in SUBSET Tasks /\ to \in {"waiting", "stranded"}
    OBVIOUS
  <2> HIDE DEF I, to
  <2>2. Pool!Next
    BY <1>5, <1>6, <1>8, <2>1, PoolSubmit
  <2> QED BY <1>4, <2>2
<1> QED BY <1>7, <1>8

(* Steps that change no fiber, no entry, and who waits for nobody *)
LEMMA QuietStep ==
  ASSUME WaitInv, UNCHANGED <<m_fibers, m_state, ft>>,
         \A x \in Tasks : m_state[x] # "HOLD",
         \A t \in Threads : (\E x \in Tasks : Waits(x, t)) => (Gone(t)' <=> Gone(t)),
         mainPc' = "stopped" <=> mainPc = "stopped"
  PROVE  WaitInv' /\ [Pool!Next]_(Pool!vars)
<1>1. /\ \A x, u : Waits(x, u)' <=> Waits(x, u)
      /\ \A x : Queued(x)' <=> Queued(x)
      /\ \A x : InHand(x)' <=> InHand(x)
  BY DEF Waits, Queued, InHand
<1>2. WaitInv'
  BY <1>1 DEF WaitInv
<1>3. \A x \in Tasks : StatusOf(x)' = StatusOf(x)
  <2> SUFFICES ASSUME NEW x \in Tasks PROVE StatusOf(x)' = StatusOf(x)
    OBVIOUS
  <2>1. Stranded(x)' <=> Stranded(x)
    BY <1>1, QueuedWaits
  <2> QED BY <1>1, <2>1, StatusSame
<1>4. UNCHANGED Pool!vars
  BY <1>3, PoolStutter
<1> QED BY <1>2, <1>4

(* The thread that has k gives it a new state: swapIn, a yield, the end. *)
LEMMA StateStep ==
  ASSUME Holders = {}, CountInv, PlaceInv, WaitInv,
         NEW t \in Threads, NEW k \in Tasks, ft[t] = k, NEW s,
         m_state' = [m_state EXCEPT ![k] = s],
         \/ m_state[k] \in {"INIT", "READY"} /\ s = "EXEC"
         \/ m_state[k] = "EXEC" /\ s \in Ended \cup {"READY"},
         UNCHANGED <<m_fibers, ft, mainPc>>,
         \A u \in Threads : Gone(u)' <=> Gone(u)
  PROVE  WaitInv' /\ [Pool!Next]_(Pool!vars)
<1>1. /\ \A x, u : Waits(x, u)' <=> Waits(x, u)
      /\ \A x : Queued(x)' <=> Queued(x)
      /\ \A x : InHand(x)' <=> InHand(x)
  BY DEF Waits, Queued, InHand
<1>2. k # None /\ InHand(k) /\ ~Queued(k)
  BY PlainPlaces, SchedularAssumption DEF InHand
<1>3. m_state'[k] = s /\ \A x \in Tasks : x # k => m_state'[x] = m_state[x]
  BY DEF CountInv, TypeOK
<1>4. WaitInv'
  <2>1. \A x \in Tasks : m_state'[x] = "READY" => Queued(x)' \/ InHand(x)'
    BY <1>1, <1>2, <1>3 DEF WaitInv
  <2>2. \A u : ~Waits(k, u)
    BY <1>2, QueuedWaits
  <2>3. \A x \in Tasks : \A u \in Threads \cup {AnyThread} :
          Waits(x, u)' => /\ m_state'[x] = "READY" => u = AnyThread
                          /\ u = Caller => UseCaller
    BY <1>1, <1>3, <2>2 DEF WaitInv
  <2> QED BY <2>1, <2>3 DEF WaitInv
<1>5. \A x \in Tasks : x # k => StatusOf(x)' = StatusOf(x)
  <2> SUFFICES ASSUME NEW x \in Tasks, x # k PROVE StatusOf(x)' = StatusOf(x)
    OBVIOUS
  <2>1. Stranded(x)' <=> Stranded(x)
    BY <1>1, QueuedWaits
  <2>2. m_state[x] # "HOLD"
    BY PlainPlaces
  <2> QED BY <1>1, <1>3, <2>1, <2>2, StatusSame
<1>6. ~Stranded(k) /\ ~Stranded(k)'
  BY <1>1, <1>2, QueuedWaits
<1>7. CASE m_state[k] \in {"INIT", "READY"} /\ s = "EXEC"
  <2>1. StatusOf(k) = "waiting" /\ StatusOf(k)' = "running"
    BY <1>2, <1>3, <1>6, <1>7 DEF StatusOf, Ended
  <2>2. Pool!Next
    BY <1>5, <2>1, PoolMove
  <2> QED BY <1>4, <2>2
<1>8. CASE m_state[k] = "EXEC" /\ s \in Ended \cup {"READY"}
  <2>1. StatusOf(k) = "running" /\ StatusOf(k)' \in {"ended", "waiting"}
    BY <1>2, <1>3, <1>6, <1>8 DEF StatusOf, Ended
  <2>2. Pool!Next
    BY <1>5, <2>1, PoolMove
  <2> QED BY <1>4, <2>2
<1> QED BY <1>7, <1>8

(* run() lets go of k: ended, or READY and then back in the queue. *)
LEMMA LetGoStep ==
  ASSUME Holders = {}, CountInv, PlaceInv, WaitInv,
         NEW t \in Threads, NEW k \in Tasks, ft[t] = k,
         ft' = [ft EXCEPT ![t] = None], UNCHANGED <<m_state, mainPc>>,
         \/ m_state[k] \in Ended /\ m_fibers' = m_fibers
         \/ m_state[k] = "READY" /\ m_fibers' = Push(k, AnyThread),
         \A u \in Threads : Gone(u)' <=> Gone(u)
  PROVE  WaitInv' /\ [Pool!Next]_(Pool!vars)
<1>1. TypeOK /\ AnyThread \notin Threads /\ k # None /\ None \notin Tasks /\ Caller \in Threads
  BY SchedularAssumption DEF CountInv, Threads
<1>2. \A x, u : Waits(x, u)' <=> Waits(x, u) \/ (x = k /\ u = AnyThread /\ m_state[k] = "READY")
  <2>1. CASE m_state[k] \in Ended /\ m_fibers' = m_fibers
    BY <2>1 DEF Waits, Ended
  <2>2. CASE m_state[k] = "READY" /\ m_fibers' = Push(k, AnyThread)
    BY <1>1, <2>2, PushWaits
  <2> QED BY <2>1, <2>2
<1>3. \A x \in Tasks : x # k => (InHand(x)' <=> InHand(x)) /\ (Queued(x)' <=> Queued(x))
  <2>1. \A u \in Threads : ft'[u] = IF u = t THEN None ELSE ft[u]
    BY <1>1 DEF TypeOK
  <2> QED BY <1>1, <1>2, <2>1, QueuedWaits DEF InHand
<1>4. WaitInv'
  <2>1. \A x \in Tasks : m_state'[x] = "READY" => Queued(x)' \/ InHand(x)'
    BY <1>2, <1>3, QueuedWaits DEF WaitInv
  <2>2. \A x \in Tasks : \A u \in Threads \cup {AnyThread} :
          Waits(x, u)' => /\ m_state'[x] = "READY" => u = AnyThread
                          /\ u = Caller => UseCaller
    BY <1>1, <1>2 DEF WaitInv
  <2> QED BY <2>1, <2>2 DEF WaitInv
<1>5. \A x \in Tasks : StatusOf(x)' = StatusOf(x)
  <2> SUFFICES ASSUME NEW x \in Tasks PROVE StatusOf(x)' = StatusOf(x)
    OBVIOUS
  <2>1. Stranded(x)' <=> Stranded(x)
    BY <1>1, <1>2, QueuedWaits
  <2>2. m_state[x] # "HOLD"
    BY PlainPlaces
  <2>3. m_state[x] = "INIT" => x # k
    BY DEF Ended
  <2> QED BY <1>3, <2>1, <2>2, <2>3, StatusSame
<1>6. UNCHANGED Pool!vars
  BY <1>5, PoolStutter
<1> QED BY <1>4, <1>6

LEMMA TakeStep ==
  ASSUME Holders = {}, CountInv, PlaceInv, WaitInv, NEW t \in Threads, Take(t)
  PROVE  WaitInv' /\ [Pool!Next]_(Pool!vars)
<1>1. TypeOK /\ OwnerInv
  BY DEF CountInv
<1>2. PICK k \in Tasks, thr \in {AnyThread, t} :
        /\ Waits(k, thr) /\ ft' = [ft EXCEPT ![t] = k] /\ ft[t] = None
        /\ \A u : Waits(k, u) => u = thr
        /\ \A x, u : Waits(x, u)' <=> Waits(x, u) /\ x # k
  BY TakeWaits
<1>3. None \notin Tasks /\ AnyThread \notin Threads
  BY SchedularAssumption
<1>4. UNCHANGED <<m_state, mainPc>> /\ pc[t] = "scan" /\ \A u \in Threads : Gone(u)' <=> Gone(u)
  BY <1>1 DEF Take, Go, Gone, TypeOK
<1>5. ~Gone(t)
  BY <1>1, <1>4 DEF OwnerInv, Gone
<1>6. InHand(k)' /\ \A x \in Tasks : x # k => (InHand(x)' <=> InHand(x))
  <2>1. \A u \in Threads : ft'[u] = IF u = t THEN k ELSE ft[u]
    BY <1>1, <1>2 DEF TypeOK
  <2> QED BY <1>2, <1>3, <2>1 DEF InHand
<1>7. \A x \in Tasks : x # k => /\ Queued(x)' <=> Queued(x)
                                /\ Stranded(x)' <=> Stranded(x)
  BY <1>2, <1>4, QueuedWaits
<1>8. Queued(k) /\ ~Stranded(k) /\ ~Stranded(k)'
  BY <1>2, <1>3, <1>4, <1>5, QueuedWaits
<1>9. WaitInv'
  <2>1. \A x \in Tasks : m_state'[x] = "READY" => Queued(x)' \/ InHand(x)'
    BY <1>4, <1>6, <1>7 DEF WaitInv
  <2>2. \A x \in Tasks : \A u \in Threads \cup {AnyThread} :
          Waits(x, u)' => /\ m_state'[x] = "READY" => u = AnyThread
                          /\ u = Caller => UseCaller
    BY <1>2, <1>4 DEF WaitInv
  <2> QED BY <2>1, <2>2 DEF WaitInv
<1>10. \A x \in Tasks : StatusOf(x)' = StatusOf(x)
  <2> SUFFICES ASSUME NEW x \in Tasks PROVE StatusOf(x)' = StatusOf(x)
    OBVIOUS
  <2>1. m_state[x] # "HOLD"
    BY PlainPlaces
  <2> QED BY <1>4, <1>6, <1>7, <1>8, <2>1, StatusSame
<1>11. UNCHANGED Pool!vars
  BY <1>4, <1>10, PoolStutter
<1> QED BY <1>9, <1>11

LEMMA WaitsSame ==
  ASSUME WaitInv, UNCHANGED <<m_fibers, m_state, ft>>
  PROVE  /\ WaitInv'
         /\ \A x, u : Waits(x, u)' <=> Waits(x, u)
         /\ \A x : (Queued(x)' <=> Queued(x)) /\ (InHand(x)' <=> InHand(x))
<1>1. /\ \A x, u : Waits(x, u)' <=> Waits(x, u)
      /\ \A x : (Queued(x)' <=> Queued(x)) /\ (InHand(x)' <=> InHand(x))
  BY DEF Waits, Queued, InHand
<1> QED BY <1>1 DEF WaitInv

LEMMA ResetStep ==
  ASSUME Holders = {}, CountInv, PlaceInv, WaitInv, NEW k \in Tasks, Reset(k)
  PROVE  WaitInv' /\ [Pool!Next]_(Pool!vars)
<1>1. /\ m_state[k] \in Ended /\ m_state'[k] = "INIT" /\ ~Queued(k) /\ ~InHand(k)
      /\ \A x \in Tasks : x # k => m_state'[x] = m_state[x]
      /\ UNCHANGED <<m_fibers, ft, pc, mainPc>> /\ mainPc # "stopped"
  BY DEF Reset, SetState, Free, Outside, CountInv, TypeOK
<1>2. /\ \A x, u : Waits(x, u)' <=> Waits(x, u)
      /\ \A x : (Queued(x)' <=> Queued(x)) /\ (InHand(x)' <=> InHand(x))
      /\ \A u : Gone(u)' <=> Gone(u)
  BY <1>1 DEF Waits, Queued, InHand, Gone
<1>3. WaitInv'
  <2>1. \A x \in Tasks : m_state'[x] = "READY" => m_state[x] = "READY"
    BY <1>1
  <2> QED BY <1>2, <2>1 DEF WaitInv
<1>4. \A x \in Tasks : x # k => StatusOf(x)' = StatusOf(x)
  <2> SUFFICES ASSUME NEW x \in Tasks, x # k PROVE StatusOf(x)' = StatusOf(x)
    OBVIOUS
  <2>1. Stranded(x)' <=> Stranded(x)
    BY <1>2, QueuedWaits
  <2>2. m_state[x] # "HOLD"
    BY PlainPlaces
  <2> QED BY <1>1, <1>2, <2>1, <2>2, StatusSame
<1>5. StatusOf(k) = "ended" /\ StatusOf(k)' = "idle"
  <2>1. ~Stranded(k)'
    BY <1>1, <1>2, QueuedWaits
  <2> QED BY <1>1, <1>2, <2>1 DEF StatusOf, Ended
<1>6. [x \in Tasks |-> StatusOf(x)]' = [[x \in Tasks |-> StatusOf(x)] EXCEPT ![k] = "idle"]
  BY <1>4, <1>5
<1>7. (mainPc = "stopped")' = (mainPc = "stopped") /\ mainPc # "stopped"
  BY <1>1
<1>8. Pool!Renew(k)
  BY <1>5, <1>6, <1>7 DEF Pool!Renew, Pool!Move
<1> QED BY <1>3, <1>8 DEF Pool!Next

(* stop() returns: whoever still waits does so for a thread that has left. *)
LEMMA CloseStep ==
  ASSUME Holders = {}, CountInv, PlaceInv, WaitInv, UNCHANGED <<m_fibers, m_state, ft>>,
         mainPc # "stopped", mainPc' = "stopped",
         \A t \in Threads : ft[t] = None,
         \A x \in Tasks : ~Waits(x, AnyThread),
         \A x \in Tasks : \A t \in Threads : Waits(x, t) => Gone(t) /\ Gone(t)'
  PROVE  WaitInv' /\ [Pool!Next]_(Pool!vars)
<1>1. /\ WaitInv'
      /\ \A x, u : Waits(x, u)' <=> Waits(x, u)
      /\ \A x : (Queued(x)' <=> Queued(x)) /\ (InHand(x)' <=> InHand(x))
  BY WaitsSame
<1>2. \A x \in Tasks : ~InHand(x)
  BY SchedularAssumption DEF InHand
<1>3. \A x, u : Waits(x, u) => u \in Threads \cup {AnyThread}
  BY QueueType DEF Waits, CountInv
<1>4. \A x \in Tasks : Queued(x) => Stranded(x)
  BY <1>3, QueuedWaits
<1>5. \A x \in Tasks : m_state[x] \in Ended \cup {"INIT"}
  <2>1. \A x \in Tasks : m_state[x] # "EXEC" /\ m_state[x] # "HOLD"
    BY <1>2, PlainPlaces
  <2>2. \A x \in Tasks : m_state[x] # "READY"
    BY <1>2, <1>3, QueuedWaits DEF WaitInv
  <2> QED BY <2>1, <2>2 DEF CountInv, TypeOK, FiberState, Ended
<1>6. \A x \in Tasks : StatusOf(x)' = StatusOf(x)
  <2> SUFFICES ASSUME NEW x \in Tasks PROVE StatusOf(x)' = StatusOf(x)
    OBVIOUS
  <2>1. Stranded(x)' <=> Stranded(x)
    BY <1>1, QueuedWaits
  <2> QED BY <1>1, <1>5, <2>1, StatusSame DEF Ended
<1>7. \A x \in Tasks : StatusOf(x) \notin {"waiting", "running"}
  BY <1>2, <1>4, <1>5 DEF StatusOf, Ended
<1>8. /\ [x \in Tasks |-> StatusOf(x)]' = [x \in Tasks |-> StatusOf(x)]
      /\ \A x \in Tasks : [y \in Tasks |-> StatusOf(y)][x] \notin {"waiting", "running"}
  BY <1>6, <1>7
<1>9. (mainPc = "stopped")' = TRUE /\ ~(mainPc = "stopped")
  OBVIOUS
<1>10. Pool!Close
  BY <1>8, <1>9 DEF Pool!Close
<1> QED BY <1>1, <1>10 DEF Pool!Next

(* start() after a stop(): of the threads that had left, those that are     *)
(* there again are the ones whose entries wait again.                       *)
LEMMA OpenStep ==
  ASSUME Holders = {}, CountInv, PlaceInv, WaitInv, UNCHANGED <<m_fibers, m_state, ft>>,
         mainPc = "stopped", mainPc' # "stopped",
         \A t \in Threads : Gone(t)' => Gone(t)
  PROVE  WaitInv' /\ [Pool!Next]_(Pool!vars)
<1>1. /\ WaitInv'
      /\ \A x, u : Waits(x, u)' <=> Waits(x, u)
      /\ \A x : (Queued(x)' <=> Queued(x)) /\ (InHand(x)' <=> InHand(x))
  BY WaitsSame
<1>2. PICK K : K = {x \in Tasks : StatusOf(x) = "stranded" /\ StatusOf(x)' = "waiting"}
  OBVIOUS
<1>3. ASSUME NEW x \in Tasks
      PROVE  StatusOf(x)' = IF x \in K THEN "waiting" ELSE StatusOf(x)
  <2>1. /\ Stranded(x) => Queued(x)
        /\ Stranded(x)' => Stranded(x)
        /\ m_state[x] # "HOLD"
    BY <1>1, QueuedWaits, PlainPlaces
  <2>2. CASE m_state[x] = "INIT" /\ Stranded(x) /\ ~Stranded(x)'
    BY <1>1, <1>2, <2>1, <2>2 DEF StatusOf, Ended
  <2>3. CASE ~(m_state[x] = "INIT" /\ Stranded(x) /\ ~Stranded(x)')
    <3>1. StatusOf(x)' = StatusOf(x)
      BY <1>1, <2>1, <2>3, StatusSame
    <3> QED BY <1>2, <3>1
  <2> QED BY <2>2, <2>3
<1>4. /\ [x \in Tasks |-> StatusOf(x)]' =
           [x \in Tasks |-> IF x \in K THEN "waiting" ELSE [y \in Tasks |-> StatusOf(y)][x]]
      /\ \A x \in K : [y \in Tasks |-> StatusOf(y)][x] = "stranded"
      /\ K \in SUBSET Tasks
  BY <1>2, <1>3
<1>5. (mainPc = "stopped")' = FALSE /\ (mainPc = "stopped")
  OBVIOUS
<1>6. Pool!Open(K)
  BY <1>4, <1>5 DEF Pool!Open
<1> QED BY <1>1, <1>4, <1>6 DEF Pool!Next

LEMMA KnownInvNext ==
  ASSUME Holders = {}, CountInv, PlaceInv, KnownInv, [Next]_vars
  PROVE  KnownInv'
<1> TypeOK
  BY DEF CountInv
<1> /\ Threads = Workers \cup {Caller} /\ Caller \notin Workers /\ AnyThread \notin Threads
    /\ Pins \subseteq Threads
  BY SchedularAssumption DEF Threads
<1>1. \A t \in Workers : pc[t] # "off" => pc'[t] # "off"
  <2>1. CASE Start
    BY <2>1, StartMoves
  <2>2. CASE UNCHANGED pc
    BY <2>2
  <2>3. CASE StopRootCall
    BY <2>3 DEF StopRootCall, Go, TypeOK
  <2>4. ASSUME NEW u \in Threads, Run(u), pc' # pc PROVE \E to \in PC \ {"off"} : Go(u, to)
    BY <2>4 DEF Run, Body, Take, Drop, SwapIn, YieldToReady, Arm, YieldToHold, Finish, TaskSchedule,
                SwapOut, Back, SettleReady, SettleEnded, SettleOther, SettleHold,
                EnterIdle, LeaveIdle, Break, PC
  <2>5. ASSUME NEW u \in Threads, NEW to \in PC \ {"off"}, Go(u, to)
        PROVE  \A t \in Workers : pc[t] # "off" => pc'[t] # "off"
    BY <2>5 DEF Go, TypeOK
  <2> QED BY <2>1, <2>2, <2>3, <2>4, <2>5
          DEF Next, vars, Client, ClientSchedule, ClientScheduleRange, Reset, StopBegin, Stop,
              StopFlag, StopRootSkip, Join, Wake
<1>2. CASE m_fibers' = m_fibers
  BY <1>1, <1>2 DEF KnownInv, Waits
<1>3. ASSUME NEW k \in Tasks, NEW thr \in Known \cap (Threads \cup {AnyThread}), m_fibers' = Push(k, thr)
      PROVE  KnownInv'
  <2>1. \A x, u : Waits(x, u)' <=> Waits(x, u) \/ (x = k /\ u = thr)
    BY <1>3, PushWaits
  <2> QED BY <1>1, <1>3, <2>1 DEF KnownInv, Known
<1>4. ASSUME NEW a \in Tasks, NEW b \in Tasks, ClientScheduleRange(a, b)
      PROVE  KnownInv'
  <2>1. \A x, u : Waits(x, u)' <=> Waits(x, u) \/ (x \in {a, b} /\ u = AnyThread)
    BY <1>4, PushTwoWaits
  <2> QED BY <1>1, <2>1 DEF KnownInv
<1>5. ASSUME NEW t \in Threads, Take(t)
      PROVE  KnownInv'
  <2>1. \A x, u : Waits(x, u)' => Waits(x, u)
    BY <1>5, TakeWaits
  <2> QED BY <1>1, <2>1 DEF KnownInv
<1>6. ASSUME NEW t \in Threads, SettleReady(t)
      PROVE  KnownInv'
  <2>1. ft[t] \in Tasks /\ m_fibers' = Push(ft[t], AnyThread) /\ AnyThread \in Known
    BY <1>6 DEF SettleReady, Requeue, TypeOK, Known
  <2> QED BY <1>3, <2>1
<1>7. ASSUME NEW k \in Tasks, NEW thr \in Pins \cup {AnyThread},
             ClientSchedule(k, thr) \/ \E t \in Threads : TaskSchedule(t, k, thr)
      PROVE  KnownInv'
  BY <1>3, <1>7 DEF ClientSchedule, TaskSchedule
<1>8. ASSUME NEW k \in Tasks, Wake(k)
      PROVE  KnownInv'
  BY <1>3, <1>8 DEF Wake, Known
<1>9. ASSUME NEW t \in Threads, Run(t)
      PROVE  KnownInv'
  BY <1>2, <1>5, <1>6, <1>7, <1>9
     DEF Run, Body, Drop, SwapIn, YieldToReady, Arm, YieldToHold, Finish,
         SwapOut, Back, SettleEnded, SettleOther, SettleHold, EnterIdle, LeaveIdle, Break
<1> QED BY <1>2, <1>4, <1>7, <1>8, <1>9
        DEF Next, vars, Client, Reset, Start, StopBegin, Stop, StopFlag, StopRootSkip,
            StopRootCall, Join

LEMMA LastOutNext ==
  ASSUME Holders = {}, UseCaller \/ ThreadCount # 0,
         CountInv, PlaceInv, LifeInv, LastOut, [Next]_vars
  PROVE  LastOut'
<1> TypeOK /\ OwnerInv
  BY DEF CountInv
<1> Caller \in Threads /\ Caller \notin Workers /\ Threads = Workers \cup {Caller}
  BY SchedularAssumption DEF Threads
<1>1. CASE mainPc' \notin {"stopRoot", "joining"}
  BY <1>1 DEF LastOut
<1>2. CASE Client
  <2>1. mainPc' \in {"constructed", "started", "stopFlag"}
    BY <1>2 DEF Client, ClientSchedule, ClientScheduleRange, Reset, Outside, Start, StopBegin
  <2> QED BY <1>1, <2>1
<1>3. CASE StopFlag
  <2>1. ThreadCount # 0 => ~\A t \in Workers : pc'[t] \in {"off", "exited"}
    BY <1>3 DEF StopFlag, LifeInv
  <2>2. mainPc' # "joining"
    BY <1>3 DEF StopFlag
  <2> QED BY <2>1, <2>2 DEF LastOut
<1>4. CASE StopRootSkip
  <2>1. pc' = pc /\ \A x : Waits(x, AnyThread)' <=> Waits(x, AnyThread)
    BY <1>4 DEF StopRootSkip, Waits
  <2>2. CASE ~UseCaller
    BY <1>4, <2>1, <2>2 DEF StopRootSkip, LastOut
  <2>3. CASE Stopping
    <3>1. \A x : ~Waits(x, AnyThread)
      BY <2>3 DEF Stopping, Waits
    <3> QED BY <2>1, <3>1 DEF LastOut
  <2> QED BY <1>4, <2>2, <2>3 DEF StopRootSkip
<1>5. CASE StopRootCall \/ Join
  BY <1>1, <1>5 DEF StopRootCall, Join
<1>6. ASSUME NEW t \in Threads, pc'[t] \notin {"off", "exited"}, mainPc' = mainPc,
             mainPc \in {"stopRoot", "joining"} => t # Caller
      PROVE  LastOut'
  BY <1>1, <1>6 DEF LastOut
<1>7. ASSUME NEW t \in Threads, Run(t)
      PROVE  LastOut'
  <2>1. CASE Break(t)
    <3>1. \A k \in Tasks : ~Waits(k, AnyThread)
      BY <2>1, PlainPlaces DEF Break, NoWork, Runnable, Waits
    <3>2. \A k \in Tasks : ~Waits(k, AnyThread)'
      BY <2>1, <3>1 DEF Break, Waits
    <3> QED BY <3>2 DEF LastOut
  <2>2. CASE ~Break(t)
    <3>1. CASE Body(t)
      <4>1. pc[t] = "exec" /\ pc'[t] \notin {"off", "exited"} /\ mainPc' = mainPc
        BY <3>1 DEF Body, YieldToReady, YieldToHold, Arm, Finish, TaskSchedule, Go, TypeOK
      <4> QED BY <1>6, <4>1 DEF OwnerInv
    <3>2. CASE Take(t) \/ Drop(t) \/ SwapIn(t) \/ SwapOut(t) \/ Back(t)
      <4>1. pc[t] \notin {"off", "exited"} /\ pc'[t] \notin {"off", "exited"} /\ mainPc' = mainPc
        BY <3>2 DEF Take, Drop, SwapIn, SwapOut, Back, Go, TypeOK
      <4> QED BY <1>6, <4>1 DEF OwnerInv
    <3>3. CASE SettleReady(t) \/ SettleEnded(t) \/ SettleOther(t) \/ SettleHold(t)
      <4>1. pc[t] \notin {"off", "exited"} /\ pc'[t] \notin {"off", "exited"} /\ mainPc' = mainPc
        BY <3>3 DEF SettleReady, SettleEnded, SettleOther, SettleHold, Go, TypeOK
      <4> QED BY <1>6, <4>1 DEF OwnerInv
    <3>4. CASE EnterIdle(t) \/ LeaveIdle(t)
      <4>1. pc[t] \notin {"off", "exited"} /\ pc'[t] \notin {"off", "exited"} /\ mainPc' = mainPc
        BY <3>4 DEF EnterIdle, LeaveIdle, Go, TypeOK
      <4> QED BY <1>6, <4>1 DEF OwnerInv
    <3> QED BY <1>7, <2>2, <3>1, <3>2, <3>3, <3>4 DEF Run
  <2> QED BY <2>1, <2>2
<1>8. ASSUME NEW k \in Tasks, Wake(k)
      PROVE  LastOut'
  BY <1>8, PlainPlaces DEF Wake
<1>9. CASE UNCHANGED vars
  BY <1>9 DEF vars, LastOut, Waits
<1> QED BY <1>2, <1>3, <1>4, <1>5, <1>7, <1>8, <1>9 DEF Next, Stop

(* Every step of the scheduler is a step of TaskPool or changes nothing     *)
(* that TaskPool sees, one step per action.                                 *)
LEMMA PoolNext ==
  ASSUME Holders = {}, CountInv, PlaceInv, LifeInv, WaitInv, KnownInv, LastOut, [Next]_vars
  PROVE  WaitInv' /\ [Pool!Next]_(Pool!vars)
<1> TypeOK /\ OwnerInv
  BY DEF CountInv
<1> /\ Caller \in Threads /\ Caller \notin Workers /\ Threads = Workers \cup {Caller}
    /\ Pins \subseteq Threads /\ AnyThread \notin Threads /\ None \notin Tasks
  BY SchedularAssumption DEF Threads
<1> \A x \in Tasks : m_state[x] # "HOLD" /\ wake[x] = "none"
  BY PlainPlaces
<1>0. ASSUME NEW t \in Threads, NEW to, Go(t, to), pc[t] # "exited", to # "exited", mainPc' = mainPc
      PROVE  \A u \in Threads : Gone(u)' <=> Gone(u)
  BY <1>0 DEF Go, Gone, TypeOK
<1>1. ASSUME NEW k \in Tasks, NEW thr \in Pins \cup {AnyThread}, ClientSchedule(k, thr)
      PROVE  WaitInv' /\ [Pool!Next]_(Pool!vars)
  <2>1. \A x, u : Waits(x, u)' <=> Waits(x, u) \/ (x \in {k} /\ u = thr)
    BY <1>1, PushWaits DEF ClientSchedule
  <2>2. /\ \A x \in {k} : Free(x)
        /\ UNCHANGED <<m_state, ft, pc, mainPc>> /\ mainPc # "stopped"
    BY <1>1 DEF ClientSchedule, Outside
  <2>3. {k} \in SUBSET Tasks
    OBVIOUS
  <2> QED BY <1>1, <2>1, <2>2, <2>3, SubmitStep
<1>2. ASSUME NEW a \in Tasks, NEW b \in Tasks, ClientScheduleRange(a, b)
      PROVE  WaitInv' /\ [Pool!Next]_(Pool!vars)
  <2>1. \A x, u : Waits(x, u)' <=> Waits(x, u) \/ (x \in {a, b} /\ u = AnyThread)
    BY <1>2, PushTwoWaits
  <2>2. /\ \A x \in {a, b} : Free(x)
        /\ UNCHANGED <<m_state, ft, pc, mainPc>> /\ mainPc # "stopped"
    BY <1>2 DEF ClientScheduleRange, Outside
  <2>3. {a, b} \in SUBSET Tasks /\ AnyThread \in Pins \cup {AnyThread}
    OBVIOUS
  <2> QED BY <2>1, <2>2, <2>3, SubmitStep
<1>3. ASSUME NEW k \in Tasks, Reset(k)
      PROVE  WaitInv' /\ [Pool!Next]_(Pool!vars)
  BY <1>3, ResetStep
<1>4. CASE Start
  <2>1. /\ UNCHANGED <<m_fibers, m_state, ft>> /\ mainPc' = "started"
        /\ \A t \in Threads : Gone(t)' => Gone(t)
    BY <1>4, StartMoves DEF Start, Gone
  <2>2. CASE mainPc = "constructed"
    <3>1. \A t \in Threads : ~Gone(t)
      BY <2>2 DEF LifeInv, Gone
    <3> QED BY <2>1, <2>2, <3>1, QuietStep
  <2>3. CASE mainPc = "stopped"
    BY <2>1, <2>3, OpenStep
  <2> QED BY <1>4, <2>2, <2>3 DEF Start
<1>5. CASE StopBegin
  <2>1. \A t \in Threads : Gone(t)' <=> Gone(t)
    BY <1>5 DEF StopBegin, Gone
  <2> QED BY <1>5, <2>1, QuietStep DEF StopBegin
<1>6. CASE StopFlag
  <2>1. mainPc = "stopFlag" /\ UNCHANGED <<m_fibers, m_state, ft, pc>>
    BY <1>6 DEF StopFlag
  <2>2. CASE ReturnsEarly
    <3>1. mainPc' = "stopped" /\ m_fibers = <<>> /\ ThreadCount = 0
      BY <1>6, <2>2 DEF StopFlag, ReturnsEarly
    <3>2. \A x, u : ~Waits(x, u)
      BY <3>1 DEF Waits
    <3>3. \A t \in Threads : ft[t] = None
      BY <2>1, <3>1 DEF OwnerInv, TypeOK
    <3> QED BY <2>1, <3>1, <3>2, <3>3, CloseStep
  <2>3. CASE ~ReturnsEarly
    <3>1. mainPc' = "stopRoot"
      BY <1>6, <2>3 DEF StopFlag
    <3>2. \A t \in Threads : Gone(t)' <=> Gone(t)
      BY <2>1, <3>1 DEF Gone
    <3> QED BY <2>1, <3>1, <3>2, QuietStep
  <2> QED BY <2>2, <2>3
<1>7. CASE StopRootSkip
  <2>1. /\ mainPc = "stopRoot" /\ mainPc' = "joining"
        /\ UNCHANGED <<m_fibers, m_state, ft, pc>>
    BY <1>7 DEF StopRootSkip
  <2>2. ASSUME NEW t \in Threads, NEW x \in Tasks, Waits(x, t) PROVE Gone(t)' <=> Gone(t)
    <3>1. m_fibers # <<>>
      BY <2>2 DEF Waits
    <3>2. ~UseCaller
      BY <1>7, <3>1 DEF StopRootSkip, Stopping
    <3>3. t # Caller
      BY <2>2, <3>2 DEF WaitInv
    <3> QED BY <2>1, <3>3 DEF Gone
  <2> QED BY <2>1, <2>2, QuietStep
<1>8. CASE StopRootCall
  <2>1. /\ mainPc = "stopRoot" /\ mainPc' = "root" /\ pc[Caller] = "off"
        /\ UNCHANGED <<m_fibers, m_state, ft>>
    BY <1>8 DEF StopRootCall, LifeInv
  <2>2. pc'[Caller] \in {"off", "scan"} /\ \A t \in Workers : pc'[t] = pc[t]
    BY <1>8, <2>1 DEF StopRootCall, Go, TypeOK
  <2>3. \A t \in Threads : Gone(t)' <=> Gone(t)
    BY <2>1, <2>2 DEF Gone
  <2> QED BY <2>1, <2>3, QuietStep
<1>9. CASE Join
  <2>1. /\ mainPc = "joining" /\ mainPc' = "stopped" /\ UNCHANGED <<m_fibers, m_state, ft, pc>>
        /\ \A t \in Workers : pc[t] \in {"off", "exited"}
    BY <1>9 DEF Join
  <2>2. \A x \in Tasks : \A t \in Threads : Waits(x, t) => Gone(t) /\ Gone(t)'
    BY <2>1 DEF Gone, KnownInv
  <2>3. \A t \in Threads : ft[t] = None
    BY <2>1 DEF OwnerInv, TypeOK
  <2>4. \A x \in Tasks : ~Waits(x, AnyThread)
    BY <2>1 DEF LastOut
  <2> QED BY <2>1, <2>2, <2>3, <2>4, CloseStep
<1>10. ASSUME NEW t \in Threads, Take(t)
      PROVE  WaitInv' /\ [Pool!Next]_(Pool!vars)
  BY <1>10, TakeStep
<1>11. ASSUME NEW t \in Threads, Drop(t) \/ SettleEnded(t) \/ SettleReady(t)
      PROVE  WaitInv' /\ [Pool!Next]_(Pool!vars)
  <2>1. /\ pc[t] \in {"dispatch", "settle"} /\ Go(t, "scan")
        /\ ft' = [ft EXCEPT ![t] = None] /\ UNCHANGED <<m_state, mainPc>>
        /\ \/ m_state[ft[t]] \in Ended /\ m_fibers' = m_fibers
           \/ m_state[ft[t]] = "READY" /\ m_fibers' = Push(ft[t], AnyThread)
    BY <1>11 DEF Drop, SettleEnded, SettleReady, Release, Requeue
  <2>2. ft[t] \in Tasks
    BY <2>1 DEF TypeOK
  <2>3. \A u \in Threads : Gone(u)' <=> Gone(u)
    BY <1>0, <2>1
  <2> QED BY <2>1, <2>2, <2>3, LetGoStep
<1>12. ASSUME NEW t \in Threads, SwapIn(t)
      PROVE  WaitInv' /\ [Pool!Next]_(Pool!vars)
  <2>1. /\ pc[t] = "dispatch" /\ Go(t, "exec") /\ m_state[ft[t]] \notin Ended
        /\ m_state' = [m_state EXCEPT ![ft[t]] = "EXEC"] /\ UNCHANGED <<m_fibers, ft, mainPc>>
    BY <1>12 DEF SwapIn, SetState
  <2>2. ft[t] \in Tasks /\ ft[t] # None
    BY <2>1 DEF TypeOK
  <2>3. m_state[ft[t]] # "EXEC"
    BY <2>1, <2>2, PlainPlaces
  <2>4. m_state[ft[t]] \in {"INIT", "READY"}
    BY <2>1, <2>2, <2>3 DEF TypeOK, FiberState, Ended
  <2>5. \A u \in Threads : Gone(u)' <=> Gone(u)
    BY <1>0, <2>1
  <2> QED BY <2>1, <2>2, <2>4, <2>5, StateStep
<1>13. ASSUME NEW t \in Threads, YieldToReady(t) \/ Finish(t)
      PROVE  WaitInv' /\ [Pool!Next]_(Pool!vars)
  <2>1. PICK s \in Ended \cup {"READY"} : m_state' = [m_state EXCEPT ![ft[t]] = s]
    BY <1>13 DEF YieldToReady, Finish, SetState
  <2>2. pc[t] = "exec" /\ Go(t, "swapout") /\ UNCHANGED <<m_fibers, ft, mainPc>>
    BY <1>13 DEF YieldToReady, Finish
  <2>3. ft[t] \in Tasks /\ ft[t] # None
    BY <2>2 DEF TypeOK
  <2>4. m_state[ft[t]] = "EXEC"
    BY <2>2, <2>3, PlainPlaces
  <2>5. \A u \in Threads : Gone(u)' <=> Gone(u)
    BY <1>0, <2>2
  <2> QED BY <2>1, <2>2, <2>3, <2>4, <2>5, StateStep
<1>14. ASSUME NEW t \in Threads, Arm(t) \/ YieldToHold(t) \/ SettleOther(t) \/ SettleHold(t)
      PROVE  FALSE
  <2>1. pc[t] \in {"exec", "settle", "hold"}
    BY <1>14 DEF Arm, YieldToHold, SettleOther, SettleHold
  <2>2. ft[t] \in Tasks /\ ft[t] # None
    BY <2>1 DEF TypeOK
  <2>3. /\ pc[t] = "settle" => m_state[ft[t]] \in Ended \cup {"READY"}
        /\ pc[t] # "hold" /\ wake[ft[t]] = "none"
    BY <2>2, PlainPlaces
  <2> QED BY <1>14, <2>3 DEF Arm, YieldToHold, SettleOther, SettleHold
<1>15. ASSUME NEW t \in Threads, NEW k \in Tasks, NEW thr \in Pins \cup {AnyThread},
              TaskSchedule(t, k, thr)
      PROVE  WaitInv' /\ [Pool!Next]_(Pool!vars)
  <2>1. \A x, u : Waits(x, u)' <=> Waits(x, u) \/ (x \in {k} /\ u = thr)
    BY <1>15, PushWaits DEF TaskSchedule
  <2>2. /\ \A x \in {k} : Free(x)
        /\ UNCHANGED <<m_state, ft, pc, mainPc>> /\ mainPc # "stopped"
    BY <1>15 DEF TaskSchedule, OwnerInv
  <2>3. {k} \in SUBSET Tasks
    OBVIOUS
  <2> QED BY <1>15, <2>1, <2>2, <2>3, SubmitStep
<1>16. ASSUME NEW t \in Threads, SwapOut(t) \/ Back(t) \/ EnterIdle(t) \/ LeaveIdle(t)
      PROVE  WaitInv' /\ [Pool!Next]_(Pool!vars)
  <2>1. /\ UNCHANGED <<m_fibers, m_state, ft, mainPc>> /\ pc[t] # "exited"
        /\ \E to \in {"back", "settle", "idle", "scan"} : Go(t, to)
    BY <1>16 DEF SwapOut, Back, EnterIdle, LeaveIdle
  <2>2. \A u \in Threads : Gone(u)' <=> Gone(u)
    BY <1>0, <2>1
  <2> QED BY <2>1, <2>2, QuietStep
<1>17. ASSUME NEW t \in Threads, Break(t)
      PROVE  WaitInv' /\ [Pool!Next]_(Pool!vars)
  <2>1. /\ UNCHANGED <<m_fibers, m_state, ft>> /\ pc[t] = "scan"
        /\ mainPc' = (IF t = Caller THEN "joining" ELSE mainPc)
        /\ \A u \in Threads : u # t => pc'[u] = pc[u]
    BY <1>17 DEF Break, CallerMainFunc, Go, TypeOK
  <2>2. \A x \in Tasks : ~Waits(x, t)
    BY <1>17, PlainPlaces DEF Break, NoWork, Runnable, Waits
  <2>3. \A u \in Threads : u # t => (Gone(u)' <=> Gone(u))
    BY <2>1 DEF Gone
  <2>4. mainPc' = "stopped" <=> mainPc = "stopped"
    BY <2>1 DEF OwnerInv
  <2> QED BY <2>1, <2>2, <2>3, <2>4, QuietStep
<1>18. ASSUME NEW k \in Tasks, Wake(k)
      PROVE  FALSE
  BY <1>18 DEF Wake
<1>19. CASE UNCHANGED vars
  <2>1. \A t \in Threads : Gone(t)' <=> Gone(t)
    BY <1>19 DEF vars, Gone
  <2> QED BY <1>19, <2>1, QuietStep DEF vars
<1>. QED
  BY <1>1, <1>2, <1>3, <1>4, <1>5, <1>6, <1>7, <1>8, <1>9, <1>10, <1>11, <1>12, <1>13,
     <1>14, <1>15, <1>16, <1>17, <1>18, <1>19
  DEF Next, Client, Stop, Run, Body

(* The scheduler implements TaskPool, for any number of threads and tasks,  *)
(* through any number of start() and stop(): a submitted fiber is run once  *)
(* for each submission and each yield, never after its end, and stop()      *)
(* returns with nothing waiting except for a thread that has left; what was *)
(* submitted for a worker that has left is not run by any later start().    *)
(* Fibers that hold are left out: sched_hold_race shows what they break.    *)
(* The second assumption is that the scheduler has a thread at all: a count *)
(* of 0 is asserted against only with use_caller (schedular.cpp:14).        *)
THEOREM SchedularImplementsTaskPool ==
  ASSUME Holders = {}, UseCaller \/ ThreadCount # 0
  PROVE  Spec => ImplementsTaskPool
<1> DEFINE Inv == CountInv /\ PlaceInv /\ LifeInv /\ WaitInv /\ KnownInv /\ LastOut
<1>1. Init => LifeInv /\ WaitInv /\ KnownInv /\ LastOut
  <2>1. Init => LifeInv
    BY SchedularAssumption DEF Init, LifeInv, Threads
  <2>2. Init => WaitInv
    BY DEF Init, WaitInv, Waits
  <2>3. Init => KnownInv /\ LastOut
    BY DEF Init, KnownInv, LastOut, Waits
  <2> QED BY <2>1, <2>2, <2>3
<1>2. Init => Pool!Init
  <2> SUFFICES ASSUME Init PROVE Pool!Init
    OBVIOUS
  <2>1. \A k \in Tasks : StatusOf(k) = "idle"
    BY SchedularAssumption DEF Init, StatusOf, Stranded, Queued, InHand, Ended, Threads
  <2>2. (mainPc = "stopped") = FALSE
    BY DEF Init
  <2> QED BY <2>1, <2>2 DEF Pool!Init
<1>3. Inv /\ [Next]_vars => Inv'
  BY CountInvNext, PlaceInvNext, LifeInvNext, KnownInvNext, LastOutNext, PoolNext
<1>4. Inv /\ [Next]_vars => [Pool!Next]_(Pool!vars)
  BY PoolNext
<1>5. Init => Inv
  BY <1>1, CountInvInit, PlaceInvInit
<1> HIDE DEF Inv
<1> QED BY <1>2, <1>3, <1>4, <1>5, PTL DEF Spec, ImplementsTaskPool, Pool!Spec

-----------------------------------------------------------------------------
(* Fibers that hold, on any number of threads.  Until an assertion fails, a *)
(* context is on one cpu at most, a fiber that executes or has registered   *)
(* for an event has not ended, and one whose event has fired is in the      *)
(* queue or in the hands of a thread that is about to enter it.             *)
Cpu == {"exec", "swapout"}
CpuOnce ==
  \A t, u \in Threads : ft[t] = ft[u] /\ pc[t] \in Cpu /\ pc[u] \in Cpu => t = u
Executing == \A t \in Threads : pc[t] = "exec" => m_state[ft[t]] \in {"EXEC", "HOLD"}
Registered == \A k \in Tasks : wake[k] # "none" => m_state[k] \in {"EXEC", "HOLD"}
WokenIsQueued ==
  \A k \in Tasks : wake[k] = "fired" =>
    Queued(k) \/ \E t \in Threads : ft[t] = k /\ pc[t] = "dispatch"
WakeInv == Alive => CpuOnce /\ Executing /\ Registered /\ WokenIsQueued

LEMMA WakeInvInit == Init => WakeInv
BY DEF Init, WakeInv, CpuOnce, Executing, Registered, WokenIsQueued, Cpu

(* An entry that is pushed is in the queue, and so are the others. *)
LEMMA PushQueues ==
  ASSUME TypeOK, NEW k \in Tasks, NEW thr \in Threads \cup {AnyThread},
         m_fibers' = Push(k, thr)
  PROVE  Queued(k)' /\ \A j : Queued(j) => Queued(j)'
<1> DEFINE e == [fiber |-> k, thread |-> thr]
<1>1. m_fibers \in Seq(Entry) /\ e \in Entry /\ e.fiber = k
  BY DEF TypeOK, Entry
<1>2. m_fibers' = Append(m_fibers, e)
  BY DEF Push
<1> HIDE DEF e
<1>3. /\ Len(m_fibers) + 1 \in DOMAIN m_fibers' /\ m_fibers'[Len(m_fibers) + 1] = e
      /\ DOMAIN m_fibers \subseteq DOMAIN m_fibers'
      /\ \A i \in DOMAIN m_fibers : m_fibers'[i] = m_fibers[i]
  BY <1>1, <1>2, PushEntries
<1> QED BY <1>1, <1>3 DEF Queued

(* A step that leaves the fibers' states, the wake-ups and what threads     *)
(* hold alone, and lets no thread begin to execute.                         *)
LEMMA StillWoken ==
  ASSUME WakeInv, Alive, UNCHANGED <<m_state, wake, ft>>,
         \A k \in Tasks : Queued(k) => Queued(k)',
         \A t \in Threads : pc'[t] \in Cpu => pc'[t] = pc[t],
         \A t \in Threads : ft[t] # None /\ pc[t] = "dispatch" => pc'[t] = "dispatch",
         \A t \in Threads : ft[t] \in Tasks \cup {None}
  PROVE  WakeInv'
<1>1. CpuOnce /\ Executing /\ Registered /\ WokenIsQueued
  BY DEF WakeInv
<1>2. CpuOnce' /\ Executing'
  BY <1>1 DEF CpuOnce, Executing, Cpu
<1>3. Registered'
  BY <1>1 DEF Registered
<1>4. WokenIsQueued'
  BY <1>1, SchedularAssumption DEF WokenIsQueued
<1> QED BY <1>2, <1>3, <1>4 DEF WakeInv

LEMMA WakeInvNext == CountInv /\ WakeInv /\ [Next]_vars => WakeInv'
<1> SUFFICES ASSUME TypeOK, OwnerInv, WakeInv, [Next]_vars PROVE WakeInv'
  BY DEF CountInv
<1>0. /\ \A t \in Threads : ft[t] \in Tasks \cup {None}
      /\ \A t \in Threads : (ft[t] # None) <=>
           (pc[t] \in {"dispatch", "exec", "swapout", "back", "settle", "hold"})
      /\ \A t \in Threads : pc[t] = "scan" => ft[t] = None
      /\ None \notin Tasks /\ Pins \subseteq Threads /\ Caller \in Threads
  BY SchedularAssumption DEF TypeOK, PC, Threads
<1>14. Alive => CpuOnce /\ Executing /\ Registered /\ WokenIsQueued
  BY DEF WakeInv
<1>1. ASSUME Alive, Client PROVE WakeInv'
  <2>1. ASSUME NEW k \in Tasks, NEW thr \in Pins \cup {AnyThread}, ClientSchedule(k, thr)
        PROVE  WakeInv'
    <3>1. \A j \in Tasks : Queued(j) => Queued(j)'
      BY <1>0, <2>1, PushQueues DEF ClientSchedule
    <3> QED BY <1>0, <1>1, <2>1, <3>1, StillWoken DEF ClientSchedule
  <2>2. ASSUME NEW a \in Tasks, NEW b \in Tasks, ClientScheduleRange(a, b)
        PROVE  WakeInv'
    <3>1. \A j \in Tasks : Queued(j) => Queued(j)'
      <4> DEFINE e == [fiber |-> a, thread |-> AnyThread]
                 f == [fiber |-> b, thread |-> AnyThread]
                 s == Append(m_fibers, e)
      <4>1. m_fibers \in Seq(Entry) /\ e \in Entry /\ f \in Entry
        BY DEF TypeOK, Entry
      <4>2. m_fibers' = Append(s, f)
        BY <2>2 DEF ClientScheduleRange, Push
      <4> HIDE DEF e, f
      <4>3. /\ s \in Seq(Entry) /\ DOMAIN m_fibers \subseteq DOMAIN s
            /\ \A i \in DOMAIN m_fibers : s[i] = m_fibers[i]
        BY <4>1, PushEntries
      <4> HIDE DEF s
      <4>4. /\ DOMAIN s \subseteq DOMAIN m_fibers'
            /\ \A i \in DOMAIN s : m_fibers'[i] = s[i]
        BY <4>1, <4>2, <4>3, PushEntries
      <4> QED BY <4>3, <4>4 DEF Queued
    <3> QED BY <1>0, <1>1, <2>2, <3>1, StillWoken DEF ClientScheduleRange
  <2>3. ASSUME NEW k \in Tasks, Reset(k)
        PROVE  WakeInv'
    <3>1. /\ UNCHANGED <<m_fibers, pc, ft, wake, abort>>
          /\ m_state' = [m_state EXCEPT ![k] = "INIT"] /\ m_state[k] \in Ended
          /\ \A t \in Threads : ft[t] # k
      BY <2>3 DEF Reset, SetState, Free, InHand
    <3>2. CpuOnce' /\ WokenIsQueued'
      BY <1>1, <1>14, <3>1 DEF CpuOnce, WokenIsQueued, Queued
    <3>3. Executing'
      BY <1>1, <1>14, <1>0, <3>1 DEF Executing, TypeOK
    <3>4. Registered'
      BY <1>1, <1>14, <3>1 DEF Registered, TypeOK, Ended
    <3> QED BY <3>2, <3>3, <3>4 DEF WakeInv
  <2>4. CASE Start
    <3>1. \A t \in Threads : pc[t] \in {"off", "exited"}
      BY <2>4 DEF Start, OwnerInv
    <3>2. \A t \in Threads : pc'[t] \in {"scan", "off", "exited"}
      BY <2>4, <3>1, StartMoves DEF Threads
    <3>3. \A k \in Tasks : Queued(k) => Queued(k)'
      BY <2>4 DEF Start, Queued
    <3> QED BY <1>0, <1>1, <2>4, <3>1, <3>2, <3>3, StillWoken DEF Start, Cpu
  <2>5. CASE StopBegin
    <3>1. \A k \in Tasks : Queued(k) => Queued(k)'
      BY <2>5 DEF StopBegin, Queued
    <3> QED BY <1>0, <1>1, <2>5, <3>1, StillWoken DEF StopBegin
  <2> QED BY <1>1, <2>1, <2>2, <2>3, <2>4, <2>5 DEF Client
<1>2. ASSUME Alive, Stop PROVE WakeInv'
  <2>1. UNCHANGED <<m_fibers, m_state, wake, ft>>
    BY <1>2 DEF Stop, StopFlag, StopRootSkip, StopRootCall, Join
  <2>2. \A t \in Threads : pc'[t] = pc[t] \/ (pc'[t] = "scan" /\ pc[t] \in {"off", "exited"})
    <3>1. CASE StopRootCall
      <4>1. pc[Caller] \in {"off", "exited"}
        BY <3>1 DEF StopRootCall, OwnerInv
      <4>2. pc' \in {pc, [pc EXCEPT ![Caller] = "scan"]}
        BY <3>1 DEF StopRootCall, Go
      <4> QED BY <4>1, <4>2 DEF TypeOK
    <3>2. CASE StopFlag \/ StopRootSkip \/ Join
      BY <3>2 DEF StopFlag, StopRootSkip, Join
    <3> QED BY <1>2, <3>1, <3>2 DEF Stop
  <2>3. \A k \in Tasks : Queued(k) => Queued(k)'
    BY <2>1 DEF Queued
  <2> QED BY <1>0, <1>2, <2>1, <2>2, <2>3, StillWoken DEF Cpu
<1>3. ASSUME Alive, NEW k \in Tasks, Wake(k) PROVE WakeInv'
  <2>1. /\ wake[k] = "armed" /\ wake' = [wake EXCEPT ![k] = "fired"]
        /\ m_fibers' = Push(k, AnyThread) /\ UNCHANGED <<m_state, pc, ft>>
    BY <1>3 DEF Wake
  <2>2. Queued(k)' /\ \A j : Queued(j) => Queued(j)'
    BY <2>1, PushQueues
  <2>3. CpuOnce' /\ Executing'
    BY <1>3, <1>14, <2>1 DEF CpuOnce, Executing
  <2>4. Registered'
    BY <1>3, <1>14, <2>1 DEF Registered, TypeOK
  <2>5. WokenIsQueued'
    BY <1>3, <1>14, <2>1, <2>2 DEF WokenIsQueued, TypeOK
  <2> QED BY <2>3, <2>4, <2>5 DEF WakeInv
<1>4. ASSUME Alive, NEW t \in Threads, Take(t) PROVE WakeInv'
  <2>1. PICK i \in DOMAIN m_fibers :
          /\ m_fibers' = Erase(m_fibers, i)
          /\ ft' = [ft EXCEPT ![t] = m_fibers[i].fiber]
    BY <1>4 DEF Take
  <2>2. /\ pc[t] = "scan" /\ pc' = [pc EXCEPT ![t] = "dispatch"]
        /\ UNCHANGED <<m_state, wake>>
    BY <1>4 DEF Take, Go
  <2>3. \A k \in Tasks : Queued(k) => Queued(k)' \/ k = m_fibers[i].fiber
    <3>1. m_fibers \in Seq(Entry)
      BY DEF TypeOK
    <3>2. /\ \A j \in DOMAIN m_fibers' : m_fibers'[j] = m_fibers[IF j < i THEN j ELSE j + 1]
          /\ \A j \in DOMAIN m_fibers \ {i} :
               \E l \in DOMAIN m_fibers' : j = IF l < i THEN l ELSE l + 1
      BY <2>1, <3>1, EraseEntries
    <3> QED BY <3>2 DEF Queued
  <2>4. \A u \in Threads : u # t => ft'[u] = ft[u] /\ pc'[u] = pc[u]
    BY <2>1, <2>2 DEF TypeOK
  <2>5. ft'[t] = m_fibers[i].fiber /\ pc'[t] = "dispatch"
    BY <2>1, <2>2 DEF TypeOK
  <2>6. CpuOnce'
    BY <1>4, <1>14, <2>4, <2>5 DEF CpuOnce, Cpu
  <2>7. Executing' /\ Registered'
    BY <1>4, <1>14, <2>2, <2>4, <2>5 DEF Executing, Registered
  <2>8. WokenIsQueued'
    <3> SUFFICES ASSUME NEW k \in Tasks, wake[k] = "fired"
                 PROVE  Queued(k)' \/ \E u \in Threads : ft'[u] = k /\ pc'[u] = "dispatch"
      BY <2>2 DEF WokenIsQueued
    <3>1. CASE Queued(k)
      BY <2>3, <2>5, <3>1
    <3>2. CASE \E u \in Threads : ft[u] = k /\ pc[u] = "dispatch"
      BY <2>2, <2>4, <3>2
    <3> QED BY <1>4, <1>14, <3>1, <3>2 DEF WokenIsQueued
  <2> QED BY <2>6, <2>7, <2>8 DEF WakeInv
<1>5. ASSUME Alive, NEW t \in Threads, SwapIn(t) PROVE WakeInv'
  <2>1. /\ pc[t] = "dispatch" /\ ft[t] \in Tasks
        /\ m_state' = [m_state EXCEPT ![ft[t]] = "EXEC"]
        /\ wake' = [wake EXCEPT ![ft[t]] = "none"]
        /\ pc' = [pc EXCEPT ![t] = "exec"] /\ UNCHANGED <<m_fibers, ft>>
        /\ abort' = "none" => ~OnCpu(ft[t])
    BY <1>0, <1>5 DEF SwapIn, SetState, Go
  <2> SUFFICES ASSUME Alive' PROVE CpuOnce' /\ Executing' /\ Registered' /\ WokenIsQueued'
    BY DEF WakeInv
  <2>2. \A u \in Threads : ft[u] = ft[t] => pc[u] \notin Cpu
    BY <2>1 DEF Alive, OnCpu, Cpu
  <2>3. \A u \in Threads : u # t => pc'[u] = pc[u]
    BY <2>1 DEF TypeOK
  <2>4. CpuOnce'
    BY <1>5, <1>14, <2>1, <2>2, <2>3 DEF CpuOnce
  <2>5. Executing'
    BY <1>0, <1>5, <1>14, <2>1, <2>3 DEF Executing, TypeOK
  <2>6. Registered'
    BY <1>5, <1>14, <2>1 DEF Registered, TypeOK
  <2>7. WokenIsQueued'
    <3> SUFFICES ASSUME NEW k \in Tasks, wake'[k] = "fired"
                 PROVE  Queued(k)' \/ \E u \in Threads : ft'[u] = k /\ pc'[u] = "dispatch"
      BY DEF WokenIsQueued
    <3>1. k # ft[t] /\ wake[k] = "fired"
      BY <2>1 DEF TypeOK
    <3>2. CASE Queued(k)
      BY <2>1, <3>2 DEF Queued
    <3>3. CASE \E u \in Threads : ft[u] = k /\ pc[u] = "dispatch"
      BY <2>1, <2>3, <3>1, <3>3
    <3> QED BY <1>5, <1>14, <3>1, <3>2, <3>3 DEF WokenIsQueued
  <2> QED BY <2>4, <2>5, <2>6, <2>7
(* The steps of a body that change the state of its fiber. *)
<1>6. ASSUME Alive, NEW t \in Threads, YieldToReady(t) \/ YieldToHold(t) \/ Finish(t)
      PROVE  WakeInv'
  <2>1. /\ pc[t] = "exec" /\ ft[t] \in Tasks /\ pc' = [pc EXCEPT ![t] = "swapout"]
        /\ UNCHANGED <<m_fibers, ft, wake>>
    BY <1>0, <1>6 DEF YieldToReady, YieldToHold, Finish, Go
  <2>2. PICK s \in FiberState : /\ m_state' = [m_state EXCEPT ![ft[t]] = s]
                                /\ wake[ft[t]] # "none" => s = "HOLD"
    BY <1>6 DEF YieldToReady, YieldToHold, Finish, SetState, FiberState, Ended
  <2>3. \A u \in Threads : u # t => pc'[u] = pc[u]
    BY <2>1 DEF TypeOK
  <2>4. \A u \in Threads : u # t /\ pc[u] \in Cpu => ft[u] # ft[t]
    BY <1>6, <1>14, <2>1 DEF CpuOnce, Cpu
  <2>5. CpuOnce'
    BY <1>6, <1>14, <2>1, <2>3 DEF CpuOnce, Cpu, TypeOK
  <2>6. Executing'
    <3> SUFFICES ASSUME NEW u \in Threads, pc'[u] = "exec"
                 PROVE  m_state'[ft[u]] \in {"EXEC", "HOLD"}
      BY <2>1 DEF Executing
    <3>1. u # t /\ pc[u] = "exec"
      BY <2>1, <2>3 DEF TypeOK
    <3>2. ft[u] \in Tasks /\ ft[u] # ft[t]
      BY <1>0, <2>4, <3>1 DEF Cpu
    <3> QED BY <1>6, <1>14, <2>2, <3>1, <3>2 DEF Executing, TypeOK
  <2>7. Registered'
    BY <1>6, <1>14, <2>1, <2>2 DEF Registered, TypeOK
  <2>8. WokenIsQueued'
    BY <1>6, <1>14, <2>1, <2>3 DEF WokenIsQueued, Queued
  <2> QED BY <2>5, <2>6, <2>7, <2>8 DEF WakeInv
<1>7. ASSUME Alive, NEW t \in Threads, Arm(t) PROVE WakeInv'
  <2>1. /\ pc[t] = "exec" /\ ft[t] \in Tasks /\ wake' = [wake EXCEPT ![ft[t]] = "armed"]
        /\ UNCHANGED <<m_fibers, m_state, pc, ft>>
    BY <1>0, <1>7 DEF Arm
  <2>2. CpuOnce' /\ Executing'
    BY <1>7, <1>14, <2>1 DEF CpuOnce, Executing
  <2>3. Registered'
    BY <1>7, <1>14, <2>1 DEF Registered, Executing, TypeOK
  <2>4. WokenIsQueued'
    BY <1>7, <1>14, <2>1, ZenonT(60) DEF WokenIsQueued, Queued, TypeOK
  <2> QED BY <2>2, <2>3, <2>4 DEF WakeInv
<1>8. ASSUME Alive, NEW t \in Threads, NEW k \in Tasks, NEW thr \in Pins \cup {AnyThread},
             TaskSchedule(t, k, thr)
      PROVE  WakeInv'
  <2>1. \A j \in Tasks : Queued(j) => Queued(j)'
    BY <1>0, <1>8, PushQueues DEF TaskSchedule
  <2> QED BY <1>0, <1>8, <2>1, StillWoken DEF TaskSchedule
<1>9. ASSUME Alive, NEW t \in Threads, SwapOut(t) \/ Back(t) \/ SettleOther(t)
      PROVE  WakeInv'
  <2>1. /\ UNCHANGED <<m_fibers, m_state, wake, ft>>
        /\ pc[t] \in {"swapout", "back", "settle"}
        /\ \E to \in {"back", "settle", "hold"} : pc' = [pc EXCEPT ![t] = to]
    BY <1>9 DEF SwapOut, Back, SettleOther, Go
  <2>2. \A u \in Threads : pc'[u] \in Cpu => pc'[u] = pc[u]
    BY <2>1 DEF TypeOK, Cpu
  <2>3. \A u \in Threads : pc[u] = "dispatch" => pc'[u] = "dispatch"
    BY <2>1 DEF TypeOK
  <2>4. \A j \in Tasks : Queued(j) => Queued(j)'
    BY <2>1 DEF Queued
  <2> QED BY <1>0, <1>9, <2>1, <2>2, <2>3, <2>4, StillWoken
(* The steps in which a thread lets its task go. *)
<1>10. ASSUME Alive, NEW t \in Threads,
              Drop(t) \/ SettleReady(t) \/ SettleEnded(t) \/ SettleHold(t)
       PROVE  WakeInv'
  <2>1. /\ ft[t] \in Tasks /\ pc[t] \in {"dispatch", "settle", "hold"}
        /\ wake' = wake /\ ft' = [ft EXCEPT ![t] = None] /\ pc' = [pc EXCEPT ![t] = "scan"]
        /\ m_state' \in {m_state, [m_state EXCEPT ![ft[t]] = "HOLD"]}
        /\ pc[t] = "dispatch" => m_state[ft[t]] \in Ended
    BY <1>0, <1>10 DEF Drop, SettleReady, SettleEnded, SettleHold, Release, Go, SetState
  <2>2. \A j \in Tasks : Queued(j) => Queued(j)'
    <3>1. CASE SettleReady(t)
      BY <2>1, <3>1, PushQueues DEF SettleReady, Requeue
    <3>2. CASE Drop(t) \/ SettleEnded(t) \/ SettleHold(t)
      BY <3>2 DEF Drop, SettleEnded, SettleHold, Queued
    <3> QED BY <1>10, <3>1, <3>2
  <2>3. \A u \in Threads : u # t => pc'[u] = pc[u] /\ ft'[u] = ft[u]
    BY <2>1 DEF TypeOK
  <2>4. pc'[t] = "scan"
    BY <2>1 DEF TypeOK
  <2>5. \A k \in Tasks : m_state'[k] \in {m_state[k], "HOLD"}
    BY <2>1 DEF TypeOK
  <2>6. CpuOnce'
    BY <1>10, <1>14, <2>3, <2>4 DEF CpuOnce, Cpu
  <2>7. Executing'
    <3> SUFFICES ASSUME NEW u \in Threads, pc'[u] = "exec"
                 PROVE  m_state'[ft'[u]] \in {"EXEC", "HOLD"}
      BY DEF Executing
    <3>1. u # t /\ pc[u] = "exec" /\ ft'[u] = ft[u] /\ ft[u] \in Tasks
      BY <1>0, <2>3, <2>4
    <3> QED BY <1>10, <1>14, <2>5, <3>1 DEF Executing
  <2>8. Registered'
    BY <1>10, <1>14, <2>1, <2>5 DEF Registered
  <2>9. WokenIsQueued'
    <3> SUFFICES ASSUME NEW k \in Tasks, wake[k] = "fired"
                 PROVE  Queued(k)' \/ \E u \in Threads : ft'[u] = k /\ pc'[u] = "dispatch"
      BY <2>1 DEF WokenIsQueued
    <3>1. CASE Queued(k)
      BY <2>2, <3>1
    <3>2. ASSUME NEW u \in Threads, ft[u] = k, pc[u] = "dispatch"
          PROVE  Queued(k)' \/ \E v \in Threads : ft'[v] = k /\ pc'[v] = "dispatch"
      <4>1. m_state[k] \in {"EXEC", "HOLD"}
        BY <1>10, <1>14 DEF Registered
      <4>2. u # t
        BY <2>1, <3>2, <4>1 DEF Ended
      <4> QED BY <2>3, <3>2, <4>2
    <3> QED BY <1>10, <1>14, <3>1, <3>2 DEF WokenIsQueued
  <2> QED BY <2>6, <2>7, <2>8, <2>9 DEF WakeInv
<1>11. ASSUME Alive, NEW t \in Threads, EnterIdle(t) \/ LeaveIdle(t) \/ Break(t)
       PROVE  WakeInv'
  <2>1. /\ UNCHANGED <<m_fibers, m_state, wake, ft>> /\ pc[t] \in {"scan", "idle"}
        /\ \E to \in {"idle", "scan", "exited"} : pc' = [pc EXCEPT ![t] = to]
    BY <1>11 DEF EnterIdle, LeaveIdle, Break, Go
  <2>2. \A u \in Threads : pc'[u] \in Cpu => pc'[u] = pc[u]
    BY <2>1 DEF TypeOK, Cpu
  <2>3. \A u \in Threads : pc[u] = "dispatch" => pc'[u] = "dispatch"
    BY <2>1 DEF TypeOK
  <2>4. \A j \in Tasks : Queued(j) => Queued(j)'
    BY <2>1 DEF Queued
  <2> QED BY <1>0, <1>11, <2>1, <2>2, <2>3, <2>4, StillWoken
<1>12. CASE UNCHANGED vars
  BY <1>14, <1>12 DEF vars, WakeInv, Alive, CpuOnce, Executing, Registered, WokenIsQueued, Queued
<1>13. CASE Next
  <2>1. Alive
    BY <1>13 DEF Next
  <2>2. ASSUME NEW t \in Threads, Run(t) PROVE WakeInv'
    BY <1>4, <1>5, <1>6, <1>7, <1>8, <1>9, <1>10, <1>11, <2>1, <2>2 DEF Run, Body
  <2> QED BY <1>1, <1>2, <1>3, <1>13, <2>1, <2>2 DEF Next
<1> QED BY <1>12, <1>13

(* Even on many threads, where fibers that hold may fail an assertion, a    *)
(* wake-up is not lost before one fails: from the moment its event fires    *)
(* until it executes again a fiber is in the queue or in the hands of a     *)
(* thread that is about to enter it, also when the event fires while the    *)
(* fiber is still on its way out of the cpu.                                *)
THEOREM WakeUpsAreQueued == Spec => [](Alive => WokenIsQueued)
<1>1. WakeInv => (Alive => WokenIsQueued)
  BY DEF WakeInv
<1>2. CountInv /\ WakeInv /\ [Next]_vars => WakeInv'
  BY WakeInvNext
<1> QED BY <1>1, <1>2, WakeInvInit, PlacesKept, PTL DEF Spec

-----------------------------------------------------------------------------
(* With one thread in run() at a time: what it has taken does not execute   *)
(* before it enters it, and executes while it is inside.                    *)
InRun(t) == pc[t] \notin {"off", "exited"}
AloneInv ==
  /\ \A t, u \in Threads : InRun(t) /\ InRun(u) => t = u
  /\ \A t \in Threads : pc[t] = "dispatch" => m_state[ft[t]] # "EXEC"
  /\ \A t \in Threads : pc[t] = "exec" => m_state[ft[t]] = "EXEC"
  /\ FiberAssertionsHold

LEMMA AloneInvNext ==
  ASSUME ThreadCount = 0 \/ (ThreadCount = 1 /\ ~UseCaller)
  PROVE  CountInv /\ AloneInv /\ [Next]_vars => AloneInv'
<1> SUFFICES ASSUME TypeOK, OwnerInv, AloneInv, [Next]_vars PROVE AloneInv'
  BY DEF CountInv
<1>0. /\ \A t \in Threads : ft[t] \in Tasks \cup {None}
      /\ \A t \in Threads : (ft[t] # None) <=>
           (pc[t] \in {"dispatch", "exec", "swapout", "back", "settle", "hold"})
      /\ None \notin Tasks /\ Threads = Workers \cup {Caller} /\ Caller \in Threads
      /\ m_state \in [Tasks -> FiberState] /\ pc \in [Threads -> PC]
      /\ ft \in [Threads -> Tasks \cup {None}]
  BY SchedularAssumption DEF TypeOK, Threads
<1> USE DEF AloneInv
(* A step that keeps the states of the fibers and what threads hold, and    *)
(* moves threads in no way the invariant sees.                              *)
<1>1. ASSUME UNCHANGED <<m_state, ft>>, FiberAssertionsHold',
             \A t, u \in Threads : InRun(t)' /\ InRun(u)' => t = u,
             \A t \in Threads : pc'[t] \in {"dispatch", "exec"} => pc'[t] = pc[t]
      PROVE  AloneInv'
  BY <1>1
<1>2. ASSUME Alive, Client PROVE AloneInv'
  <2>1. FiberAssertionsHold'
    BY <1>2 DEF Client, ClientSchedule, ClientScheduleRange, Reset, Start, StopBegin,
                FiberAssertionsHold
  <2>2. ASSUME NEW k \in Tasks, Reset(k) PROVE AloneInv'
    <3>1. /\ UNCHANGED <<pc, ft>> /\ m_state' = [m_state EXCEPT ![k] = "INIT"]
          /\ \A t \in Threads : ft[t] # k
      BY <2>2 DEF Reset, SetState, Free, InHand
    <3> QED BY <1>0, <2>1, <3>1 DEF InRun
  <2>3. CASE Start
    <3>1. \A t \in Threads : pc[t] \in {"off", "exited"}
      BY <2>3 DEF Start, OwnerInv
    <3>2. PICK new \in SUBSET Workers :
            /\ \A t, u \in new : t = u
            /\ \A t \in Workers : pc'[t] = IF t \in new THEN "scan" ELSE pc[t]
      BY <2>3, StartMoves
    <3>3. pc'[Caller] = "off" /\ UNCHANGED <<m_state, ft>>
      BY <2>3, StartMoves DEF Start
    <3>4. /\ \A t, u \in Threads : InRun(t)' /\ InRun(u)' => t = u
          /\ \A t \in Threads : pc'[t] \notin {"dispatch", "exec"}
      BY <1>0, <3>1, <3>2, <3>3 DEF InRun
    <3> QED BY <1>1, <2>1, <3>3, <3>4
  <2>4. CASE UNCHANGED <<m_state, ft, pc>>
    BY <1>1, <2>1, <2>4 DEF InRun
  <2> QED BY <1>2, <2>2, <2>3, <2>4 DEF Client, ClientSchedule, ClientScheduleRange, StopBegin
<1>3. ASSUME Alive, Stop PROVE AloneInv'
  <2>1. FiberAssertionsHold' /\ UNCHANGED <<m_state, ft>>
    BY <1>3 DEF Stop, StopFlag, StopRootSkip, StopRootCall, Join, FiberAssertionsHold
  <2>2. CASE StopRootCall
    <3>1. UseCaller /\ pc' \in {pc, [pc EXCEPT ![Caller] = "scan"]}
      BY <2>2 DEF StopRootCall, Go
    <3>2. \A t \in Workers : pc[t] = "off"
      BY <3>1 DEF OwnerInv
    <3>3. /\ \A t \in Threads : t # Caller => pc'[t] = "off"
          /\ \A t \in Threads : pc'[t] \in {"dispatch", "exec"} => pc'[t] = pc[t]
      BY <1>0, <3>1, <3>2
    <3> QED BY <1>1, <2>1, <3>3 DEF InRun
  <2>3. CASE UNCHANGED pc
    BY <1>1, <2>1, <2>3 DEF InRun
  <2> QED BY <1>3, <2>2, <2>3 DEF Stop, StopFlag, StopRootSkip, Join
<1>4. ASSUME NEW k \in Tasks, Wake(k) PROVE AloneInv'
  BY <1>1, <1>4 DEF Wake, FiberAssertionsHold, InRun
(* The thread that moves is alone in run(), and no other has a task; it     *)
(* stays alone.                                                             *)
<1>5. ASSUME NEW t \in Threads, InRun(t)
      PROVE  /\ \A u \in Threads : u # t => pc[u] \in {"off", "exited"} /\ ft[u] = None
             /\ \A to : pc' = [pc EXCEPT ![t] = to] =>
                  \A u, v \in Threads : InRun(u)' /\ InRun(v)' => u = v
  BY <1>0, <1>5 DEF InRun
<1>6. ASSUME NEW t \in Threads, Take(t) PROVE AloneInv'
  <2>1. PICK i \in DOMAIN m_fibers :
          Runnable(t, m_fibers[i]) /\ ft' = [ft EXCEPT ![t] = m_fibers[i].fiber]
    BY <1>6 DEF Take
  <2>2. /\ pc[t] = "scan" /\ pc' = [pc EXCEPT ![t] = "dispatch"]
        /\ UNCHANGED <<m_state, abort>>
    BY <1>6 DEF Take, Go
  <2>3. m_state[m_fibers[i].fiber] # "EXEC" /\ InRun(t)
    BY <2>1, <2>2 DEF Runnable, InRun
  <2> QED BY <1>0, <1>5, <2>1, <2>2, <2>3 DEF FiberAssertionsHold
<1>7. ASSUME NEW t \in Threads, SwapIn(t) PROVE AloneInv'
  <2>1. /\ pc[t] = "dispatch" /\ m_state' = [m_state EXCEPT ![ft[t]] = "EXEC"]
        /\ pc' = [pc EXCEPT ![t] = "exec"] /\ ft' = ft /\ ft[t] \in Tasks /\ InRun(t)
    BY <1>0, <1>7 DEF SwapIn, SetState, Go, InRun
  <2>2. m_state[ft[t]] # "EXEC" /\ ~OnCpu(ft[t])
    BY <1>0, <1>5, <2>1 DEF OnCpu
  <2>3. FiberAssertionsHold'
    BY <1>7, <2>2 DEF SwapIn, FiberAssertionsHold
  <2> QED BY <1>0, <1>5, <2>1, <2>3
<1>8. ASSUME NEW t \in Threads, YieldToReady(t) \/ YieldToHold(t) \/ Finish(t)
      PROVE  AloneInv'
  <2>1. /\ pc[t] = "exec" /\ pc' = [pc EXCEPT ![t] = "swapout"] /\ ft' = ft /\ InRun(t)
    BY <1>8 DEF YieldToReady, YieldToHold, Finish, Go, InRun
  <2>2. FiberAssertionsHold'
    BY <1>8, <2>1 DEF YieldToReady, YieldToHold, Finish, FiberAssertionsHold
  <2> QED BY <1>0, <1>5, <2>1, <2>2
<1>9. ASSUME NEW t \in Threads, Arm(t) PROVE AloneInv'
  BY <1>1, <1>9 DEF Arm, FiberAssertionsHold, InRun
<1>10. ASSUME NEW t \in Threads, NEW k \in Tasks, NEW thr \in Pins \cup {AnyThread},
              TaskSchedule(t, k, thr)
       PROVE  AloneInv'
  BY <1>1, <1>10 DEF TaskSchedule, FiberAssertionsHold, InRun
(* The steps after which the thread is neither about to enter a fiber nor   *)
(* inside one.                                                              *)
<1>11. ASSUME NEW t \in Threads,
              \/ Drop(t) \/ SwapOut(t) \/ Back(t) \/ SettleReady(t) \/ SettleEnded(t)
              \/ SettleOther(t) \/ SettleHold(t)
              \/ EnterIdle(t) \/ LeaveIdle(t) \/ Break(t)
       PROVE  AloneInv'
  <2>1. abort' = abort /\ InRun(t)
    BY <1>11 DEF Drop, SwapOut, Back, SettleReady, SettleEnded, SettleOther, SettleHold,
                 EnterIdle, LeaveIdle, Break, InRun
  <2>2. \E to \in PC \ {"dispatch", "exec"} : pc' = [pc EXCEPT ![t] = to]
    BY <1>11 DEF Drop, SwapOut, Back, SettleReady, SettleEnded, SettleOther, SettleHold,
                 EnterIdle, LeaveIdle, Break, Go, PC
  <2>3. /\ \A u, v \in Threads : InRun(u)' /\ InRun(v)' => u = v
        /\ \A u \in Threads : pc'[u] \notin {"dispatch", "exec"}
    BY <1>0, <1>5, <2>1, <2>2
  <2> QED BY <2>1, <2>3 DEF FiberAssertionsHold
<1>12. CASE UNCHANGED vars
  BY <1>1, <1>12 DEF vars, FiberAssertionsHold, InRun
<1>13. CASE Next
  <2>1. ASSUME NEW t \in Threads, Run(t) PROVE AloneInv'
    BY <1>6, <1>7, <1>8, <1>9, <1>10, <1>11, <2>1 DEF Run, Body
  <2> QED BY <1>2, <1>3, <1>4, <1>13, <2>1 DEF Next
<1> QED BY <1>12, <1>13

(* A scheduler with one thread in run(), one worker or only the caller's,   *)
(* never fails an assertion of Fiber and never enters a live context,       *)
(* through any number of start() and stop(), though its fibers hold and     *)
(* their events fire at any moment: the race that sched_hold_race finds     *)
(* needs a second thread that takes the fiber while the first is still on   *)
(* its way out of it.                                                       *)
THEOREM OneThreadNeverRaces ==
  ASSUME ThreadCount = 0 \/ (ThreadCount = 1 /\ ~UseCaller)
  PROVE  Spec => []FiberAssertionsHold
<1>1. Init => AloneInv
  BY DEF Init, AloneInv, FiberAssertionsHold, InRun
<1>2. AloneInv => FiberAssertionsHold
  BY DEF AloneInv
<1>3. CountInv /\ AloneInv /\ [Next]_vars => AloneInv'
  BY AloneInvNext
<1> QED BY <1>1, <1>2, <1>3, PlacesKept, PTL DEF Spec

=============================================================================
