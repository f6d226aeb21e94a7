------------------------------ MODULE TaskPool ------------------------------
(***************************************************************************)
(* What a scheduler promises to those who give it tasks, without queue,    *)
(* threads and counters.  Only its submitter makes an idle task wait and   *)
(* renews an ended one; a task that waits is run before anything else      *)
(* happens to it; a task that runs ends, waits again or is held until its  *)
(* event comes; and the pool closes only when no task waits or runs.  A    *)
(* task that is submitted for a thread that has left is stranded; it waits *)
(* when the pool opens again, if the thread is one that comes back, and is *)
(* never run otherwise.                                                    *)
(***************************************************************************)
CONSTANT Tasks

VARIABLES
  status,  \* what each task is doing
  closed   \* the pool has been stopped

vars == <<status, closed>>

Status == {"idle", "waiting", "stranded", "running", "held", "ended"}

Init == status = [k \in Tasks |-> "idle"] /\ closed = FALSE

Move(k, from, to) ==
  /\ status[k] = from
  /\ status' = [status EXCEPT ![k] = to]
  /\ UNCHANGED closed

(* Several tasks may be submitted at once, all for the same worker or for   *)
(* any.                                                                     *)
Submit(K, to) ==
  /\ K # {} /\ ~closed /\ \A k \in K : status[k] = "idle"
  /\ status' = [k \in Tasks |-> IF k \in K THEN to ELSE status[k]]
  /\ UNCHANGED closed
Renew(k)  == ~closed /\ Move(k, "ended", "idle")
Run(k)    == Move(k, "waiting", "running")
Yield(k)  == Move(k, "running", "waiting")
Hold(k)   == Move(k, "running", "held")
Wake(k)   == Move(k, "held", "waiting")
Finish(k) == Move(k, "running", "ended")

Close ==
  /\ ~closed /\ closed' = TRUE
  /\ \A k \in Tasks : status[k] \notin {"waiting", "running"}
  /\ UNCHANGED status
Open(K) ==
  /\ closed /\ closed' = FALSE
  /\ \A k \in K : status[k] = "stranded"
  /\ status' = [k \in Tasks |-> IF k \in K THEN "waiting" ELSE status[k]]

Next ==
  \/ \E K \in SUBSET Tasks : Submit(K, "waiting") \/ Submit(K, "stranded") \/ Open(K)
  \/ \E k \in Tasks : \/ Renew(k) \/ Run(k) \/ Yield(k) \/ Hold(k) \/ Wake(k)
                      \/ Finish(k)
  \/ Close

Spec == Init /\ [][Next]_vars

=============================================================================
