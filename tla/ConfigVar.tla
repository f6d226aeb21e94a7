----------------------------- MODULE ConfigVar -----------------------------
(***************************************************************************)
(* One ConfigVar: setValue by several threads, and the listeners it tells. *)
(* setValue compares and calls the listeners under the read lock, lets it  *)
(* go, and stores the value under the write lock.  A listener is what      *)
(* hook.cpp and qlc_log.cpp register: it keeps something derived from the  *)
(* value it was told last.                                                 *)
(***************************************************************************)
EXTENDS Naturals, FiniteSets

CONSTANTS
  Setters,       \* threads that call setValue, directly or by LoadFromYaml
  Listeners,     \* callbacks; a call of addListener gives a fresh id
  Values,        \* the values that are set
  Default,       \* the value the variable is made with
  Equal(_, _),   \* operator== of the variable's type
  MaxSets        \* bound: calls of setValue that find a different value

ASSUME ConfigVarAssumption == Default \in Values /\ MaxSets \in Nat

VARIABLES
  m_val,
  m_cbs,        \* the listeners that are registered
  setPc,        \* a setter: "out", "tell" (has the read lock) or "store"
  setTo,        \* the argument of its setValue
  toTell,       \* listeners it has still to call
  told,         \* the new value each listener was told last
  overlapped,   \* history: two calls of setValue were under way together
  sets          \* bounded counter

varVars == <<m_val, m_cbs, setPc, setTo, toTell, told, overlapped, sets>>

VarInit ==
  /\ m_val = Default
  /\ m_cbs = Listeners
  /\ setPc = [s \in Setters |-> "out"]
  /\ setTo = [s \in Setters |-> Default]
  /\ toTell = [s \in Setters |-> {}]
  /\ told = [l \in Listeners |-> Default]
  /\ overlapped = FALSE
  /\ sets = 0

(* Nobody has the read lock. *)
WriteLockFree == \A s \in Setters : setPc[s] # "tell"

(* setValue: an equal value changes nothing; otherwise the listeners that   *)
(* are registered are called, with the read lock held                       *)
SetValue(s, v) ==
  /\ setPc[s] = "out" /\ sets < MaxSets
  /\ ~Equal(m_val, v)
  /\ setPc' = [setPc EXCEPT ![s] = "tell"]
  /\ setTo' = [setTo EXCEPT ![s] = v]
  /\ toTell' = [toTell EXCEPT ![s] = m_cbs]
  /\ overlapped' = (overlapped \/ \E u \in Setters : setPc[u] # "out")
  /\ sets' = sets + 1
  /\ UNCHANGED <<m_val, m_cbs, told>>

(* Mutant: a listener is told the value that is replaced. *)
TellOld(s, l) ==
  /\ setPc[s] = "tell" /\ l \in toTell[s]
  /\ toTell' = [toTell EXCEPT ![s] = @ \ {l}]
  /\ told' = [told EXCEPT ![l] = m_val]
  /\ UNCHANGED <<m_val, m_cbs, setPc, setTo, overlapped, sets>>
(* One listener returns from its call. *)
Tell(s, l) ==
  /\ setPc[s] = "tell" /\ l \in toTell[s]
  /\ toTell' = [toTell EXCEPT ![s] = @ \ {l}]
  /\ told' = [told EXCEPT ![l] = setTo[s]]
  /\ UNCHANGED <<m_val, m_cbs, setPc, setTo, overlapped, sets>>

(* The read lock is let go ... *)
Told(s) ==
  /\ setPc[s] = "tell" /\ toTell[s] = {}
  /\ setPc' = [setPc EXCEPT ![s] = "store"]
  /\ UNCHANGED <<m_val, m_cbs, setTo, toTell, told, overlapped, sets>>
(* ... and the value is stored under the write lock. *)
Store(s) ==
  /\ setPc[s] = "store" /\ WriteLockFree
  /\ m_val' = setTo[s]
  /\ setPc' = [setPc EXCEPT ![s] = "out"]
  /\ UNCHANGED <<m_cbs, setTo, toTell, told, overlapped, sets>>

(* addListener by a caller that has read the value, and delListener *)
AddListener(l) ==
  /\ WriteLockFree /\ l \notin m_cbs
  /\ m_cbs' = m_cbs \cup {l}
  /\ told' = [told EXCEPT ![l] = m_val]
  /\ overlapped' = (overlapped \/ \E u \in Setters : setPc[u] # "out")
  /\ UNCHANGED <<m_val, setPc, setTo, toTell, sets>>
(* Mutant: delListener takes no lock, as clearListener does. *)
DelListenerUnlocked(l) ==
  /\ l \in m_cbs
  /\ m_cbs' = m_cbs \ {l}
  /\ UNCHANGED <<m_val, setPc, setTo, toTell, told, overlapped, sets>>
DelListener(l) ==
  /\ WriteLockFree /\ l \in m_cbs
  /\ m_cbs' = m_cbs \ {l}
  /\ UNCHANGED <<m_val, setPc, setTo, toTell, told, overlapped, sets>>

VarTypeOK ==
  /\ m_val \in Values
  /\ m_cbs \subseteq Listeners
  /\ setPc \in [Setters -> {"out", "tell", "store"}]
  /\ setTo \in [Setters -> Values]
  /\ toTell \in [Setters -> SUBSET Listeners]
  /\ told \in [Listeners -> Values]
  /\ overlapped \in BOOLEAN
  /\ sets \in 0..MaxSets

(* A listener whose delListener has returned is not called any more: a      *)
(* setter only ever has registered listeners before it.                     *)
DeletedIsNotTold == \A s \in Setters : toTell[s] \subseteq m_cbs

(* What a registered listener was told last (s_connect_timeout, the         *)
(* loggers) is the value of the variable whenever no setValue is under way, *)
(* as long as no two calls of setValue ever overlapped.                     *)
ToldIsValue ==
  (~overlapped /\ \A s \in Setters : setPc[s] = "out") =>
    \A l \in m_cbs : told[l] = m_val

=============================================================================
