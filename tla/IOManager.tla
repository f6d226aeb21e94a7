----------------------------- MODULE IOManager -----------------------------
(***************************************************************************)
(* The events of an IOManager: addEvent, delEvent, cancelEvent, cancelAll  *)
(* and triggerEvent on the FdContext of a file descriptor, the epoll       *)
(* instance behind it, and the event loop of IOManager::idle in several    *)
(* threads.  What runs under one FdContext::mutex is one step.             *)
(*                                                                         *)
(* The kernel is modelled by what the code relies on: edge-triggered       *)
(* epoll reports a descriptor once per edge, an epoll_ctl ADD or MOD looks *)
(* at the readiness again, ADD of a registered and MOD or DEL of an        *)
(* unregistered descriptor fail, and closing a descriptor unregisters it.  *)
(***************************************************************************)
EXTENDS Naturals, FiniteSets

CONSTANTS
  Fds,       \* file descriptor numbers
  Idlers,    \* the threads that run IOManager::idle
  Waiters,   \* the fibers (or callbacks) that wait for events
  None,      \* an empty EventContext
  MayCancel, \* descriptors on which delEvent, cancelEvent, cancelAll are called
  MayClose   \* descriptors that are closed while something waits for them

ASSUME IOAssumption ==
  /\ IsFiniteSet(Fds) /\ None \notin Waiters
  /\ MayCancel \subseteq Fds /\ MayClose \subseteq Fds

VARIABLES
  events,               \* FdContext::events
  ctx,                  \* FdContext::read and ::write: who waits
  m_pendingEventCount,
  open,                 \* the descriptor refers to a file
  interest,             \* kernel: the event mask epoll holds, {} if none
  ready,                \* kernel: what the file is ready for
  edge,                 \* kernel: the descriptor is on epoll's ready list
  harvested,            \* what epoll_wait returned to a thread and is not yet handled
  parked,               \* waiters that gave up the cpu after addEvent
  orphaned,             \* history: descriptors that were closed under a waiter
  scheduled,            \* how many queue entries the scheduler has for a waiter
  abort                 \* the assertion that failed, or "none"

registry == <<events, ctx, m_pendingEventCount>>
kernel == <<open, interest, ready, edge>>
vars == <<registry, kernel, harvested, parked,
          orphaned, scheduled, abort>>

Event == {"READ", "WRITE"}
(* EPOLLERR and EPOLLHUP are reported whatever the mask. *)
Condition == Event \cup {"ERR"}
Report == [fd : Fds, evs : SUBSET Condition]

-----------------------------------------------------------------------------
(* The kernel's side of epoll_ctl(op, fd, mask). *)
Registered(fd) == open[fd] /\ interest[fd] # {}
OpOf(old, new) == IF old = {} THEN "ADD" ELSE IF new = {} THEN "DEL" ELSE "MOD"
CtlSucceeds(op, fd) ==
  IF op = "ADD" THEN open[fd] /\ interest[fd] = {} ELSE Registered(fd)
EpollCtl(fd, mask) ==
  /\ interest' = [interest EXCEPT ![fd] = mask]
  /\ edge' = [edge EXCEPT ![fd] =
       mask # {} /\ (@ \/ ready[fd] \cap (mask \cup {"ERR"}) # {})]
  /\ UNCHANGED <<open, ready>>

-----------------------------------------------------------------------------
Init ==
  /\ events = [fd \in Fds |-> {}]
  /\ ctx = [fd \in Fds |-> [e \in Event |-> None]]
  /\ m_pendingEventCount = 0
  /\ open = [fd \in Fds |-> TRUE]
  /\ interest = [fd \in Fds |-> {}]
  /\ ready = [fd \in Fds |-> {}]
  /\ edge = [fd \in Fds |-> FALSE]
  /\ harvested = [t \in Idlers |-> {}]
  /\ parked = {} /\ orphaned = {}
  /\ scheduled = [w \in Waiters |-> 0]
  /\ abort = "none"

-----------------------------------------------------------------------------
(* triggerEvent for every event of evs, with the --m_pendingEventCount that *)
(* follows each call.  Its assertion fails for an event that is not there.  *)
Woken(fd, evs) == {ctx[fd][e] : e \in evs}
(* Mutant: triggerEvent does not clear the bit of the event. *)
TriggerKeepsBit(fd, evs) ==
  IF evs \subseteq events[fd]
  THEN /\ ctx' = [ctx EXCEPT ![fd] = [e \in Event |-> IF e \in evs THEN None ELSE @[e]]]
       /\ scheduled' = [w \in Waiters |->
                          IF w \in Woken(fd, evs) THEN scheduled[w] + 1 ELSE scheduled[w]]
       /\ m_pendingEventCount' = m_pendingEventCount - Cardinality(evs)
       /\ UNCHANGED <<events, abort>>
  ELSE /\ abort' = "triggerEvent"
       /\ UNCHANGED <<events, ctx, scheduled, m_pendingEventCount>>
(* Mutant: the fiber is copied to the scheduler and stays in the context. *)
TriggerCopies(fd, evs) ==
  IF evs \subseteq events[fd]
  THEN /\ events' = [events EXCEPT ![fd] = @ \ evs]
       /\ scheduled' = [w \in Waiters |->
                          IF w \in Woken(fd, evs) THEN scheduled[w] + 1 ELSE scheduled[w]]
       /\ m_pendingEventCount' = m_pendingEventCount - Cardinality(evs)
       /\ UNCHANGED <<ctx, abort>>
  ELSE /\ abort' = "triggerEvent"
       /\ UNCHANGED <<events, ctx, scheduled, m_pendingEventCount>>
Trigger(fd, evs) ==
  IF evs \subseteq events[fd]
  THEN /\ events' = [events EXCEPT ![fd] = @ \ evs]
       /\ ctx' = [ctx EXCEPT ![fd] = [e \in Event |-> IF e \in evs THEN None ELSE @[e]]]
       /\ scheduled' = [w \in Waiters |->
                          IF w \in Woken(fd, evs) THEN scheduled[w] + 1 ELSE scheduled[w]]
       /\ m_pendingEventCount' = m_pendingEventCount - Cardinality(evs)
       /\ UNCHANGED abort
  ELSE /\ abort' = "triggerEvent"
       /\ UNCHANGED <<events, ctx, scheduled, m_pendingEventCount>>

(* addEvent by a waiter that then gives up the cpu.  When epoll_ctl fails   *)
(* it returns -1 and has changed nothing.                                   *)
AddEvent(w, fd, e) ==
  LET mask == events[fd] \cup {e} IN
  /\ w \notin parked
  /\ e \notin events[fd]
  /\ CtlSucceeds(OpOf(events[fd], mask), fd)
  /\ EpollCtl(fd, mask)
  /\ m_pendingEventCount' = m_pendingEventCount + 1
  /\ events' = [events EXCEPT ![fd] = mask]
  /\ ctx' = [ctx EXCEPT ![fd][e] = w]
  /\ parked' = parked \cup {w}
  /\ UNCHANGED <<orphaned, harvested, scheduled, abort>>

(* addEvent on an event that is already there fails its assertion.  No      *)
(* caller registers twice for one open file; this one has a new file behind *)
(* a number that was closed while its event was registered.                 *)
AddEventTwice(w, fd, e) ==
  /\ w \notin parked /\ open[fd] /\ interest[fd] = {}
  /\ e \in events[fd]
  /\ abort' = "addEvent"
  /\ UNCHANGED <<orphaned, registry, kernel, harvested, parked, scheduled>>

(* delEvent: the event goes and its waiter is forgotten *)
DelEvent(fd, e) ==
  LET mask == events[fd] \ {e} IN
  /\ fd \in MayCancel /\ e \in events[fd]
  /\ CtlSucceeds(OpOf(events[fd], mask), fd)
  /\ EpollCtl(fd, mask)
  /\ m_pendingEventCount' = m_pendingEventCount - 1
  /\ events' = [events EXCEPT ![fd] = mask]
  /\ ctx' = [ctx EXCEPT ![fd][e] = None]
  /\ parked' = parked \ {ctx[fd][e]}
  /\ UNCHANGED <<orphaned, harvested, scheduled, abort>>

(* cancelEvent: the event goes and its waiter is scheduled *)
CancelEvent(fd, e) ==
  /\ fd \in MayCancel /\ e \in events[fd]
  /\ CtlSucceeds(OpOf(events[fd], events[fd] \ {e}), fd)
  /\ EpollCtl(fd, events[fd] \ {e})
  /\ Trigger(fd, {e})
  /\ UNCHANGED <<orphaned, harvested, parked>>

(* cancelAll: DEL, then every event that is there is triggered *)
CancelAll(fd) ==
  /\ fd \in MayCancel /\ events[fd] # {}
  /\ CtlSucceeds("DEL", fd)
  /\ EpollCtl(fd, {})
  /\ Trigger(fd, events[fd])
  /\ UNCHANGED <<orphaned, harvested, parked>>

-----------------------------------------------------------------------------
(* IOManager::idle on thread t.                                            *)

(* epoll_wait returns every descriptor on the ready list that still has     *)
(* something to report.                                                     *)
Reported(fd) == ready[fd] \cap (interest[fd] \cup {"ERR"})
EpollWait(t) ==
  /\ harvested[t] = {}
  /\ \E fd \in Fds : edge[fd]
  /\ harvested' = [harvested EXCEPT ![t] =
       {r \in Report : edge[r.fd] /\ r.evs = Reported(r.fd) /\ r.evs # {}}]
  /\ edge' = [fd \in Fds |-> FALSE]
  /\ UNCHANGED <<orphaned, registry, open, interest, ready, parked, scheduled,
                 abort>>

(* One report under the mutex of its FdContext.  An error stands for every  *)
(* event that is waited for.                                                *)
RealEvents(r) ==
  (r.evs \cap Event) \cup (IF "ERR" \in r.evs THEN events[r.fd] ELSE {})
(* Nothing that is reported is waited for any more, or epoll_ctl fails.     *)
Passes(r) ==
  \/ events[r.fd] \cap RealEvents(r) = {}
  \/ ~CtlSucceeds(OpOf(events[r.fd], events[r.fd] \ RealEvents(r)), r.fd)
PassOver(t) ==
  \E r \in harvested[t] :
    /\ Passes(r)
    /\ harvested' = [harvested EXCEPT ![t] = @ \ {r}]
    /\ UNCHANGED <<orphaned, registry, kernel, parked, scheduled, abort>>
(* Mutant: the events that are left are not registered again. *)
HandleDropsRest(t) ==
  \E r \in harvested[t] :
    /\ ~Passes(r)
    /\ EpollCtl(r.fd, {})
    /\ Trigger(r.fd, RealEvents(r))
    /\ harvested' = [harvested EXCEPT ![t] = @ \ {r}]
    /\ UNCHANGED <<orphaned, parked>>
(* What is left is registered again, what was reported is triggered. *)
Handle(t) ==
  \E r \in harvested[t] :
    /\ ~Passes(r)
    /\ EpollCtl(r.fd, events[r.fd] \ RealEvents(r))
    /\ Trigger(r.fd, RealEvents(r))
    /\ harvested' = [harvested EXCEPT ![t] = @ \ {r}]
    /\ UNCHANGED <<orphaned, parked>>

-----------------------------------------------------------------------------
(* The scheduler runs a waiter that was put in its queue. *)
Resume(w) ==
  /\ scheduled[w] > 0
  /\ scheduled' = [scheduled EXCEPT ![w] = @ - 1]
  /\ parked' = parked \ {w}
  /\ UNCHANGED <<orphaned, registry, kernel, harvested, abort>>

(* The file becomes ready, or is read or written until it is not. *)
BecomeReady(fd, c) ==
  /\ open[fd] /\ c \notin ready[fd]
  /\ ready' = [ready EXCEPT ![fd] = @ \cup {c}]
  /\ edge' = [edge EXCEPT ![fd] =
       @ \/ (interest[fd] # {} /\ c \in interest[fd] \cup {"ERR"})]
  /\ UNCHANGED <<orphaned, registry, open, interest, harvested, parked,
                 scheduled, abort>>
Exhaust(fd, e) ==
  /\ open[fd] /\ e \in ready[fd]
  /\ ready' = [ready EXCEPT ![fd] = @ \ {e}]
  /\ UNCHANGED <<orphaned, registry, open, interest, edge, harvested, parked,
                 scheduled, abort>>

(* close(2), which is not hooked: the kernel forgets the descriptor, its    *)
(* FdContext does not.  Then the number is given to a new file.             *)
Close(fd) ==
  /\ fd \in MayClose /\ open[fd]
  /\ open' = [open EXCEPT ![fd] = FALSE]
  /\ interest' = [interest EXCEPT ![fd] = {}]
  /\ ready' = [ready EXCEPT ![fd] = {}]
  /\ edge' = [edge EXCEPT ![fd] = FALSE]
  /\ orphaned' = IF events[fd] # {} THEN orphaned \cup {fd} ELSE orphaned
  /\ UNCHANGED <<registry, harvested, parked, scheduled, abort>>
Reuse(fd) ==
  /\ ~open[fd]
  /\ open' = [open EXCEPT ![fd] = TRUE]
  /\ UNCHANGED <<orphaned, registry, interest, ready, edge, harvested, parked,
                 scheduled, abort>>

-----------------------------------------------------------------------------
Idle(t) == EpollWait(t) \/ PassOver(t) \/ Handle(t)
User ==
  \/ \E w \in Waiters, fd \in Fds, e \in Event :
       AddEvent(w, fd, e) \/ AddEventTwice(w, fd, e)
  \/ \E fd \in Fds, e \in Event : DelEvent(fd, e) \/ CancelEvent(fd, e)
  \/ \E fd \in Fds : CancelAll(fd)
Kernel ==
  \/ \E fd \in Fds, c \in Condition : BecomeReady(fd, c)
  \/ \E fd \in Fds, e \in Event : Exhaust(fd, e)
  \/ \E fd \in Fds : Close(fd) \/ Reuse(fd)
Alive == abort = "none"
Next ==
  /\ Alive
  /\ User \/ Kernel \/ (\E t \in Idlers : Idle(t)) \/ (\E w \in Waiters : Resume(w))

Spec == Init /\ [][Next]_vars

(* The threads of the scheduler keep running; nothing is assumed of users   *)
(* and of the files.                                                        *)
FairSpec ==
  /\ Spec
  /\ \A t \in Idlers : WF_vars(Alive /\ Idle(t))
  /\ \A w \in Waiters : WF_vars(Alive /\ Resume(w))

-----------------------------------------------------------------------------
(* Every variable keeps its type. *)
TypeOK ==
  /\ events \in [Fds -> SUBSET Event]
  /\ ctx \in [Fds -> [Event -> Waiters \cup {None}]]
  /\ m_pendingEventCount \in Nat
  /\ open \in [Fds -> BOOLEAN]
  /\ interest \in [Fds -> SUBSET Event]
  /\ ready \in [Fds -> SUBSET Condition]
  /\ edge \in [Fds -> BOOLEAN]
  /\ harvested \in [Idlers -> SUBSET Report]
  /\ parked \subseteq Waiters /\ orphaned \subseteq Fds
  /\ scheduled \in [Waiters -> Nat]
  /\ abort \in {"none", "triggerEvent", "addEvent"}

(* What the IOManager, the FdContexts and epoll know of the same events     *)
(* agrees between any two steps: m_pendingEventCount, which decides whether *)
(* an IOManager may stop, is the number of events that are waited for; an   *)
(* EventContext is occupied exactly while its event is registered, as       *)
(* addEvent asserts; epoll watches what the FdContext says, unless the      *)
(* descriptor was closed while somebody waited for it; and what is waited   *)
(* for and ready is on epoll's ready list or reported to an event loop that *)
(* has yet to handle it, so that no edge is lost.                           *)
Waits == {p \in Fds \X Event : p[2] \in events[p[1]]}
PendingExact == m_pendingEventCount = Cardinality(Waits)
ContextMatches ==
  \A fd \in Fds, e \in Event : ctx[fd][e] # None <=> e \in events[fd]
InterestMatches ==
  Alive => \A fd \in Fds \ orphaned : interest[fd] = events[fd]
EdgesKept ==
  Alive => \A fd \in Fds \ orphaned : events[fd] # {} =>
    \A c \in ready[fd] \cap (events[fd] \cup {"ERR"}) :
      edge[fd] \/ \E t \in Idlers : \E r \in harvested[t] : r.fd = fd /\ c \in r.evs
RegistryAgrees ==
  TypeOK /\ PendingExact /\ ContextMatches /\ InterestMatches /\ EdgesKept

(* A parked waiter is in exactly one place: one EventContext or one entry   *)
(* of the scheduler's queue; a running one is in none.  So no wake-up is    *)
(* lost and none is delivered twice, whoever triggers the event.            *)
Registrations(w) == {p \in Fds \X Event : ctx[p[1]][p[2]] = w}
WaiterInOnePlace ==
  \A w \in Waiters :
    scheduled[w] + Cardinality(Registrations(w)) = (IF w \in parked THEN 1 ELSE 0)

(* A waiter whose descriptor is ready is scheduled, unless the readiness    *)
(* goes away first or the descriptor is closed under it.                    *)
ReadyIsServed ==
  \A w \in Waiters, fd \in Fds, e \in Event :
    (ctx[fd][e] = w /\ e \in ready[fd]) ~>
      (ctx[fd][e] # w \/ e \notin ready[fd] \/ fd \in orphaned \/ ~Alive)

=============================================================================
