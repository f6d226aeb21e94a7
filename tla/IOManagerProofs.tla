--------------------------- MODULE IOManagerProofs --------------------------
(***************************************************************************)
(* Proofs about IOManager, for every finite set of descriptors and every   *)
(* set of threads and of waiters: what the IOManager, the FdContexts and   *)
(* epoll know of the registered events agrees, and a wake-up is neither    *)
(* lost nor delivered twice.                                               *)
(***************************************************************************)
EXTENDS IOManager, FiniteSetTheorems, TLAPS

-----------------------------------------------------------------------------
(* There are two events, and finitely many places to wait in. *)
LEMMA EventFinite == IsFiniteSet(Event)
<1>1. IsFiniteSet({"READ"} \cup {"WRITE"})
  BY FS_Singleton, FS_AddElement
<1>2. Event = {"READ"} \cup {"WRITE"}
  BY DEF Event
<1> QED BY <1>1, <1>2

LEMMA PlacesFinite == IsFiniteSet(Fds \X Event)
BY EventFinite, IOAssumption, FS_Product

(* The size of a set of places with one more and with some less. *)
LEMMA CountPlaces ==
  ASSUME NEW S \in SUBSET (Fds \X Event)
  PROVE  /\ IsFiniteSet(S)
         /\ Cardinality(S) \in Nat
         /\ Cardinality(S) = 0 <=> S = {}
         /\ \A p : p \notin S => Cardinality(S \cup {p}) = Cardinality(S) + 1
         /\ \A p : p \in S => Cardinality(S \ {p}) = Cardinality(S) - 1
<1>1. IsFiniteSet(S)
  BY PlacesFinite, FS_Subset
<1> QED BY <1>1, FS_CardinalityType, FS_EmptySet, FS_AddElement, FS_RemoveElement

(* A set of places that counts as one has one member only. *)
LEMMA OnlyPlace ==
  ASSUME NEW S \in SUBSET (Fds \X Event), Cardinality(S) <= 1,
         NEW p \in S
  PROVE  S = {p} /\ Cardinality(S) = 1
<1>1. IsFiniteSet(S) /\ Cardinality(S) \in Nat /\ Cardinality(S) # 0
  BY CountPlaces
<1>2. Cardinality(S) = 1
  BY <1>1
<1>3. \E x : S = {x}
  BY <1>1, <1>2, FS_Singleton
<1> QED BY <1>2, <1>3

(* Taking the events evs of one descriptor from a set of places takes       *)
(* Cardinality(evs) places.                                                 *)
LEMMA RemovePlaces ==
  ASSUME NEW S \in SUBSET (Fds \X Event), NEW fd \in Fds, NEW evs \in SUBSET Event,
         \A e \in evs : <<fd, e>> \in S
  PROVE  /\ Cardinality(evs) \in Nat
         /\ Cardinality(S \ {<<fd, e>> : e \in evs}) = Cardinality(S) - Cardinality(evs)
         /\ Cardinality(S) - Cardinality(evs) \in Nat
<1> DEFINE T == {fd} \X evs
<1>1. IsFiniteSet({fd}) /\ Cardinality({fd}) = 1
  BY FS_Singleton
<1>2. IsFiniteSet(evs)
  BY EventFinite, FS_Subset
<1>3. Cardinality(evs) \in Nat
  BY <1>2, FS_CardinalityType
<1>4. Cardinality(T) = 1 * Cardinality(evs)
  BY <1>1, <1>2, FS_Product
<1>5. T \subseteq S /\ T = {<<fd, e>> : e \in evs}
  OBVIOUS
<1> HIDE DEF T
<1>6. S \cap T = T
  BY <1>5
<1>7. IsFiniteSet(S) /\ Cardinality(S) \in Nat
  BY CountPlaces
<1>8. IsFiniteSet(S \ T) /\ Cardinality(S \ T) = Cardinality(S) - Cardinality(T)
  BY <1>6, <1>7, FS_Difference
<1>9. Cardinality(S \ T) \in Nat
  BY <1>8, FS_CardinalityType
<1> QED BY <1>3, <1>4, <1>5, <1>8, <1>9

-----------------------------------------------------------------------------
(* What the registry says and where the waiters are support each other: the *)
(* waiter that triggerEvent schedules exists because the context matches    *)
(* the event, and two events never name one waiter.                         *)
Registry == TypeOK /\ PendingExact /\ ContextMatches /\ InterestMatches
IOInv    == Registry /\ WaiterInOnePlace

(* What the step lemmas use of it. *)
LEMMA InvFacts ==
  ASSUME IOInv
  PROVE  /\ TypeOK
         /\ Waits \in SUBSET (Fds \X Event)
         /\ \A w : Registrations(w) \in SUBSET (Fds \X Event)
         /\ \A fd \in Fds : \A e \in events[fd] :
              e \in Event /\ ctx[fd][e] \in Waiters /\ ctx[fd][e] # None
         /\ \A w \in Waiters : w # None
BY IOAssumption DEF IOInv, Registry, TypeOK, ContextMatches, Waits, Registrations

LEMMA IOInvInit == Init => IOInv
<1> SUFFICES ASSUME Init PROVE IOInv
  OBVIOUS
<1>1. TypeOK
  BY IOAssumption DEF Init, TypeOK
<1>2. Waits = {} /\ \A w \in Waiters : Registrations(w) = {}
  BY IOAssumption DEF Init, Waits, Registrations
<1>3. ContextMatches /\ InterestMatches
  BY DEF Init, ContextMatches, InterestMatches
<1>4. PendingExact
  BY <1>2, FS_EmptySet DEF Init, PendingExact
<1>5. WaiterInOnePlace
  <2>1. \A w \in Waiters : Cardinality(Registrations(w)) = 0 /\ scheduled[w] = 0
    BY <1>2, FS_EmptySet DEF Init
  <2>2. parked = {}
    BY DEF Init
  <2> QED BY <2>1, <2>2 DEF WaiterInOnePlace
<1> QED BY <1>1, <1>3, <1>4, <1>5 DEF IOInv, Registry

-----------------------------------------------------------------------------
(* Steps that leave the registry, the waiters and the scheduler alone keep  *)
(* the counts.                                                              *)
LEMMA StillCounts ==
  ASSUME IOInv, UNCHANGED <<registry, parked, scheduled>>
  PROVE  PendingExact' /\ ContextMatches' /\ WaiterInOnePlace'
BY DEF IOInv, Registry, registry, PendingExact, Waits, ContextMatches,
       WaiterInOnePlace, Registrations

(* triggerEvent keeps the counts: it takes the events from the FdContext,   *)
(* and each waiter goes from its one EventContext to the queue.             *)
LEMMA TriggerCounts ==
  ASSUME IOInv, NEW fd \in Fds, NEW evs \in SUBSET Event, Trigger(fd, evs),
         UNCHANGED parked
  PROVE  /\ events' \in [Fds -> SUBSET Event]
         /\ ctx' \in [Fds -> [Event -> Waiters \cup {None}]]
         /\ m_pendingEventCount' \in Nat
         /\ scheduled' \in [Waiters -> Nat]
         /\ PendingExact' /\ ContextMatches' /\ WaiterInOnePlace'
         /\ abort' \in {abort, "triggerEvent"}
         /\ abort' = "none" => events' = [events EXCEPT ![fd] = @ \ evs]
<1>0. /\ TypeOK
      /\ Waits \in SUBSET (Fds \X Event)
      /\ \A w : Registrations(w) \in SUBSET (Fds \X Event)
      /\ \A g \in Fds : \A e \in events[g] :
           e \in Event /\ ctx[g][e] \in Waiters /\ ctx[g][e] # None
      /\ \A w \in Waiters : w # None
  BY InvFacts
<1> USE <1>0 DEF TypeOK
<1>1. CASE ~(evs \subseteq events[fd])
  <2>1. UNCHANGED <<registry, scheduled>> /\ abort' = "triggerEvent"
    BY <1>1 DEF Trigger, registry
  <2> QED BY <2>1, StillCounts DEF registry
<1>2. CASE evs \subseteq events[fd]
  <2>1. /\ events' = [events EXCEPT ![fd] = @ \ evs]
        /\ ctx' = [ctx EXCEPT ![fd] = [e \in Event |-> IF e \in evs THEN None ELSE @[e]]]
        /\ scheduled' = [w \in Waiters |->
             IF w \in Woken(fd, evs) THEN scheduled[w] + 1 ELSE scheduled[w]]
        /\ m_pendingEventCount' = m_pendingEventCount - Cardinality(evs)
        /\ abort' = abort
    BY <1>2 DEF Trigger
  <2>2. /\ events' \in [Fds -> SUBSET Event]
        /\ ctx' \in [Fds -> [Event -> Waiters \cup {None}]]
        /\ scheduled' \in [Waiters -> Nat]
    BY <2>1
  <2>3. \A g \in Fds, e \in Event :
          ctx'[g][e] = IF g = fd /\ e \in evs THEN None ELSE ctx[g][e]
    BY <2>1
  <2>4. \A g \in Fds, e \in Event :
          e \in events'[g] <=> e \in events[g] /\ ~(g = fd /\ e \in evs)
    BY <2>1
  <2>5. ContextMatches'
    BY <2>3, <2>4 DEF IOInv, Registry, ContextMatches
  <2>6. PendingExact' /\ m_pendingEventCount' \in Nat
    <3>1. Waits' = Waits \ {<<fd, e>> : e \in evs}
      BY <2>4 DEF Waits
    <3>2. \A e \in evs : <<fd, e>> \in Waits
      BY <1>2 DEF Waits
    <3>3. m_pendingEventCount = Cardinality(Waits)
      BY DEF IOInv, Registry, PendingExact
    <3> QED BY <2>1, <3>1, <3>2, <3>3, RemovePlaces DEF PendingExact
  <2>7. ASSUME NEW w \in Waiters
        PROVE  (scheduled[w] + Cardinality(Registrations(w)))' =
                 scheduled[w] + Cardinality(Registrations(w))
    <3>1. CASE w \notin Woken(fd, evs)
      <4>1. Registrations(w)' = Registrations(w)
        BY <2>3, <3>1, SMTT(30) DEF Registrations, Woken
      <4> QED BY <2>1, <3>1, <4>1
    <3>2. CASE w \in Woken(fd, evs)
      <4>1. PICK e \in evs : ctx[fd][e] = w
        BY <3>2 DEF Woken
      <4>2. <<fd, e>> \in Registrations(w)
        BY <4>1 DEF Registrations
      <4>3. Cardinality(Registrations(w)) <= 1
        <5>1. scheduled[w] \in Nat /\ Cardinality(Registrations(w)) \in Nat
          BY CountPlaces
        <5>2. scheduled[w] + Cardinality(Registrations(w)) <= 1
          BY DEF IOInv, WaiterInOnePlace
        <5> QED BY <5>1, <5>2
      <4>4. Registrations(w) = {<<fd, e>>} /\ Cardinality(Registrations(w)) = 1
        BY <4>2, <4>3, OnlyPlace
      <4>5. Registrations(w)' = {}
        BY <2>3, <4>4 DEF Registrations
      <4>6. Cardinality(Registrations(w))' = 0
        BY <4>5, FS_EmptySet
      <4>7. scheduled'[w] = scheduled[w] + 1
        BY <2>1, <3>2
      <4> QED BY <4>4, <4>6, <4>7
    <3> QED BY <3>1, <3>2
  <2>8. WaiterInOnePlace'
    BY <2>7 DEF IOInv, WaiterInOnePlace
  <2> QED BY <2>1, <2>2, <2>5, <2>6, <2>8
<1> QED BY <1>1, <1>2

(* addEvent keeps the counts: the new event is one more, and the waiter,    *)
(* which was running, is in its EventContext and nowhere else.              *)
LEMMA AddEventCounts ==
  ASSUME IOInv, NEW w \in Waiters, NEW fd \in Fds, NEW e \in Event,
         AddEvent(w, fd, e)
  PROVE  PendingExact' /\ ContextMatches' /\ WaiterInOnePlace'
<1>0. /\ TypeOK
      /\ Waits \in SUBSET (Fds \X Event)
      /\ \A u : Registrations(u) \in SUBSET (Fds \X Event)
      /\ \A u \in Waiters : u # None
  BY InvFacts
<1>1. /\ w \notin parked /\ e \notin events[fd]
      /\ m_pendingEventCount' = m_pendingEventCount + 1
      /\ events' = [events EXCEPT ![fd] = events[fd] \cup {e}]
      /\ ctx' = [ctx EXCEPT ![fd][e] = w]
      /\ parked' = parked \cup {w} /\ scheduled' = scheduled
  BY DEF AddEvent
<1>2. ctx[fd][e] = None
  BY <1>1 DEF IOInv, Registry, ContextMatches
<1>3. \A g \in Fds, x \in Event :
        ctx'[g][x] = IF g = fd /\ x = e THEN w ELSE ctx[g][x]
  BY <1>0, <1>1 DEF TypeOK
<1>4. \A g \in Fds, x \in Event :
        x \in events'[g] <=> x \in events[g] \/ (g = fd /\ x = e)
  BY <1>0, <1>1 DEF TypeOK
<1>5. ContextMatches'
  BY <1>0, <1>3, <1>4 DEF IOInv, Registry, ContextMatches
<1>6. PendingExact'
  <2>1. Waits' = Waits \cup {<<fd, e>>}
    BY <1>4 DEF Waits
  <2>2. <<fd, e>> \notin Waits
    BY <1>1 DEF Waits
  <2>3. m_pendingEventCount = Cardinality(Waits)
    BY DEF IOInv, Registry, PendingExact
  <2> QED BY <1>0, <1>1, <2>1, <2>2, <2>3, CountPlaces DEF PendingExact
<1>7. ASSUME NEW u \in Waiters
      PROVE  (scheduled[u] + Cardinality(Registrations(u)) = IF u \in parked THEN 1 ELSE 0)'
  <2>1. CASE u # w
    <3>1. Registrations(u)' = Registrations(u)
      BY <1>0, <1>2, <1>3, <2>1 DEF Registrations
    <3> QED BY <1>1, <2>1, <3>1 DEF IOInv, WaiterInOnePlace
  <2>2. CASE u = w
    <3>1. /\ scheduled[w] \in Nat /\ Cardinality(Registrations(w)) \in Nat
          /\ scheduled[w] + Cardinality(Registrations(w)) = 0
      BY <1>0, <1>1, CountPlaces DEF IOInv, WaiterInOnePlace, TypeOK
    <3>2. scheduled[w] = 0 /\ Cardinality(Registrations(w)) = 0
      BY <3>1
    <3>3. Registrations(w) = {}
      BY <1>0, <3>2, CountPlaces
    <3>4. Registrations(w)' = {<<fd, e>>}
      BY <1>3, <3>3 DEF Registrations
    <3>5. Cardinality(Registrations(w))' = 1
      BY <3>4, FS_Singleton
    <3> QED BY <1>1, <2>2, <3>2, <3>5
  <2> QED BY <2>1, <2>2
<1>8. WaiterInOnePlace'
  BY <1>7 DEF WaiterInOnePlace
<1> QED BY <1>5, <1>6, <1>8

(* delEvent keeps the counts: one event less, and its waiter is forgotten   *)
(* everywhere.                                                              *)
LEMMA DelEventCounts ==
  ASSUME IOInv, NEW fd \in Fds, NEW e \in Event, DelEvent(fd, e)
  PROVE  PendingExact' /\ ContextMatches' /\ WaiterInOnePlace' /\ m_pendingEventCount' \in Nat
<1>0. /\ TypeOK
      /\ Waits \in SUBSET (Fds \X Event)
      /\ \A u : Registrations(u) \in SUBSET (Fds \X Event)
      /\ \A u \in Waiters : u # None
  BY InvFacts
<1> DEFINE w == ctx[fd][e]
<1>1. /\ e \in events[fd]
      /\ m_pendingEventCount' = m_pendingEventCount - 1
      /\ events' = [events EXCEPT ![fd] = events[fd] \ {e}]
      /\ ctx' = [ctx EXCEPT ![fd][e] = None]
      /\ parked' = parked \ {w} /\ scheduled' = scheduled
  BY DEF DelEvent
<1>2. w \in Waiters /\ w # None
  BY <1>1, InvFacts
<1>3. \A g \in Fds, x \in Event :
        ctx'[g][x] = IF g = fd /\ x = e THEN None ELSE ctx[g][x]
  BY <1>0, <1>1 DEF TypeOK
<1>4. \A g \in Fds, x \in Event :
        x \in events'[g] <=> x \in events[g] /\ ~(g = fd /\ x = e)
  BY <1>0, <1>1 DEF TypeOK
<1>5. ContextMatches'
  BY <1>3, <1>4 DEF IOInv, Registry, ContextMatches
<1>6. PendingExact' /\ m_pendingEventCount' \in Nat
  <2>1. Waits' = Waits \ {<<fd, e>>}
    BY <1>4 DEF Waits
  <2>2. <<fd, e>> \in Waits
    BY <1>1 DEF Waits
  <2>3. m_pendingEventCount = Cardinality(Waits)
    BY DEF IOInv, Registry, PendingExact
  <2>4. Cardinality(Waits') = m_pendingEventCount - 1
    BY <1>0, <2>1, <2>2, <2>3, CountPlaces
  <2>5. Waits' \in SUBSET (Fds \X Event)
    BY <1>0, <2>1
  <2>6. Cardinality(Waits') \in Nat
    BY <2>5, CountPlaces
  <2> QED BY <1>1, <2>4, <2>6 DEF PendingExact
<1>7. <<fd, e>> \in Registrations(w)
  BY DEF Registrations
<1>8. ASSUME NEW u \in Waiters
      PROVE  (scheduled[u] + Cardinality(Registrations(u)) = IF u \in parked THEN 1 ELSE 0)'
  <2>1. CASE u # w
    <3>1. Registrations(u)' = Registrations(u)
      BY <1>0, <1>3, <2>1 DEF Registrations
    <3> QED BY <1>1, <2>1, <3>1 DEF IOInv, WaiterInOnePlace
  <2>2. CASE u = w
    <3>1. /\ scheduled[u] \in Nat /\ Cardinality(Registrations(u)) \in Nat
          /\ scheduled[u] + Cardinality(Registrations(u)) \in {0, 1}
      BY <1>0, CountPlaces DEF IOInv, WaiterInOnePlace, TypeOK
    <3>2. Cardinality(Registrations(u)) <= 1
      BY <3>1
    <3>3. Registrations(u) = {<<fd, e>>} /\ Cardinality(Registrations(u)) = 1
      BY <1>0, <1>7, <2>2, <3>2, OnlyPlace
    <3>4. scheduled[u] = 0
      BY <3>1, <3>3
    <3>5. Registrations(u)' = {}
      BY <1>0, <1>3, <3>3 DEF Registrations
    <3>6. Cardinality(Registrations(u))' = 0
      BY <3>5, FS_EmptySet
    <3>7. scheduled'[u] = 0 /\ u \notin parked'
      BY <1>1, <2>2, <3>4
    <3> QED BY <3>6, <3>7
  <2> QED BY <2>1, <2>2
<1>9. WaiterInOnePlace'
  BY <1>8 DEF WaiterInOnePlace
<1> QED BY <1>5, <1>6, <1>9

(* Running a waiter takes it from the only place it was in. *)
LEMMA ResumeCounts ==
  ASSUME IOInv, NEW w \in Waiters, Resume(w)
  PROVE  /\ PendingExact' /\ ContextMatches' /\ WaiterInOnePlace'
         /\ scheduled' \in [Waiters -> Nat]
<1>0. TypeOK /\ \A u : Registrations(u) \in SUBSET (Fds \X Event)
  BY InvFacts
<1>1. /\ scheduled[w] > 0 /\ scheduled' = [scheduled EXCEPT ![w] = @ - 1]
      /\ parked' = parked \ {w} /\ events' = events /\ ctx' = ctx
      /\ m_pendingEventCount' = m_pendingEventCount
  BY DEF Resume, registry
<1>2. PendingExact' /\ ContextMatches' /\ \A u : Registrations(u)' = Registrations(u)
  BY <1>1 DEF IOInv, Registry, PendingExact, Waits, ContextMatches, Registrations
<1>3. /\ scheduled[w] \in Nat /\ Cardinality(Registrations(w)) \in Nat
      /\ scheduled[w] + Cardinality(Registrations(w)) \in {0, 1}
  BY <1>0, CountPlaces DEF IOInv, WaiterInOnePlace, TypeOK
<1>4. scheduled[w] = 1 /\ Cardinality(Registrations(w)) = 0
  BY <1>1, <1>3
<1>5. scheduled' \in [Waiters -> Nat] /\ scheduled'[w] = 0
      /\ \A u \in Waiters \ {w} : scheduled'[u] = scheduled[u]
  BY <1>0, <1>1, <1>4 DEF TypeOK
<1>6. WaiterInOnePlace'
  BY <1>1, <1>2, <1>4, <1>5 DEF IOInv, WaiterInOnePlace
<1> QED BY <1>2, <1>5, <1>6

-----------------------------------------------------------------------------
(* epoll_ctl keeps the types of what the kernel holds. *)
LEMMA EpollCtlType ==
  ASSUME TypeOK, NEW fd \in Fds, NEW mask \in SUBSET Event, EpollCtl(fd, mask)
  PROVE  /\ interest' \in [Fds -> SUBSET Event]
         /\ interest' = [interest EXCEPT ![fd] = mask]
         /\ edge' \in [Fds -> BOOLEAN]
         /\ open' = open /\ ready' = ready
BY DEF TypeOK, EpollCtl

(* A step that registers mask in epoll and leaves exactly mask in the       *)
(* FdContext keeps the two equal.                                           *)
LEMMA StillMatches ==
  ASSUME TypeOK, InterestMatches, Alive, NEW fd \in Fds, NEW mask,
         interest' = [interest EXCEPT ![fd] = mask],
         abort' = "none" => events' = [events EXCEPT ![fd] = mask],
         orphaned' = orphaned
  PROVE  InterestMatches'
BY DEF TypeOK, InterestMatches, Alive

(* Every step keeps the invariant. *)
LEMMA IOInvStep ==
  ASSUME IOInv, [Next]_vars
  PROVE  IOInv'
<1>0. TypeOK /\ InterestMatches
  BY DEF IOInv, Registry
<1>1. ASSUME Alive, NEW w \in Waiters, NEW fd \in Fds, NEW e \in Event, AddEvent(w, fd, e)
      PROVE  IOInv'
  <2> DEFINE mask == events[fd] \cup {e}
  <2>1. mask \in SUBSET Event
    BY <1>0 DEF TypeOK
  <2>2. EpollCtl(fd, mask) /\ events' = [events EXCEPT ![fd] = mask] /\ orphaned' = orphaned
    BY <1>1 DEF AddEvent
  <2> HIDE DEF mask
  <2>3. /\ interest' \in [Fds -> SUBSET Event]
        /\ interest' = [interest EXCEPT ![fd] = mask]
        /\ edge' \in [Fds -> BOOLEAN]
        /\ open' = open /\ ready' = ready
    BY <1>0, <2>1, <2>2, EpollCtlType
  <2>4. InterestMatches'
    BY <1>0, <1>1, <2>2, <2>3, StillMatches
  <2>5. events' \in [Fds -> SUBSET Event]
    BY <1>0, <2>1, <2>2 DEF TypeOK
  <2>6. ctx' \in [Fds -> [Event -> Waiters \cup {None}]]
    BY <1>0, <1>1 DEF AddEvent, TypeOK
  <2>7. /\ m_pendingEventCount' \in Nat /\ parked' \subseteq Waiters
        /\ UNCHANGED <<orphaned, harvested, scheduled, abort>>
    BY <1>0, <1>1 DEF AddEvent, TypeOK
  <2>8. TypeOK'
    BY <1>0, <2>3, <2>5, <2>6, <2>7 DEF TypeOK
  <2> QED BY <1>1, <2>4, <2>8, AddEventCounts DEF IOInv, Registry
<1>2. ASSUME Alive, NEW w \in Waiters, NEW fd \in Fds, NEW e \in Event, AddEventTwice(w, fd, e)
      PROVE  IOInv'
  <2>1. UNCHANGED <<orphaned, registry, kernel, harvested, parked, scheduled>> /\ abort' = "addEvent"
    BY <1>2 DEF AddEventTwice
  <2>2. TypeOK' /\ InterestMatches'
    BY <1>0, <2>1 DEF registry, kernel, TypeOK, InterestMatches, Alive
  <2> QED BY <2>1, <2>2, StillCounts DEF IOInv, Registry
<1>3. ASSUME Alive, NEW fd \in Fds, NEW e \in Event, DelEvent(fd, e)
      PROVE  IOInv'
  <2> DEFINE mask == events[fd] \ {e}
  <2>1. mask \in SUBSET Event
    BY <1>0 DEF TypeOK
  <2>2. EpollCtl(fd, mask) /\ events' = [events EXCEPT ![fd] = mask] /\ orphaned' = orphaned
    BY <1>3 DEF DelEvent
  <2> HIDE DEF mask
  <2>3. /\ interest' \in [Fds -> SUBSET Event]
        /\ interest' = [interest EXCEPT ![fd] = mask]
        /\ edge' \in [Fds -> BOOLEAN]
        /\ open' = open /\ ready' = ready
    BY <1>0, <2>1, <2>2, EpollCtlType
  <2>4. InterestMatches'
    BY <1>0, <1>3, <2>2, <2>3, StillMatches
  <2>5. events' \in [Fds -> SUBSET Event]
    BY <1>0, <2>1, <2>2 DEF TypeOK
  <2>6. ctx' \in [Fds -> [Event -> Waiters \cup {None}]]
    BY <1>0, <1>3 DEF DelEvent, TypeOK
  <2>7. parked' \subseteq Waiters /\ UNCHANGED <<orphaned, harvested, scheduled, abort>>
    BY <1>0, <1>3 DEF DelEvent, TypeOK
  <2>8. m_pendingEventCount' \in Nat
    BY <1>3, DelEventCounts
  <2>9. TypeOK'
    BY <1>0, <2>3, <2>5, <2>6, <2>7, <2>8 DEF TypeOK
  <2> QED BY <1>3, <2>4, <2>9, DelEventCounts DEF IOInv, Registry
<1>4. ASSUME Alive, NEW fd \in Fds, NEW evs \in SUBSET Event,
             EpollCtl(fd, events[fd] \ evs), Trigger(fd, evs),
             UNCHANGED <<orphaned, parked>>, harvested' \in [Idlers -> SUBSET Report]
      PROVE  IOInv'
  <2> DEFINE mask == events[fd] \ evs
  <2>1. mask \in SUBSET Event
    BY <1>0 DEF TypeOK
  <2>2. /\ events' \in [Fds -> SUBSET Event]
        /\ ctx' \in [Fds -> [Event -> Waiters \cup {None}]]
        /\ m_pendingEventCount' \in Nat
        /\ scheduled' \in [Waiters -> Nat]
        /\ PendingExact' /\ ContextMatches' /\ WaiterInOnePlace'
        /\ abort' \in {abort, "triggerEvent"}
        /\ abort' = "none" => events' = [events EXCEPT ![fd] = mask]
    BY <1>4, TriggerCounts
  <2>3. EpollCtl(fd, mask)
    BY <1>4
  <2> HIDE DEF mask
  <2>4. /\ interest' \in [Fds -> SUBSET Event]
        /\ interest' = [interest EXCEPT ![fd] = mask]
        /\ edge' \in [Fds -> BOOLEAN]
        /\ open' = open /\ ready' = ready
    BY <1>0, <2>1, <2>3, EpollCtlType
  <2>5. InterestMatches'
    BY <1>0, <1>4, <2>2, <2>4, StillMatches
  <2>6. TypeOK'
    BY <1>0, <1>4, <2>2, <2>4 DEF TypeOK
  <2> QED BY <2>2, <2>5, <2>6 DEF IOInv, Registry
<1>5. ASSUME Alive, NEW fd \in Fds, NEW e \in Event, CancelEvent(fd, e)
      PROVE  IOInv'
  BY <1>0, <1>4, <1>5 DEF CancelEvent, TypeOK
<1>6. ASSUME Alive, NEW fd \in Fds, CancelAll(fd)
      PROVE  IOInv'
  <2>1. events[fd] \in SUBSET Event /\ events[fd] \ events[fd] = {}
    BY <1>0 DEF TypeOK
  <2>2. EpollCtl(fd, events[fd] \ events[fd])
    BY <1>6, <2>1 DEF CancelAll
  <2> QED BY <1>0, <1>4, <1>6, <2>1, <2>2 DEF CancelAll, TypeOK
<1>7. ASSUME Alive, NEW t \in Idlers, EpollWait(t)
      PROVE  IOInv'
  <2>1. UNCHANGED <<orphaned, registry, open, interest, ready, parked, scheduled, abort>>
        /\ edge' = [fd \in Fds |-> FALSE]
    BY <1>7 DEF EpollWait
  <2>2. harvested' \in [Idlers -> SUBSET Report]
    BY <1>0, <1>7 DEF EpollWait, TypeOK
  <2>3. TypeOK' /\ InterestMatches'
    BY <1>0, <2>1, <2>2 DEF registry, TypeOK, InterestMatches, Alive
  <2> QED BY <2>1, <2>3, StillCounts DEF IOInv, Registry
<1>8. ASSUME Alive, NEW t \in Idlers, PassOver(t)
      PROVE  IOInv'
  <2>1. UNCHANGED <<orphaned, registry, kernel, parked, scheduled, abort>>
        /\ harvested' \in [Idlers -> SUBSET Report]
    BY <1>0, <1>8 DEF PassOver, TypeOK
  <2>2. TypeOK' /\ InterestMatches'
    BY <1>0, <2>1 DEF registry, kernel, TypeOK, InterestMatches, Alive
  <2> QED BY <2>1, <2>2, StillCounts DEF IOInv, Registry
<1>9. ASSUME Alive, NEW t \in Idlers, Handle(t)
      PROVE  IOInv'
  <2>1. PICK r \in harvested[t] :
          /\ EpollCtl(r.fd, events[r.fd] \ RealEvents(r))
          /\ Trigger(r.fd, RealEvents(r))
          /\ harvested' = [harvested EXCEPT ![t] = @ \ {r}]
          /\ UNCHANGED <<orphaned, parked>>
    BY <1>9 DEF Handle
  <2>2. r \in Report /\ harvested' \in [Idlers -> SUBSET Report]
    BY <1>0, <2>1 DEF TypeOK
  <2>3. r.fd \in Fds
    BY <2>2 DEF Report
  <2>4. RealEvents(r) \in SUBSET Event
    BY <1>0, <2>3 DEF RealEvents, TypeOK
  <2> QED BY <1>4, <1>9, <2>1, <2>2, <2>3, <2>4
<1>10. ASSUME Alive, NEW w \in Waiters, Resume(w)
       PROVE  IOInv'
  <2>1. UNCHANGED <<orphaned, registry, kernel, harvested, abort>> /\ parked' \subseteq Waiters
    BY <1>0, <1>10 DEF Resume, TypeOK
  <2>2. scheduled' \in [Waiters -> Nat]
    BY <1>10, ResumeCounts
  <2>3. TypeOK' /\ InterestMatches'
    BY <1>0, <2>1, <2>2 DEF registry, kernel, TypeOK, InterestMatches, Alive
  <2> QED BY <1>10, <2>3, ResumeCounts DEF IOInv, Registry
<1>11. ASSUME Alive, Kernel
       PROVE  IOInv'
  <2>1. ASSUME NEW fd \in Fds, NEW c \in Condition, BecomeReady(fd, c)
        PROVE  IOInv'
    <3>1. UNCHANGED <<orphaned, registry, open, interest, harvested, parked, scheduled, abort>>
      BY <2>1 DEF BecomeReady
    <3>2. ready' \in [Fds -> SUBSET Condition]
      BY <1>0, <2>1 DEF BecomeReady, TypeOK
    <3>3. edge' \in [Fds -> BOOLEAN]
      BY <1>0, <2>1 DEF BecomeReady, TypeOK
    <3>4. TypeOK' /\ InterestMatches'
      BY <1>0, <3>1, <3>2, <3>3 DEF registry, TypeOK, InterestMatches, Alive
    <3> QED BY <3>1, <3>4, StillCounts DEF IOInv, Registry
  <2>2. ASSUME NEW fd \in Fds, NEW e \in Event, Exhaust(fd, e)
        PROVE  IOInv'
    <3>1. UNCHANGED <<orphaned, registry, open, interest, edge, harvested, parked, scheduled, abort>>
      BY <2>2 DEF Exhaust
    <3>2. ready' \in [Fds -> SUBSET Condition]
      BY <1>0, <2>2 DEF Exhaust, TypeOK
    <3>3. TypeOK' /\ InterestMatches'
      BY <1>0, <3>1, <3>2 DEF registry, TypeOK, InterestMatches, Alive
    <3> QED BY <3>1, <3>3, StillCounts DEF IOInv, Registry
  <2>3. ASSUME NEW fd \in Fds, Close(fd)
        PROVE  IOInv'
    <3>1. UNCHANGED <<registry, harvested, parked, scheduled, abort>>
      BY <2>3 DEF Close
    <3>2. /\ open' \in [Fds -> BOOLEAN] /\ edge' \in [Fds -> BOOLEAN]
          /\ interest' \in [Fds -> SUBSET Event] /\ ready' \in [Fds -> SUBSET Condition]
          /\ orphaned' \subseteq Fds
      BY <1>0, <2>3 DEF Close, TypeOK
    <3>3. TypeOK'
      BY <1>0, <3>1, <3>2 DEF registry, TypeOK
    <3>4. InterestMatches'
      BY <1>0, <1>11, <2>3 DEF Close, registry, TypeOK, InterestMatches, Alive
    <3> QED BY <3>1, <3>3, <3>4, StillCounts DEF IOInv, Registry
  <2>4. ASSUME NEW fd \in Fds, Reuse(fd)
        PROVE  IOInv'
    <3>1. UNCHANGED <<orphaned, registry, interest, ready, edge, harvested, parked, scheduled, abort>>
          /\ open' \in [Fds -> BOOLEAN]
      BY <1>0, <2>4 DEF Reuse, TypeOK
    <3>2. TypeOK' /\ InterestMatches'
      BY <1>0, <3>1 DEF registry, TypeOK, InterestMatches, Alive
    <3> QED BY <3>1, <3>2, StillCounts DEF IOInv, Registry
  <2> QED BY <1>11, <2>1, <2>2, <2>3, <2>4 DEF Kernel
<1>12. CASE UNCHANGED vars
  <2>1. TypeOK' /\ InterestMatches'
    BY <1>0, <1>12 DEF vars, registry, kernel, TypeOK, InterestMatches, Alive
  <2>2. UNCHANGED <<registry, parked, scheduled>>
    BY <1>12 DEF vars
  <2> QED BY <2>1, <2>2, StillCounts DEF IOInv, Registry
<1> QED
  BY <1>1, <1>2, <1>3, <1>5, <1>6, <1>7, <1>8, <1>9, <1>10, <1>11, <1>12
  DEF Next, User, Idle

-----------------------------------------------------------------------------
(* A descriptor that is waited for is open, unless it was closed under its  *)
(* waiter; with it, a report of what is waited for is never passed over.    *)
OpenMatches == \A fd \in Fds \ orphaned : events[fd] # {} => open[fd]
EdgeInv     == OpenMatches /\ EdgesKept

(* The condition c of a descriptor is taken care of. *)
Kept(fd, c) ==
  edge[fd] \/ \E t \in Idlers : \E r \in harvested[t] : r.fd = fd /\ c \in r.evs

(* epoll_ctl looks at the readiness of its descriptor again, so a step that *)
(* registers what the FdContext then says, and takes no report of another   *)
(* descriptor away, loses no edge.                                          *)
LEMMA CtlKeeps ==
  ASSUME IOInv, EdgeInv, Alive, NEW fd \in Fds, NEW mask \in SUBSET Event,
         EpollCtl(fd, mask), orphaned' = orphaned,
         abort' = "none" => events' = [events EXCEPT ![fd] = mask],
         \A t \in Idlers : \A r \in harvested[t] : r.fd # fd => r \in harvested'[t]
  PROVE  EdgesKept'
<1> SUFFICES ASSUME Alive', NEW g \in Fds \ orphaned, events'[g] # {},
                    NEW c \in ready'[g] \cap (events'[g] \cup {"ERR"})
             PROVE  Kept(g, c)'
  BY DEF EdgesKept, Kept
<1>1. TypeOK /\ OpenMatches /\ EdgesKept
  BY DEF IOInv, Registry, EdgeInv
<1>2. events' = [events EXCEPT ![fd] = mask] /\ ready' = ready
  BY DEF Alive, EpollCtl
<1>3. CASE g = fd
  <2>1. mask # {} /\ c \in ready[fd] \cap (mask \cup {"ERR"})
    BY <1>1, <1>2, <1>3 DEF TypeOK
  <2>2. edge'[fd] = (mask # {} /\ (edge[fd] \/ ready[fd] \cap (mask \cup {"ERR"}) # {}))
    BY <1>1 DEF EpollCtl, TypeOK
  <2> QED BY <1>3, <2>1, <2>2 DEF Kept
<1>4. CASE g # fd
  <2>1. events[g] # {} /\ c \in ready[g] \cap (events[g] \cup {"ERR"}) /\ edge'[g] = edge[g]
    BY <1>1, <1>2, <1>4 DEF TypeOK, EpollCtl
  <2>2. Kept(g, c)
    BY <1>1, <2>1 DEF EdgesKept, Kept
  <2> QED BY <1>4, <2>1, <2>2 DEF Kept
<1> QED BY <1>3, <1>4

(* A step that leaves the edges, the reports and what is waited for alone,  *)
(* and makes nothing ready, loses no edge.                                  *)
LEMMA StillKept ==
  ASSUME EdgesKept, Alive, UNCHANGED <<events, edge, harvested>>,
         orphaned \subseteq orphaned', \A fd \in Fds : ready'[fd] \subseteq ready[fd]
  PROVE  EdgesKept'
BY DEF EdgesKept, Alive

LEMMA EdgeInvInit == Init => EdgeInv
BY DEF Init, EdgeInv, OpenMatches, EdgesKept

(* Every step keeps the edges. *)
LEMMA EdgeInvStep ==
  ASSUME IOInv, EdgeInv, [Next]_vars
  PROVE  EdgeInv'
<1>0. TypeOK /\ InterestMatches /\ OpenMatches /\ EdgesKept
  BY DEF IOInv, Registry, EdgeInv
<1>1. ASSUME Alive, NEW w \in Waiters, NEW fd \in Fds, NEW e \in Event, AddEvent(w, fd, e)
      PROVE  EdgeInv'
  <2>1. /\ EpollCtl(fd, events[fd] \cup {e}) /\ UNCHANGED <<orphaned, harvested>>
        /\ events' = [events EXCEPT ![fd] = events[fd] \cup {e}]
    BY <1>1 DEF AddEvent
  <2>2. events[fd] \cup {e} \in SUBSET Event
    BY <1>0 DEF TypeOK
  <2>3. EdgesKept'
    BY <1>1, <2>1, <2>2, CtlKeeps
  <2>4. open[fd] /\ open' = open
    BY <1>1 DEF AddEvent, CtlSucceeds, OpOf, Registered, EpollCtl
  <2>5. OpenMatches'
    BY <1>0, <2>1, <2>4 DEF OpenMatches, TypeOK
  <2> QED BY <2>3, <2>5 DEF EdgeInv
<1>2. ASSUME Alive, NEW w \in Waiters, NEW fd \in Fds, NEW e \in Event, AddEventTwice(w, fd, e)
      PROVE  EdgeInv'
  BY <1>0, <1>2 DEF AddEventTwice, registry, kernel, EdgeInv, OpenMatches, EdgesKept, Alive
<1>3. ASSUME Alive, NEW fd \in Fds, NEW mask \in SUBSET Event,
             EpollCtl(fd, mask), orphaned' = orphaned, mask \subseteq events[fd],
             abort' = "none" => events' = [events EXCEPT ![fd] = mask],
             events' \in {events, [events EXCEPT ![fd] = mask]},
             \A t \in Idlers : \A r \in harvested[t] : r.fd # fd => r \in harvested'[t]
      PROVE  EdgeInv'
  <2>1. EdgesKept'
    BY <1>3, CtlKeeps
  <2>2. open' = open
    BY <1>3 DEF EpollCtl
  <2>3. \A g \in Fds : events'[g] \subseteq events[g]
    BY <1>0, <1>3 DEF TypeOK
  <2>4. OpenMatches'
    BY <1>0, <1>3, <2>2, <2>3 DEF OpenMatches
  <2> QED BY <2>1, <2>4 DEF EdgeInv
<1>4. ASSUME Alive, NEW fd \in Fds, NEW e \in Event, DelEvent(fd, e)
      PROVE  EdgeInv'
  <2>1. events[fd] \ {e} \in SUBSET Event /\ events[fd] \ {e} \subseteq events[fd]
    BY <1>0 DEF TypeOK
  <2> QED BY <1>3, <1>4, <2>1 DEF DelEvent
<1>5. ASSUME Alive, NEW fd \in Fds, NEW evs \in SUBSET Event,
             EpollCtl(fd, events[fd] \ evs), Trigger(fd, evs), orphaned' = orphaned,
             \A t \in Idlers : \A r \in harvested[t] : r.fd # fd => r \in harvested'[t]
      PROVE  EdgeInv'
  <2>1. events[fd] \ evs \in SUBSET Event /\ events[fd] \ evs \subseteq events[fd]
    BY <1>0 DEF TypeOK
  <2>2. events' \in {events, [events EXCEPT ![fd] = events[fd] \ evs]}
    BY <1>5 DEF Trigger
  <2>3. abort' = "none" => events' = [events EXCEPT ![fd] = events[fd] \ evs]
    BY <1>5 DEF Trigger
  <2> QED BY <1>3, <1>5, <2>1, <2>2, <2>3
<1>6. ASSUME Alive, NEW fd \in Fds, NEW e \in Event, CancelEvent(fd, e)
      PROVE  EdgeInv'
  BY <1>5, <1>6 DEF CancelEvent
<1>7. ASSUME Alive, NEW fd \in Fds, CancelAll(fd)
      PROVE  EdgeInv'
  <2>1. events[fd] \in SUBSET Event /\ events[fd] \ events[fd] = {}
    BY <1>0 DEF TypeOK
  <2> QED BY <1>5, <1>7, <2>1 DEF CancelAll
<1>8. ASSUME Alive, NEW t \in Idlers, EpollWait(t)
      PROVE  EdgeInv'
  <2>1. /\ UNCHANGED <<orphaned, events, open, interest, ready, abort>> /\ harvested[t] = {}
        /\ harvested' = [harvested EXCEPT ![t] =
             {r \in Report : edge[r.fd] /\ r.evs = Reported(r.fd) /\ r.evs # {}}]
    BY <1>8 DEF EpollWait, registry
  <2>2. ASSUME NEW fd \in Fds \ orphaned, events[fd] # {},
               NEW c \in ready[fd] \cap (events[fd] \cup {"ERR"})
        PROVE  \E u \in Idlers : \E r \in harvested'[u] : r.fd = fd /\ c \in r.evs
    <3>1. CASE edge[fd]
      <4> DEFINE r == [fd |-> fd, evs |-> Reported(fd)]
      <4>1. interest[fd] = events[fd]
        BY <1>0, <1>8, <2>2 DEF InterestMatches
      <4>2. c \in Reported(fd)
        BY <2>2, <4>1 DEF Reported
      <4>3. Reported(fd) \in SUBSET Condition
        BY <1>0 DEF Reported, TypeOK
      <4>4. r \in Report /\ r.fd = fd /\ r.evs = Reported(fd)
        BY <4>3 DEF Report
      <4> HIDE DEF r
      <4>5. r \in harvested'[t]
        BY <1>0, <2>1, <3>1, <4>2, <4>4 DEF TypeOK
      <4> QED BY <4>2, <4>4, <4>5
    <3>2. CASE ~edge[fd]
      <4>1. PICK u \in Idlers : \E r \in harvested[u] : r.fd = fd /\ c \in r.evs
        BY <1>0, <1>8, <2>2, <3>2 DEF EdgesKept
      <4>2. u # t
        BY <2>1, <4>1
      <4>3. harvested'[u] = harvested[u]
        BY <1>0, <2>1, <4>2 DEF TypeOK
      <4> QED BY <4>1, <4>3
    <3> QED BY <3>1, <3>2
  <2>3. EdgesKept'
    BY <2>1, <2>2 DEF EdgesKept
  <2>4. OpenMatches'
    BY <1>0, <2>1 DEF OpenMatches
  <2> QED BY <2>3, <2>4 DEF EdgeInv
<1>9. ASSUME Alive, NEW t \in Idlers, PassOver(t)
      PROVE  EdgeInv'
  <2>1. PICK r \in harvested[t] :
          /\ Passes(r)
          /\ harvested' = [harvested EXCEPT ![t] = @ \ {r}]
          /\ UNCHANGED <<orphaned, registry, kernel, parked, scheduled, abort>>
    BY <1>9 DEF PassOver
  <2>2. UNCHANGED <<orphaned, events, open, edge, ready, abort>>
    BY <2>1 DEF registry, kernel
  <2>3. r.fd \in Fds
    BY <1>0 DEF TypeOK, Report
  <2>4. ASSUME r.fd \notin orphaned, events[r.fd] # {},
               NEW c \in ready[r.fd] \cap (events[r.fd] \cup {"ERR"}), c \in r.evs
        PROVE  FALSE
    <3>1. open[r.fd] /\ interest[r.fd] = events[r.fd]
      BY <1>0, <1>9, <2>3, <2>4 DEF OpenMatches, InterestMatches
    <3>2. CtlSucceeds(OpOf(events[r.fd], events[r.fd] \ RealEvents(r)), r.fd)
      BY <2>4, <3>1 DEF CtlSucceeds, OpOf, Registered
    <3>3. events[r.fd] \cap RealEvents(r) # {}
      <4>1. events[r.fd] \subseteq Event
        BY <1>0, <2>3 DEF TypeOK
      <4> QED BY <2>4, <4>1 DEF RealEvents
    <3> QED BY <2>1, <3>2, <3>3 DEF Passes
  <2>5. ASSUME NEW fd \in Fds \ orphaned, events[fd] # {},
               NEW c \in ready[fd] \cap (events[fd] \cup {"ERR"})
        PROVE  Kept(fd, c)'
    <3>1. CASE edge[fd]
      BY <2>2, <3>1 DEF Kept
    <3>2. CASE ~edge[fd]
      <4>1. PICK u \in Idlers : \E q \in harvested[u] : q.fd = fd /\ c \in q.evs
        BY <1>0, <1>9, <2>5, <3>2 DEF EdgesKept
      <4>2. PICK q \in harvested[u] : q.fd = fd /\ c \in q.evs
        BY <4>1
      <4>3. q # r
        BY <2>4, <2>5, <4>2
      <4>4. q \in harvested'[u]
        BY <1>0, <2>1, <4>3 DEF TypeOK
      <4> QED BY <4>2, <4>4 DEF Kept
    <3> QED BY <3>1, <3>2
  <2>6. EdgesKept'
    BY <2>2, <2>5 DEF EdgesKept, Kept
  <2>7. OpenMatches'
    BY <1>0, <2>2 DEF OpenMatches
  <2> QED BY <2>6, <2>7 DEF EdgeInv
<1>10. ASSUME Alive, NEW t \in Idlers, Handle(t)
       PROVE  EdgeInv'
  <2>1. PICK r \in harvested[t] :
          /\ EpollCtl(r.fd, events[r.fd] \ RealEvents(r))
          /\ Trigger(r.fd, RealEvents(r))
          /\ harvested' = [harvested EXCEPT ![t] = @ \ {r}]
          /\ UNCHANGED <<orphaned, parked>>
    BY <1>10 DEF Handle
  <2>2. r.fd \in Fds
    BY <1>0 DEF TypeOK, Report
  <2>3. RealEvents(r) \in SUBSET Event
    BY <1>0, <2>2 DEF RealEvents, TypeOK
  <2>4. \A u \in Idlers : \A q \in harvested[u] : q.fd # r.fd => q \in harvested'[u]
    BY <1>0, <2>1 DEF TypeOK
  <2> QED BY <1>5, <1>10, <2>1, <2>2, <2>3, <2>4
<1>11. ASSUME Alive, NEW w \in Waiters, Resume(w)
       PROVE  EdgeInv'
  <2>1. UNCHANGED <<orphaned, events, open, ready, edge, harvested, abort>>
    BY <1>11 DEF Resume, registry, kernel
  <2>2. OpenMatches'
    BY <1>0, <2>1 DEF OpenMatches
  <2> QED BY <1>0, <1>11, <2>1, <2>2, StillKept DEF EdgeInv
<1>12. ASSUME Alive, NEW fd \in Fds, NEW d \in Condition, BecomeReady(fd, d)
       PROVE  EdgeInv'
  <2>1. /\ UNCHANGED <<orphaned, events, open, interest, harvested, abort>>
        /\ ready' = [ready EXCEPT ![fd] = @ \cup {d}]
        /\ edge' = [edge EXCEPT ![fd] =
             @ \/ (interest[fd] # {} /\ d \in interest[fd] \cup {"ERR"})]
    BY <1>12 DEF BecomeReady, registry
  <2>2. ASSUME NEW g \in Fds \ orphaned, events[g] # {},
               NEW c \in ready'[g] \cap (events[g] \cup {"ERR"})
        PROVE  Kept(g, c)'
    <3>1. edge[g] => edge'[g]
      BY <1>0, <2>1 DEF TypeOK
    <3>2. CASE c \in ready[g]
      <4>1. Kept(g, c)
        BY <1>0, <1>12, <2>2, <3>2 DEF EdgesKept, Kept
      <4> QED BY <2>1, <3>1, <4>1 DEF Kept
    <3>3. CASE c \notin ready[g]
      <4>1. g = fd /\ c = d
        BY <1>0, <2>1, <2>2, <3>3 DEF TypeOK
      <4>2. interest[fd] = events[fd]
        BY <1>0, <1>12, <2>2, <4>1 DEF InterestMatches
      <4>3. edge'[fd]
        BY <1>0, <2>1, <2>2, <4>1, <4>2 DEF TypeOK
      <4> QED BY <4>1, <4>3 DEF Kept
    <3> QED BY <3>2, <3>3
  <2>3. EdgesKept'
    BY <2>1, <2>2 DEF EdgesKept, Kept
  <2>4. OpenMatches'
    BY <1>0, <2>1 DEF OpenMatches
  <2> QED BY <2>3, <2>4 DEF EdgeInv
<1>13. ASSUME Alive, NEW fd \in Fds, NEW e \in Event, Exhaust(fd, e)
       PROVE  EdgeInv'
  <2>1. UNCHANGED <<orphaned, events, open, edge, harvested, abort>>
    BY <1>13 DEF Exhaust, registry
  <2>2. \A g \in Fds : ready'[g] \subseteq ready[g]
    BY <1>0, <1>13 DEF Exhaust, TypeOK
  <2>3. OpenMatches'
    BY <1>0, <2>1 DEF OpenMatches
  <2> QED BY <1>0, <1>13, <2>1, <2>2, <2>3, StillKept DEF EdgeInv
<1>14. ASSUME Alive, NEW fd \in Fds, Close(fd)
       PROVE  EdgeInv'
  <2>1. UNCHANGED <<events, harvested, abort>> /\ orphaned \subseteq orphaned'
    BY <1>14 DEF Close, registry
  <2>2. events[fd] # {} => fd \in orphaned'
    BY <1>14 DEF Close
  <2>3. \A g \in Fds : g # fd =>
           ready'[g] = ready[g] /\ edge'[g] = edge[g] /\ open'[g] = open[g]
    BY <1>0, <1>14 DEF Close, TypeOK
  <2>4. EdgesKept'
    BY <1>0, <1>14, <2>1, <2>2, <2>3 DEF EdgesKept
  <2>5. OpenMatches'
    BY <1>0, <2>1, <2>2, <2>3 DEF OpenMatches
  <2> QED BY <2>4, <2>5 DEF EdgeInv
<1>15. ASSUME Alive, NEW fd \in Fds, Reuse(fd)
       PROVE  EdgeInv'
  <2>1. UNCHANGED <<orphaned, events, ready, edge, harvested, abort>>
    BY <1>15 DEF Reuse, registry
  <2>2. \A g \in Fds : open[g] => open'[g]
    BY <1>0, <1>15 DEF Reuse, TypeOK
  <2>3. OpenMatches'
    BY <1>0, <2>1, <2>2 DEF OpenMatches
  <2> QED BY <1>0, <1>15, <2>1, <2>3, StillKept DEF EdgeInv
<1>16. CASE UNCHANGED vars
  BY <1>0, <1>16 DEF vars, registry, kernel, EdgeInv, OpenMatches, EdgesKept, Alive
<1> QED
  BY <1>1, <1>2, <1>4, <1>6, <1>7, <1>8, <1>9, <1>10, <1>11, <1>12, <1>13, <1>14, <1>15, <1>16
  DEF Next, User, Kernel, Idle

-----------------------------------------------------------------------------
LEMMA IOInvAlways == Spec => []IOInv
<1>1. IOInv /\ [Next]_vars => IOInv'
  BY IOInvStep
<1> QED BY IOInvInit, <1>1, PTL DEF Spec

LEMMA EdgeInvAlways == Spec => []EdgeInv
<1>1. IOInv /\ EdgeInv /\ [Next]_vars => EdgeInv'
  BY EdgeInvStep
<1> QED BY EdgeInvInit, IOInvAlways, <1>1, PTL DEF Spec

(* Whoever adds, deletes, cancels and triggers events, and whatever files   *)
(* do meanwhile, m_pendingEventCount is the number of registered events, an *)
(* EventContext is occupied exactly while its event is registered, and      *)
(* epoll watches what the FdContext says unless the descriptor was closed   *)
(* under a waiter.  Nor is an edge of edge-triggered epoll lost: what is    *)
(* ready and waited for is on the ready list or in a report that an event   *)
(* loop has still to handle.                                                *)
THEOREM RegistryAlwaysAgrees == Spec => []RegistryAgrees
<1>1. IOInv /\ EdgeInv => RegistryAgrees
  BY DEF IOInv, EdgeInv, Registry, RegistryAgrees
<1> QED BY IOInvAlways, EdgeInvAlways, <1>1, PTL

(* A waiter that gave up the cpu after addEvent is in one EventContext or   *)
(* in one entry of the queue, never in both, in two or in none: no wake-up  *)
(* of triggerEvent is lost and none is delivered twice.                     *)
THEOREM WakeUpsAreExact == Spec => []WaiterInOnePlace
<1>1. IOInv => WaiterInOnePlace
  BY DEF IOInv
<1> QED BY IOInvAlways, <1>1, PTL

=============================================================================
