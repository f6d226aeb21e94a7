------------------------------ MODULE FdTable ------------------------------
(***************************************************************************)
(* m_fdContexts, the table of FdContext pointers of an IOManager that      *)
(* addEvent grows on demand.  addEvent looks under the read lock, lets it  *)
(* go, and grows under the write lock; delEvent, cancelEvent and cancelAll *)
(* look under the read lock and give up when the table is too short.       *)
(* epoll keeps a pointer to the context an event was registered in.        *)
(***************************************************************************)
EXTENDS Descriptors

CONSTANTS
  FirstSlots,  \* the 32 of the constructor
  MaxMade      \* bound: contexts that are made for one index

ASSUME FdTableAssumption == FirstSlots \in Nat /\ FirstSlots >= 2

VARIABLES
  slots,       \* m_fdContexts.size()
  made,        \* how many FdContexts were made for index fd so far
  addPc,       \* a thread in addEvent: "out", "grow" or "have"
  addFd,       \* the fd argument of its call
  addGot,      \* which of the contexts made for addFd it has a pointer to
  registered,  \* the contexts <<fd, number>> in which an event is registered
  late         \* history: descriptors a resize was made for when the table
               \* already had a slot for them, the look at it being outdated

tableVars == <<slots, made, addPc, addFd, addGot, registered, late>>

-----------------------------------------------------------------------------
(* Mutant: the table is grown to the descriptor itself. *)
GrownToFd(fd) == fd
(* contextResize(fd * 1.5), truncated *)
Grown(fd) == (fd * 3) \div 2

TableInit ==
  /\ slots = FirstSlots
  /\ made = [fd \in Fds |-> IF fd < FirstSlots THEN 1 ELSE 0]
  /\ addPc = [t \in Threads |-> "out"]
  /\ addFd = [t \in Threads |-> None]
  /\ addGot = [t \in Threads |-> 0]
  /\ registered = {} /\ late = {}

(* addEvent, the read lock *)
Lookup(t, fd) ==
  /\ addPc[t] = "out"
  /\ addFd' = [addFd EXCEPT ![t] = fd]
  /\ \/ /\ slots > fd
        /\ addGot' = [addGot EXCEPT ![t] = made[fd]]
        /\ addPc' = [addPc EXCEPT ![t] = "have"]
     \/ /\ slots <= fd
        /\ addPc' = [addPc EXCEPT ![t] = "grow"]
        /\ UNCHANGED addGot
  /\ UNCHANGED <<slots, made, registered, late>>

(* addEvent, the write lock: resize without another look at the size; the    *)
(* new slots get new contexts, slots that are cut off lose theirs.          *)
ContextResize(t) ==
  /\ addPc[t] = "grow"
  /\ slots' = Grown(addFd[t])
  /\ made' = [fd \in Fds |->
                IF slots <= fd /\ fd < Grown(addFd[t]) THEN made[fd] + 1 ELSE made[fd]]
  /\ \A fd \in Fds : made'[fd] <= MaxMade
  /\ addGot' = [addGot EXCEPT ![t] = made'[addFd[t]]]
  /\ addPc' = [addPc EXCEPT ![t] = "have"]
  /\ late' = IF slots > addFd[t] THEN late \cup {addFd[t]} ELSE late
  /\ UNCHANGED <<addFd, registered>>

(* addEvent, the mutex of the context *)
Register(t) ==
  /\ addPc[t] = "have"
  /\ registered' = registered \cup {<<addFd[t], addGot[t]>>}
  /\ addPc' = [addPc EXCEPT ![t] = "out"]
  /\ addFd' = [addFd EXCEPT ![t] = None]
  /\ addGot' = [addGot EXCEPT ![t] = 0]
  /\ UNCHANGED <<slots, made, late>>

(* delEvent, cancelEvent or cancelAll that finds the context of fd *)
CancelContext(fd) ==
  /\ slots > fd
  /\ <<fd, made[fd]>> \in registered
  /\ registered' = registered \ {<<fd, made[fd]>>}
  /\ UNCHANGED <<slots, made, addPc, addFd, addGot, late>>

(* IOManager::idle has the context from epoll, in the table or not. *)
ReportContext(c) ==
  /\ c \in registered
  /\ registered' = registered \ {c}
  /\ UNCHANGED <<slots, made, addPc, addFd, addGot, late>>

TableNext ==
  \/ \E t \in Threads : ContextResize(t) \/ Register(t)
  \/ \E t \in Threads, fd \in Fds : Lookup(t, fd)
  \/ \E fd \in Fds : CancelContext(fd)
  \/ \E c \in registered : ReportContext(c)

TableSpec == TableInit /\ [][TableNext]_tableVars

-----------------------------------------------------------------------------
(* Every variable keeps its type, and a thread that has a context has one   *)
(* that was made for its descriptor (m_fdContexts[fd] was in range).        *)
TableTypeOK ==
  /\ slots \in Nat
  /\ made \in [Fds -> Nat]
  /\ addPc \in [Threads -> {"out", "grow", "have"}]
  /\ addFd \in [Threads -> Fds \cup {None}]
  /\ addGot \in [Threads -> Nat]
  /\ registered \subseteq Fds \X Nat
  /\ late \subseteq Fds
  /\ \A t \in Threads : addPc[t] # "out" => addFd[t] \in Fds
  /\ \A t \in Threads : addPc[t] = "have" => addGot[t] # 0
  /\ \A fd \in Fds : slots > fd => made[fd] # 0

(* No resize came too late for its thread's look at the size and set the    *)
(* table to a size without fd: what iomanager.cpp:96 does when two threads  *)
(* have found the table too short and the smaller descriptor comes second.  *)
NotCutOff(fd) == \A g \in late : fd < Grown(g)

(* An event that is registered can be deleted and cancelled: its context is *)
(* the one the table has for the descriptor, whatever concurrent addEvents  *)
(* do between their two locks, save for descriptors that such a late and    *)
(* smaller resize cut off.                                                  *)
RegisteredReachable ==
  \A c \in registered : NotCutOff(c[1]) => slots > c[1] /\ made[c[1]] = c[2]

=============================================================================
