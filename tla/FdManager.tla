----------------------------- MODULE FdManager -----------------------------
(***************************************************************************)
(* m_datas, FdManager's table of FdCtx: the hooked socket() and accept()   *)
(* make the FdCtx of a new descriptor, which makes the socket non-blocking *)
(* and records its timeouts; do_io and connect look it up.  close() is not *)
(* hooked.  A socket is named by its descriptor and how many sockets had   *)
(* that number before, an FdCtx by the socket it was initialised for.      *)
(***************************************************************************)
EXTENDS Descriptors

CONSTANTS
  FirstRoom,  \* the 64 of the constructor
  MaxOpens    \* bound: sockets that get one number

ASSUME FdManagerAssumption ==
  FirstRoom \in Nat /\ FirstRoom >= 2 /\ MaxOpens \in Nat

VARIABLES
  room,     \* m_datas.size()
  m_datas,  \* the socket the FdCtx in slot fd is for, 0 for an empty slot
  open,     \* "no": the number is free; "yes"; "del": its owner has called del
  socket,   \* kernel: which of the sockets with this number
  getPc,    \* a thread: "out", or in get(fd, true) before the read or write lock
  getFd,    \* the fd argument
  dirty     \* history: numbers closed without del since the last del

managerVars == <<room, m_datas, open, socket, getPc, getFd, dirty>>

-----------------------------------------------------------------------------
ManagerInit ==
  /\ room = FirstRoom
  /\ m_datas = [fd \in Fds |-> 0]
  /\ open = [fd \in Fds |-> "no"]
  /\ socket = [fd \in Fds |-> 0]
  /\ getPc = [t \in Threads |-> "out"]
  /\ getFd = [t \in Threads |-> None]
  /\ dirty = {}

(* socket_f or accept_f returns a number that is free *)
NewSocket(t, fd) ==
  /\ getPc[t] = "out" /\ open[fd] = "no" /\ socket[fd] < MaxOpens
  /\ open' = [open EXCEPT ![fd] = "yes"]
  /\ socket' = [socket EXCEPT ![fd] = @ + 1]
  /\ getPc' = [getPc EXCEPT ![t] = "get"]
  /\ getFd' = [getFd EXCEPT ![t] = fd]
  /\ UNCHANGED <<room, m_datas, dirty>>

(* What get(fd, false) finds *)
Found(fd) == IF fd < room THEN m_datas[fd] ELSE 0
Leave(t) == getPc' = [getPc EXCEPT ![t] = "out"] /\ getFd' = [getFd EXCEPT ![t] = None]

(* get(fd, true), the read lock: an FdCtx that is there is returned *)
Get(t) ==
  /\ getPc[t] = "get"
  /\ \/ Found(getFd[t]) # 0 /\ Leave(t)
     \/ Found(getFd[t]) = 0 /\ getPc' = [getPc EXCEPT ![t] = "create"] /\ UNCHANGED getFd
  /\ UNCHANGED <<room, m_datas, open, socket, dirty>>

(* Mutant: the size is not looked at again under the write lock. *)
NewSizeUnchecked(fd) == (fd * 3) \div 2
(* m_datas.resize(fd * 1.5), only when fd is still past the end *)
NewSize(fd) == IF fd >= room THEN (fd * 3) \div 2 ELSE room
(* FdCtx's constructor and init: the FdCtx is for the socket that now has   *)
(* the number, and makes this one non-blocking                              *)
FdCtxFor(fd) == socket[fd]
(* get(fd, true), the write lock *)
Create(t) ==
  /\ getPc[t] = "create"
  /\ room' = NewSize(getFd[t])
  /\ m_datas' = [fd \in Fds |->
       IF fd = getFd[t] THEN FdCtxFor(fd) ELSE IF fd < NewSize(getFd[t]) THEN m_datas[fd] ELSE 0]
  /\ Leave(t)
  /\ UNCHANGED <<open, socket, dirty>>

Opened(fd) == open[fd] = "yes" /\ \A t \in Threads : getFd[t] # fd

(* FdManager::del, which nothing in this code calls *)
Del(fd) ==
  /\ Opened(fd)
  /\ m_datas' = IF fd < room THEN [m_datas EXCEPT ![fd] = 0] ELSE m_datas
  /\ open' = [open EXCEPT ![fd] = "del"]
  /\ dirty' = dirty \ {fd}
  /\ UNCHANGED <<room, socket, getPc, getFd>>
(* close() by the owner of the socket, after del or without it *)
Close(fd) ==
  /\ \/ open[fd] = "del" /\ UNCHANGED dirty
     \/ Opened(fd) /\ dirty' = dirty \cup {fd}
  /\ open' = [open EXCEPT ![fd] = "no"]
  /\ UNCHANGED <<room, m_datas, socket, getPc, getFd>>

ManagerNext ==
  \/ \E t \in Threads : Get(t) \/ Create(t) \/ \E fd \in Fds : NewSocket(t, fd)
  \/ \E fd \in Fds : Del(fd) \/ Close(fd)
ManagerSpec == ManagerInit /\ [][ManagerNext]_managerVars

-----------------------------------------------------------------------------
(* Every variable keeps its type; a descriptor is being set up by one       *)
(* thread at most; and nothing is stored past the end of the table.         *)
ManagerTypeOK ==
  /\ room \in Nat
  /\ m_datas \in [Fds -> Nat] /\ socket \in [Fds -> Nat]
  /\ open \in [Fds -> {"no", "yes", "del"}]
  /\ getPc \in [Threads -> {"out", "get", "create"}]
  /\ getFd \in [Threads -> Fds \cup {None}]
  /\ dirty \subseteq Fds
  /\ \A t \in Threads : getPc[t] # "out" => getFd[t] \in Fds /\ open[getFd[t]] = "yes"
  /\ \A t, u \in Threads : getFd[t] = getFd[u] /\ getFd[t] # None => t = u
  /\ \A fd \in Fds : fd >= room => m_datas[fd] = 0

(* When threads grow the table at the same time no FdCtx is lost: one that  *)
(* is found for a descriptor is found until del() is called for it.         *)
NeverLost ==
  [][\A fd \in Fds :
       Found(fd) # 0 /\ Found(fd)' # Found(fd) =>
         Found(fd)' = 0 /\ open'[fd] = "del"]_managerVars

(* For a number that was never closed without del(), do_io finds the FdCtx  *)
(* that was initialised for this very socket.                               *)
ContextIsOwn ==
  \A fd \in Fds \ dirty : Opened(fd) => Found(fd) = socket[fd]

=============================================================================
