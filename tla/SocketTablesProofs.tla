------------------------- MODULE SocketTablesProofs ------------------------
(***************************************************************************)
(* Proofs about the two tables that are indexed by descriptor, for every   *)
(* set of descriptors and of threads: FdManager's table of FdCtx, the      *)
(* IOManager's table of FdContext, and their composition, which implements *)
(* both, so that what is proved about each table alone holds when sockets  *)
(* are made, waited for and closed.                                        *)
(***************************************************************************)
EXTENDS SocketTables, TLAPS

-----------------------------------------------------------------------------
(* FdManager: the types, that no FdCtx is lost while threads grow the       *)
(* table, and that the FdCtx of a socket is its own as long as its number   *)
(* was not closed without del().                                            *)

(* A thread wants a descriptor exactly while it is in get(fd, true), and    *)
(* between the two locks nobody else fills the slot it has seen empty.      *)
SetUpInv ==
  /\ room >= 2
  /\ \A t \in Threads : getPc[t] = "out" => getFd[t] = None
  /\ \A t \in Threads : getPc[t] = "create" => Found(getFd[t]) = 0

ManagerInv == ManagerTypeOK /\ SetUpInv

(* The slot of a number that is not dirty is empty unless its socket has    *)
(* been set up.                                                             *)
EmptyUnlessOpened == \A fd \in Fds \ dirty : ~Opened(fd) => Found(fd) = 0

OwnInv == ManagerInv /\ ContextIsOwn /\ EmptyUnlessOpened

-----------------------------------------------------------------------------
(* resize(fd * 1.5) makes room for fd and never cuts the table. *)
LEMMA NewSizeFits ==
  ASSUME NEW fd \in Nat, room \in Nat, room >= 2
  PROVE  NewSize(fd) \in Nat /\ NewSize(fd) > fd /\ NewSize(fd) >= room
BY DEF NewSize

LEMMA ManagerInvInit == ManagerInit => ManagerInv
BY DescriptorsAssumption, FdManagerAssumption DEF ManagerInit, ManagerInv, ManagerTypeOK, SetUpInv, Found

(* Every step keeps ManagerInv. *)
LEMMA ManagerInvStep ==
  ASSUME ManagerInv, [ManagerNext]_managerVars
  PROVE  ManagerInv'
<1> USE DescriptorsAssumption, FdManagerAssumption DEF ManagerInv
<1>1. ASSUME NEW t \in Threads, NEW fd \in Fds, NewSocket(t, fd)
      PROVE  ManagerInv'
  <2>1. \A u \in Threads : getFd[u] # fd
    BY <1>1 DEF NewSocket, ManagerTypeOK, SetUpInv
  <2> QED BY <1>1, <2>1 DEF NewSocket, ManagerTypeOK, SetUpInv, Found
<1>2. ASSUME NEW t \in Threads, Get(t)
      PROVE  ManagerInv'
  BY <1>2 DEF Get, Leave, ManagerTypeOK, SetUpInv, Found
<1>3. ASSUME NEW t \in Threads, Create(t)
      PROVE  ManagerInv'
  <2>1. getFd[t] \in Fds /\ getFd[t] \in Nat
    BY <1>3 DEF Create, FdCtxFor, ManagerTypeOK
  <2>2. room' \in Nat /\ room' > getFd[t] /\ room' >= room
    BY <1>3, <2>1, NewSizeFits DEF Create, FdCtxFor, ManagerTypeOK, SetUpInv
  <2>3. \A u \in Threads : u # t /\ getPc[u] # "out" => getFd[u] # getFd[t]
    BY <1>3, <2>1 DEF ManagerTypeOK
  <2>4. ManagerTypeOK'
    BY <1>3, <2>1, <2>2 DEF Create, FdCtxFor, Leave, ManagerTypeOK
  <2>5. \A fd \in Fds : fd # getFd[t] => Found(fd)' = Found(fd)
    BY <1>3, <2>2 DEF Create, FdCtxFor, ManagerTypeOK, Found
  <2>6. SetUpInv'
    <3>1. room' >= 2
      BY <2>2 DEF ManagerTypeOK, SetUpInv
    <3>2. ASSUME NEW u \in Threads, getPc'[u] = "out" PROVE getFd'[u] = None
      BY <1>3, <3>2 DEF Create, FdCtxFor, Leave, ManagerTypeOK, SetUpInv
    <3>3. ASSUME NEW u \in Threads, getPc'[u] = "create" PROVE Found(getFd[u])' = 0
      <4>1. u # t /\ getPc[u] = "create" /\ getFd'[u] = getFd[u]
        BY <1>3, <3>3 DEF Create, FdCtxFor, Leave, ManagerTypeOK
      <4>2. getFd[u] \in Fds /\ getFd[u] # getFd[t] /\ Found(getFd[u]) = 0
        BY <2>3, <4>1 DEF ManagerTypeOK, SetUpInv
      <4>3. PICK fd \in Fds : fd = getFd[u]
        BY <4>2
      <4>4. Found(fd)' = 0
        BY <2>5, <4>2, <4>3
      <4> QED BY <4>1, <4>3, <4>4 DEF Found
    <3> QED BY <3>1, <3>2, <3>3 DEF SetUpInv
  <2> QED BY <2>4, <2>6
<1>4. ASSUME NEW fd \in Fds, Del(fd)
      PROVE  ManagerInv'
  BY <1>4 DEF Del, Opened, ManagerTypeOK, SetUpInv, Found
<1>5. ASSUME NEW fd \in Fds, Close(fd)
      PROVE  ManagerInv'
  <2>1. \A t \in Threads : getFd[t] # fd
    <3>1. CASE open[fd] = "del"
      BY <3>1 DEF ManagerTypeOK, SetUpInv
    <3>2. CASE Opened(fd)
      BY <3>2 DEF Opened
    <3> QED BY <1>5, <3>1, <3>2 DEF Close
  <2> QED BY <1>5, <2>1 DEF Close, ManagerTypeOK, SetUpInv, Found
<1>6. CASE UNCHANGED managerVars
  BY <1>6 DEF managerVars, ManagerTypeOK, SetUpInv, Found
<1> QED BY <1>1, <1>2, <1>3, <1>4, <1>5, <1>6 DEF ManagerNext

LEMMA ManagerInvAlways == ManagerSpec => []ManagerInv
<1>1. ManagerInv /\ [ManagerNext]_managerVars => ManagerInv'
  BY ManagerInvStep
<1> QED BY ManagerInvInit, <1>1, PTL DEF ManagerSpec

(* FdManager::get and del keep every variable in its type, one thread at    *)
(* most sets up a descriptor, and nothing is stored past the end.           *)
THEOREM ManagerTypeCorrect == ManagerSpec => []ManagerTypeOK
<1>1. ManagerInv => ManagerTypeOK
  BY DEF ManagerInv
<1> QED BY ManagerInvAlways, <1>1, PTL

-----------------------------------------------------------------------------
(* What a step does to the FdCtx that is found for fd. *)
LEMMA FoundStep ==
  ASSUME ManagerInv, ManagerNext, NEW fd \in Fds, Found(fd) # 0, Found(fd)' # Found(fd)
  PROVE  Found(fd)' = 0 /\ open'[fd] = "del"
<1> USE DescriptorsAssumption, FdManagerAssumption DEF ManagerInv
<1>1. ASSUME NEW t \in Threads, Create(t) PROVE FALSE
  <2>1. getFd[t] \in Fds /\ getFd[t] \in Nat /\ getFd[t] # fd
    BY <1>1 DEF Create, FdCtxFor, ManagerTypeOK, SetUpInv
  <2>2. room' \in Nat /\ room' >= room
    BY <1>1, <2>1, NewSizeFits DEF Create, FdCtxFor, ManagerTypeOK, SetUpInv
  <2> QED BY <1>1, <2>1, <2>2 DEF Create, FdCtxFor, ManagerTypeOK, Found
<1>2. ASSUME NEW g \in Fds, Del(g) PROVE Found(fd)' = 0 /\ open'[fd] = "del"
  BY <1>2 DEF Del, ManagerTypeOK, Found
<1>3. ASSUME UNCHANGED <<room, m_datas>> PROVE FALSE
  BY <1>3 DEF Found
<1> QED BY <1>1, <1>2, <1>3 DEF ManagerNext, Get, NewSocket, Close

(* However threads race in get(fd, true), the FdCtx that is found for a     *)
(* descriptor is never replaced, and never goes away but by del().          *)
THEOREM ContextsAreNeverLost == ManagerSpec => NeverLost
<1>1. ManagerInv /\ [ManagerNext]_managerVars =>
        [\A fd \in Fds :
           Found(fd) # 0 /\ Found(fd)' # Found(fd) =>
             Found(fd)' = 0 /\ open'[fd] = "del"]_managerVars
  BY FoundStep
<1> QED BY ManagerInvAlways, <1>1, PTL DEF ManagerSpec, NeverLost

-----------------------------------------------------------------------------
LEMMA OwnInit == ManagerInit => OwnInv
BY ManagerInvInit DEF ManagerInit, OwnInv, ContextIsOwn, EmptyUnlessOpened, Opened, Found

LEMMA OwnStep ==
  ASSUME OwnInv, [ManagerNext]_managerVars
  PROVE  OwnInv'
<1> USE DescriptorsAssumption, FdManagerAssumption DEF OwnInv, ManagerInv
<1>0. ManagerInv'
  BY ManagerInvStep
<1>1. ASSUME NEW t \in Threads, NEW fd \in Fds, NewSocket(t, fd)
      PROVE  OwnInv'
  <2>1. \A g \in Fds : Found(g)' = Found(g)
    BY <1>1 DEF NewSocket, Found
  <2>2. ~Opened(fd) /\ ~Opened(fd)'
    BY <1>1 DEF NewSocket, Opened, ManagerTypeOK
  <2>3. \A g \in Fds \ {fd} : Opened(g)' <=> Opened(g)
    <3> TAKE g \in Fds \ {fd}
    <3>1. getFd[t] = None
      BY <1>1 DEF NewSocket, SetUpInv
    <3> QED BY <1>1, <3>1 DEF NewSocket, Opened, ManagerTypeOK
  <2>4. \A g \in Fds \ {fd} : socket'[g] = socket[g]
    BY <1>1 DEF NewSocket, ManagerTypeOK
  <2>5. dirty' = dirty
    BY <1>1 DEF NewSocket
  <2> QED BY <1>0, <2>1, <2>2, <2>3, <2>4, <2>5 DEF ContextIsOwn, EmptyUnlessOpened
<1>2. ASSUME NEW t \in Threads, Get(t)
      PROVE  OwnInv'
  <2>1. getFd[t] \in Fds /\ ~Opened(getFd[t]) /\ dirty' = dirty
    BY <1>2 DEF Get, Opened, ManagerTypeOK
  <2>2. CASE Found(getFd[t]) = 0
    <3>1. UNCHANGED <<room, m_datas, open, socket, getFd>>
      BY <1>2, <2>2 DEF Get
    <3> QED BY <1>0, <2>1, <3>1 DEF ContextIsOwn, EmptyUnlessOpened, Opened, Found
  <2>3. CASE Found(getFd[t]) # 0
    <3>1. getFd[t] \in dirty
      BY <2>1, <2>3 DEF EmptyUnlessOpened
    <3>2. \A g \in Fds : Found(g)' = Found(g) /\ socket'[g] = socket[g]
      BY <1>2 DEF Get, Found
    <3>3. \A g \in Fds \ {getFd[t]} : Opened(g)' <=> Opened(g)
      BY <1>2, <2>1, <2>3 DEF Get, Leave, Opened, ManagerTypeOK
    <3> QED BY <1>0, <2>1, <3>1, <3>2, <3>3 DEF ContextIsOwn, EmptyUnlessOpened
  <2> QED BY <2>2, <2>3
<1>3. ASSUME NEW t \in Threads, Create(t)
      PROVE  OwnInv'
  <2>1. getFd[t] \in Fds /\ getFd[t] \in Nat /\ getFd[t] # None /\ ~Opened(getFd[t])
    BY <1>3 DEF Create, FdCtxFor, Opened, ManagerTypeOK
  <2>2. room' \in Nat /\ room' > getFd[t] /\ room' >= room
    BY <1>3, <2>1, NewSizeFits DEF Create, FdCtxFor, ManagerTypeOK, SetUpInv
  <2>3. \A fd \in Fds \ {getFd[t]} : /\ Found(fd)' = Found(fd)
                                     /\ Opened(fd)' <=> Opened(fd)
                                     /\ socket'[fd] = socket[fd]
    <3>1. \A fd \in Fds \ {getFd[t]} : Found(fd)' = Found(fd) /\ socket'[fd] = socket[fd]
      BY <1>3, <2>2 DEF Create, FdCtxFor, ManagerTypeOK, Found
    <3>2. \A fd \in Fds \ {getFd[t]} : Opened(fd)' <=> Opened(fd)
      BY <1>3, <2>1 DEF Create, FdCtxFor, Leave, Opened, ManagerTypeOK
    <3> QED BY <3>1, <3>2
  <2>4. ASSUME NEW fd \in Fds, fd = getFd[t]
        PROVE  Found(fd)' = socket'[fd] /\ Opened(fd)'
    <3>1. Found(fd)' = socket'[fd]
      BY <1>3, <2>2, <2>4 DEF Create, FdCtxFor, ManagerTypeOK, Found
    <3>2. \A u \in Threads : getFd'[u] # fd
      BY <1>3, <2>1, <2>4 DEF Create, FdCtxFor, Leave, ManagerTypeOK
    <3>3. open'[fd] = "yes"
      BY <1>3, <2>4 DEF Create, FdCtxFor, ManagerTypeOK
    <3> QED BY <3>1, <3>2, <3>3 DEF Opened
  <2>5. dirty' = dirty
    BY <1>3 DEF Create, FdCtxFor
  <2> QED BY <1>0, <2>1, <2>3, <2>4, <2>5 DEF ContextIsOwn, EmptyUnlessOpened
<1>4. ASSUME NEW fd \in Fds, Del(fd)
      PROVE  OwnInv'
  <2>1. Found(fd)' = 0 /\ ~Opened(fd)'
    BY <1>4 DEF Del, Opened, ManagerTypeOK, Found
  <2>2. \A g \in Fds \ {fd} : /\ Found(g)' = Found(g)
                              /\ Opened(g)' <=> Opened(g)
                              /\ socket'[g] = socket[g]
    BY <1>4 DEF Del, Opened, ManagerTypeOK, Found
  <2>3. dirty' = dirty \ {fd}
    BY <1>4 DEF Del
  <2> QED BY <1>0, <2>1, <2>2, <2>3 DEF ContextIsOwn, EmptyUnlessOpened
<1>5. ASSUME NEW fd \in Fds, Close(fd)
      PROVE  OwnInv'
  <2>1. \A g \in Fds : Found(g)' = Found(g) /\ socket'[g] = socket[g]
    BY <1>5 DEF Close, Found
  <2>2. ~Opened(fd)' /\ \A g \in Fds \ {fd} : Opened(g)' <=> Opened(g)
    BY <1>5 DEF Close, Opened, ManagerTypeOK
  <2>3. CASE Opened(fd)
    <3>1. dirty' = dirty \cup {fd}
      BY <1>5, <2>3 DEF Close, Opened
    <3> QED BY <1>0, <2>1, <2>2, <3>1 DEF ContextIsOwn, EmptyUnlessOpened
  <2>4. CASE ~Opened(fd)
    <3>1. dirty' = dirty
      BY <1>5, <2>4 DEF Close
    <3> QED BY <1>0, <2>1, <2>2, <2>4, <3>1 DEF ContextIsOwn, EmptyUnlessOpened
  <2> QED BY <2>3, <2>4
<1>6. CASE UNCHANGED managerVars
  BY <1>0, <1>6 DEF managerVars, ContextIsOwn, EmptyUnlessOpened, Opened, Found
<1> QED BY <1>1, <1>2, <1>3, <1>4, <1>5, <1>6 DEF ManagerNext

(* However sockets are made and closed, for a number that was never closed  *)
(* without del() do_io finds the FdCtx that made this very socket           *)
(* non-blocking.                                                            *)
THEOREM CleanContextsAreOwn == ManagerSpec => []ContextIsOwn
<1>1. OwnInv /\ [ManagerNext]_managerVars => OwnInv'
  BY OwnStep
<1>2. OwnInv => ContextIsOwn
  BY DEF OwnInv
<1> QED BY OwnInit, <1>1, <1>2, PTL DEF ManagerSpec

-----------------------------------------------------------------------------
(* The IOManager's table of FdContext.                                      *)

(* fd * 1.5, truncated, is past fd for every descriptor but 0 and 1. *)
LEMMA GrownIsPast ==
  ASSUME NEW fd \in Nat, fd >= 2
  PROVE  Grown(fd) \in Nat /\ Grown(fd) > fd
BY DEF Grown

(* The table never has fewer than two slots, and only a descriptor past its *)
(* end makes addEvent grow it.                                              *)
SizeInv ==
  /\ slots >= 2
  /\ \A t \in Threads : addPc[t] = "grow" => addFd[t] >= 2

TableInv == TableTypeOK /\ SizeInv

LEMMA TableInvInit == TableInit => TableInv
BY DescriptorsAssumption, FdTableAssumption DEF TableInit, TableInv, TableTypeOK, SizeInv

LEMMA TableInvNext == TableInv /\ [TableNext]_tableVars => TableInv'
<1>. SUFFICES ASSUME TableInv, [TableNext]_tableVars PROVE TableInv'
  OBVIOUS
<1>. TableTypeOK /\ SizeInv /\ Fds \subseteq Nat /\ None \notin Nat
  BY DescriptorsAssumption, FdTableAssumption DEF TableInv
<1>1. ASSUME NEW t \in Threads, NEW fd \in Fds, Lookup(t, fd)
      PROVE  TableInv'
  BY <1>1 DEF Lookup, TableInv, TableTypeOK, SizeInv
<1>2. ASSUME NEW t \in Threads, ContextResize(t)
      PROVE  TableInv'
  <2>1. addFd[t] \in Fds /\ addFd[t] >= 2
    BY <1>2 DEF ContextResize, TableTypeOK, SizeInv
  <2>2. Grown(addFd[t]) \in Nat /\ Grown(addFd[t]) > addFd[t]
    BY <2>1, GrownIsPast
  <2>3. made' \in [Fds -> Nat] /\ slots' = Grown(addFd[t])
    BY <1>2 DEF ContextResize, TableTypeOK
  <2>4. \A fd \in Fds : slots' > fd => made'[fd] # 0
    BY <1>2, <2>2 DEF ContextResize, TableTypeOK
  <2>5. made'[addFd[t]] # 0 /\ made'[addFd[t]] \in Nat
    BY <2>1, <2>2, <2>3, <2>4
  <2>6. addGot' \in [Threads -> Nat] /\ \A u \in Threads : addPc'[u] = "have" => addGot'[u] # 0
    BY <1>2, <2>5 DEF ContextResize, TableTypeOK
  <2>R. addPc' = [addPc EXCEPT ![t] = "have"] /\ addFd' = addFd /\ registered' = registered
    BY <1>2 DEF ContextResize
  <2>P. /\ addPc' \in [Threads -> {"out", "grow", "have"}]
         /\ \A u \in Threads : addPc'[u] # "out" => addFd[u] \in Fds
    BY <2>1, <2>R DEF TableTypeOK
  <2>S. slots' \in Nat
    BY <2>2, <2>3
  <2>L. late' \subseteq Fds
    BY <1>2, <2>1 DEF ContextResize, TableTypeOK
  <2>7. TableTypeOK'
    BY <2>3, <2>4, <2>6, <2>R, <2>S, <2>P, <2>L DEF TableTypeOK
  <2>8. SizeInv'
    <3>1. slots' >= 2
      <4>1. ASSUME NEW w \in Nat, NEW n \in Nat, w >= 2, n > w PROVE n >= 2
        BY <4>1
      <4>. QED
        BY <2>1, <2>2, <2>3, <4>1
    <3>2. \A u \in Threads : addPc'[u] = "grow" => addPc[u] = "grow"
      BY <2>R DEF TableTypeOK
    <3>. QED
      BY <2>R, <3>1, <3>2 DEF SizeInv
  <2>. QED
    BY <2>7, <2>8 DEF TableInv
<1>3. ASSUME NEW t \in Threads, Register(t)
      PROVE  TableInv'
  BY <1>3 DEF Register, TableInv, TableTypeOK, SizeInv
<1>4. ASSUME NEW fd \in Fds, CancelContext(fd)
      PROVE  TableInv'
  BY <1>4 DEF CancelContext, TableInv, TableTypeOK, SizeInv
<1>5. ASSUME NEW c \in registered, ReportContext(c)
      PROVE  TableInv'
  BY <1>5 DEF ReportContext, TableInv, TableTypeOK, SizeInv
<1>6. CASE UNCHANGED tableVars
  BY <1>6 DEF tableVars, TableInv, TableTypeOK, SizeInv
<1>. QED
  BY <1>1, <1>2, <1>3, <1>4, <1>5, <1>6 DEF TableNext

(* addEvent never indexes m_fdContexts past its end. *)
THEOREM TableTypeCorrect == TableSpec => []TableTypeOK
<1>1. TableInv => TableTypeOK
  BY DEF TableInv
<1>. QED
  BY TableInvInit, TableInvNext, <1>1, PTL DEF TableSpec

-----------------------------------------------------------------------------
(* A context that somebody has or that an event is registered in stays in   *)
(* its slot unless a late resize has cut it off.                            *)
ReachInv ==
  /\ \A t \in Threads :
       addPc[t] = "have" /\ NotCutOff(addFd[t]) =>
         slots > addFd[t] /\ made[addFd[t]] = addGot[t]
  /\ RegisteredReachable

LEMMA ReachInit == TableInit => ReachInv
BY DEF TableInit, ReachInv, RegisteredReachable

LEMMA ReachNext == TableInv /\ ReachInv /\ [TableNext]_tableVars => ReachInv'
<1>. SUFFICES ASSUME TableInv, ReachInv, [TableNext]_tableVars PROVE ReachInv'
  OBVIOUS
<1>. Fds \subseteq Nat /\ TableTypeOK /\ SizeInv
  BY DescriptorsAssumption DEF TableInv
<1>1. ASSUME NEW t \in Threads, NEW fd \in Fds, Lookup(t, fd)
      PROVE  ReachInv'
  BY <1>1 DEF Lookup, TableTypeOK, ReachInv, RegisteredReachable, NotCutOff
<1>2. ASSUME NEW t \in Threads, ContextResize(t)
      PROVE  ReachInv'
  <2>1. addFd[t] \in Fds /\ addFd[t] \in Nat /\ addFd[t] >= 2
    BY <1>2 DEF ContextResize, TableTypeOK, SizeInv
  <2>2. Grown(addFd[t]) \in Nat /\ Grown(addFd[t]) > addFd[t]
    BY <2>1, GrownIsPast
  <2>3. \A fd \in Fds : slots > fd => made'[fd] = made[fd]
    BY <1>2 DEF ContextResize, TableTypeOK
  <2>4. slots' = Grown(addFd[t]) /\ registered' = registered /\ addFd' = addFd
    BY <1>2 DEF ContextResize
  <2>5. \A fd \in Fds : NotCutOff(fd)' => NotCutOff(fd)
    BY <1>2 DEF ContextResize, NotCutOff
  <2>6. ASSUME NEW fd \in Fds, slots > fd, NotCutOff(fd)' PROVE slots' > fd
    <3>1. CASE slots > addFd[t]
      <4>1. addFd[t] \in late'
        BY <1>2, <3>1 DEF ContextResize
      <4>. QED
        BY <2>4, <2>6, <4>1 DEF NotCutOff
    <3>2. CASE ~(slots > addFd[t])
      <4>1. fd \in Nat /\ slots \in Nat
        BY DEF TableTypeOK
      <4>. QED
        BY <2>1, <2>2, <2>4, <2>6, <3>2, <4>1
    <3>. QED
      BY <3>1, <3>2
  <2>7. ASSUME NEW u \in Threads, addPc'[u] = "have", NotCutOff(addFd[u])'
        PROVE  slots' > addFd[u] /\ made'[addFd[u]] = addGot'[u]
    <3>1. CASE u = t
      BY <1>2, <2>1, <2>2, <2>4, <3>1 DEF ContextResize, TableTypeOK
    <3>2. CASE u # t
      <4>1. addPc[u] = "have" /\ addGot'[u] = addGot[u]
        BY <1>2, <2>7, <3>2 DEF ContextResize, TableTypeOK
      <4>2. PICK fd \in Fds : fd = addFd[u]
        BY <4>1 DEF TableTypeOK
      <4>3. NotCutOff(fd)'
        BY <2>7, <4>2, <2>4 DEF NotCutOff
      <4>4. NotCutOff(fd)
        BY <2>5, <4>3
      <4>5. slots > fd /\ made[fd] = addGot[u]
        BY <4>1, <4>2, <4>4 DEF ReachInv
      <4>. QED
        BY <2>3, <2>6, <4>1, <4>2, <4>3, <4>5
    <3>. QED
      BY <3>1, <3>2
  <2>8. ASSUME NEW c \in registered, NotCutOff(c[1])'
        PROVE  slots' > c[1] /\ made'[c[1]] = c[2]
    <3>1. PICK fd \in Fds : fd = c[1]
      BY DEF TableTypeOK
    <3>2. NotCutOff(fd)'
      BY <2>8, <3>1 DEF NotCutOff
    <3>3. NotCutOff(c[1])
      BY <2>5, <3>1, <3>2
    <3>4. slots > fd /\ made[fd] = c[2]
      BY <3>1, <3>3 DEF ReachInv, RegisteredReachable
    <3>. QED
      BY <2>3, <2>6, <3>1, <3>2, <3>4
  <2>9. RegisteredReachable'
    BY <2>4, <2>8 DEF RegisteredReachable, NotCutOff
  <2>10. \A u \in Threads :
           addPc'[u] = "have" /\ NotCutOff(addFd[u])' =>
             slots' > addFd'[u] /\ made'[addFd'[u]] = addGot'[u]
    BY <2>4, <2>7
  <2>. QED
    BY <2>4, <2>9, <2>10 DEF ReachInv, NotCutOff
<1>3. ASSUME NEW t \in Threads, Register(t)
      PROVE  ReachInv'
  BY <1>3 DEF Register, TableTypeOK, ReachInv, RegisteredReachable, NotCutOff
<1>4. ASSUME NEW fd \in Fds, CancelContext(fd)
      PROVE  ReachInv'
  BY <1>4 DEF CancelContext, ReachInv, RegisteredReachable, NotCutOff
<1>5. ASSUME NEW c \in registered, ReportContext(c)
      PROVE  ReachInv'
  BY <1>5 DEF ReportContext, ReachInv, RegisteredReachable, NotCutOff
<1>6. CASE UNCHANGED tableVars
  BY <1>6 DEF tableVars, ReachInv, RegisteredReachable, NotCutOff
<1>. QED
  BY <1>1, <1>2, <1>3, <1>4, <1>5, <1>6 DEF TableNext

(* For any descriptors and threads the missing look at the size in          *)
(* addEvent's second critical section harms only descriptors at or behind   *)
(* the end of a table that a late resize made: every other registered event *)
(* stays reachable through the table.                                       *)
THEOREM RegisteredStaysReachable == TableSpec => []RegisteredReachable
<1>1. ReachInv => RegisteredReachable
  BY DEF ReachInv
<1>. QED
  BY TableInvInit, TableInvNext, ReachInit, ReachNext, <1>1, PTL DEF TableSpec

-----------------------------------------------------------------------------
(* Used together, the hooked socket calls and addEvent are a behaviour of   *)
(* FdManager's table and one of the IOManager's table.                      *)
THEOREM SocketsImplementTables == Spec => ManagerSpec /\ TableSpec
<1>1. Init => ManagerInit /\ TableInit
  BY DEF Init
<1>2. [Next]_vars => [ManagerNext]_managerVars
  BY DEF Next, SocketStep, WaitStep, ManagerNext, vars
<1>3. [Next]_vars => [TableNext]_tableVars
  BY DEF Next, SocketStep, WaitStep, TableNext, vars
<1> QED BY <1>1, <1>2, <1>3, PTL DEF Spec, ManagerSpec, TableSpec

(* Neither table is ever indexed past its end. *)
THEOREM TablesTypeCorrect == Spec => []TypeOK
<1>1. ManagerTypeOK /\ TableTypeOK => TypeOK
  BY DEF TypeOK
<1> QED
  BY SocketsImplementTables, ManagerTypeCorrect, TableTypeCorrect, <1>1, PTL

(* While sockets are made, waited for and closed by any threads, no FdCtx   *)
(* is lost or replaced, a socket has the FdCtx that was set up for it, and  *)
(* its registered events stay reachable unless a late resize cut them off:  *)
(* neither table disturbs the other.                                        *)
THEOREM SocketsKeepBothTables ==
  Spec => NeverLost /\ []ContextIsOwn /\ []RegisteredReachable
BY SocketsImplementTables, ContextsAreNeverLost, CleanContextsAreOwn, RegisteredStaysReachable, PTL

=============================================================================
