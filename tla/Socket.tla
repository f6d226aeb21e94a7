------------------------------- MODULE Socket -------------------------------
(***************************************************************************)
(* The life of Socket objects: creation, bind, listen, connect, reconnect, *)
(* accept, send and recv, close and the destructor.  Fibers share Sockets  *)
(* through shared_ptr.  connect, accept, send and recv hold inside the     *)
(* hooked call, which keeps the number it was given, while other fibers    *)
(* use and close the Socket; everything else runs without a hold.          *)
(*                                                                         *)
(* A file is a socket of the kernel; numbers are reused, files are not.    *)
(***************************************************************************)
EXTENDS Naturals, FiniteSets

CONSTANTS
  Sockets,   \* Socket objects
  Fibers,
  Numbers,   \* descriptor numbers
  Addresses, \* addresses of peers
  None,      \* m_sock = -1, a null address, no call
  MaxFiles,  \* bound: files that are opened
  MaxNames   \* bound: how often the address of one file changes

ASSUME SocketAssumption ==
  /\ None \notin Sockets \cup Fibers \cup Numbers \cup Addresses /\ None \notin Nat
  /\ MaxFiles \in Nat /\ MaxNames \in Nat

VARIABLES
  live,            \* the Sockets that exist
  m_sock,
  m_isconnected,
  m_localAddress,  \* what getsockname gave, see Name
  m_remoteAddress,
  file,            \* kernel: the file a number stands for, 0 for a free number
  listening,       \* kernel: the files that listen
  files,           \* kernel: how many files were opened
  address,         \* kernel: the local address of the file of a number, told
                   \* by how often ::bind and ::connect have changed it
  call,            \* the call a fiber holds in: [op, sock, fd, file]
  closedUnder,     \* history: fibers whose Socket was closed while they held
  again,           \* history: Sockets that bind() or connect() opened, bound
                   \* or connected while they remembered a local address
  closeFailed      \* history: a ::close() has reported an error

vars == <<live, m_sock, m_isconnected, m_localAddress, m_remoteAddress, file,
          listening, files, address, call, closedUnder, again, closeFailed>>
object == <<live, m_sock, m_isconnected, m_localAddress, m_remoteAddress>>
kernel == <<file, listening, files>>
history == <<closedUnder, again, closeFailed>>

isValid(s) == m_sock[s] # None
FileOf(n)  == IF n = None THEN 0 ELSE file[n]
Name(n)    == <<file[n], address[n]>>
Waiting(s) == {f \in Fibers : call[f] # None /\ call[f].sock = s}
Running(f) == call[f] = None

-----------------------------------------------------------------------------
Init ==
  /\ live = {}
  /\ m_sock = [s \in Sockets |-> None]
  /\ m_isconnected = [s \in Sockets |-> FALSE]
  /\ m_localAddress = [s \in Sockets |-> None]
  /\ m_remoteAddress = [s \in Sockets |-> None]
  /\ file = [n \in Numbers |-> 0] /\ listening = {} /\ files = 0
  /\ address = [n \in Numbers |-> 0]
  /\ call = [f \in Fibers |-> None]
  /\ closedUnder = {} /\ again = {} /\ closeFailed = FALSE

(* The kernel opens a file: any free number, or none (the call fails). *)
Open(n) ==
  \/ /\ n \in Numbers /\ file[n] = 0 /\ files < MaxFiles
     /\ files' = files + 1
     /\ file' = [file EXCEPT ![n] = files + 1]
     /\ UNCHANGED listening
  \/ n = None /\ UNCHANGED kernel

(* newSock(), with initSock(), whose options do not matter here *)
newSock(s) == \E n \in Numbers \cup {None} : Open(n) /\ m_sock' = [m_sock EXCEPT ![s] = n]
NewSockIfInvalid(s) ==
  IF isValid(s) THEN UNCHANGED <<m_sock, kernel>> ELSE newSock(s)

(* What getLocalAddress() leaves in the cache: getsockname gives the        *)
(* address of the moment, and fails without a file.                         *)
LocalOf(s) ==
  IF m_localAddress[s] # None \/ FileOf(m_sock[s]) = 0 THEN m_localAddress[s]
  ELSE Name(m_sock[s])

(* ::bind or ::connect changes the address of a file, or leaves it as it is *)
(* (a file that was bound to the address it connects from).                 *)
Rename(n) ==
  \/ UNCHANGED address
  \/ /\ file'[n] # 0 /\ address[n] < MaxNames
     /\ address' = [address EXCEPT ![n] = @ + 1]

(* The kernel frees the number of a Socket, if it has one. *)
Free(s) ==
  /\ file' = IF isValid(s) THEN [file EXCEPT ![m_sock[s]] = 0] ELSE file
  /\ address' = IF isValid(s) THEN [address EXCEPT ![m_sock[s]] = 0] ELSE address
  /\ listening' = listening \ {FileOf(m_sock[s])}

(* Mutant: m_sock keeps the number that was closed. *)
CloseKeepsNumber(s, by) ==
  /\ m_isconnected' = [m_isconnected EXCEPT ![s] = FALSE]
  /\ Free(s)
  /\ UNCHANGED <<m_sock, closeFailed>>
  /\ closedUnder' = (closedUnder \cup Waiting(s)) \ {by}
(* close(), by a fiber that leaves its call with it, or by any other.  A    *)
(* ::close() that reports an error has freed the number all the same, but   *)
(* m_sock keeps it; for a number that is free it fails.                     *)
close(s, by) ==
  /\ m_isconnected' = [m_isconnected EXCEPT ![s] = FALSE]
  /\ Free(s)
  /\ \E fails \in BOOLEAN :
       /\ isValid(s) /\ FileOf(m_sock[s]) = 0 => fails
       /\ fails => isValid(s)
       /\ m_sock' = IF isValid(s) /\ ~fails THEN [m_sock EXCEPT ![s] = None] ELSE m_sock
       /\ closeFailed' = (closeFailed \/ fails)
  /\ closedUnder' = (closedUnder \cup Waiting(s)) \ {by}

-----------------------------------------------------------------------------
(* CreateTCP and its kin make no file; CreateUDP and its kin make one, and  *)
(* say that they are connected whether newSock() worked or not.             *)
Fresh(s) ==
  /\ s \notin live
  /\ live' = live \cup {s}
  /\ UNCHANGED <<m_localAddress, m_remoteAddress, address, call, history>>
CreateTCP(s) ==
  /\ Fresh(s)
  /\ UNCHANGED <<m_sock, m_isconnected, kernel>>
CreateUDP(s) ==
  /\ Fresh(s)
  /\ newSock(s)
  /\ m_isconnected' = [m_isconnected EXCEPT ![s] = TRUE]

(* ~Socket(), when no fiber has a pointer to it *)
Destroy(s) ==
  /\ s \in live /\ Waiting(s) = {}
  /\ live' = live \ {s}
  /\ m_isconnected' = [m_isconnected EXCEPT ![s] = FALSE]
  /\ m_sock' = [m_sock EXCEPT ![s] = None]
  /\ Free(s)
  /\ m_localAddress' = [m_localAddress EXCEPT ![s] = None]
  /\ m_remoteAddress' = [m_remoteAddress EXCEPT ![s] = None]
  /\ again' = again \ {s}
  /\ UNCHANGED <<files, call, closedUnder, closeFailed>>

Close(s) ==
  /\ s \in live
  /\ close(s, None)
  /\ UNCHANGED <<live, m_localAddress, m_remoteAddress, files, call, again>>

(* A file is opened, bound or connected: an address that the Socket         *)
(* remembers is kept.                                                       *)
Keeps(s) == again' = IF m_localAddress[s] = None THEN again ELSE again \cup {s}
KeepsIfOpened(s) == IF isValid(s) THEN UNCHANGED again ELSE Keeps(s)

(* bind(): a new file when there is none; then it returns early (no file,   *)
(* another family, a UnixAddress on which somebody listens); or ::bind      *)
(* succeeds, which it takes for an error; or ::bind fails, and it asks for  *)
(* the address, which is the one of a file that is not bound.               *)
Bind(s) ==
  /\ s \in live
  /\ NewSockIfInvalid(s)
  /\ \/ KeepsIfOpened(s) /\ UNCHANGED <<m_localAddress, address>>
     \/ /\ FileOf(m_sock[s])' # 0
        /\ Keeps(s) /\ Rename(m_sock'[s]) /\ UNCHANGED m_localAddress
     \/ /\ FileOf(m_sock[s])' # 0
        /\ KeepsIfOpened(s) /\ UNCHANGED address
        /\ m_localAddress' = [m_localAddress EXCEPT
             ![s] = IF @ = None THEN Name(m_sock[s])' ELSE @]
  /\ UNCHANGED <<live, m_isconnected, m_remoteAddress, call, closedUnder, closeFailed>>

Listen(s) ==
  /\ s \in live /\ FileOf(m_sock[s]) # 0
  /\ listening' = listening \cup {FileOf(m_sock[s])}
  /\ UNCHANGED <<object, file, files, address, call, history>>

getLocalAddress(s) ==
  /\ s \in live
  /\ m_localAddress' = [m_localAddress EXCEPT ![s] = LocalOf(s)]
  /\ UNCHANGED <<live, m_sock, m_isconnected, m_remoteAddress, kernel, address, call,
                 history>>

-----------------------------------------------------------------------------
(* Calls that hold.                                                        *)

Hold(f, op, s, n, k) ==
  /\ call' = [call EXCEPT ![f] = [op |-> op, sock |-> s, fd |-> n, file |-> k]]
  /\ closedUnder' = closedUnder \ {f}
Return(f) == call' = [call EXCEPT ![f] = None]
Forget(f) == closedUnder' = closedUnder \ {f}

(* connect() up to the hold, in which ::connect has given the file its      *)
(* address, or to its early return: no file, or another family              *)
ConnectWith(f, s, a) ==
  /\ m_remoteAddress' = [m_remoteAddress EXCEPT ![s] = a]
  /\ NewSockIfInvalid(s)
  /\ UNCHANGED <<live, m_isconnected, closeFailed>>
Connects(f, s) ==
  /\ m_sock'[s] # None
  /\ Hold(f, "connect", s, m_sock'[s], file'[m_sock'[s]])
  /\ Rename(m_sock'[s])
Connect(f, s, a) ==
  /\ Running(f) /\ s \in live
  /\ ConnectWith(f, s, a)
  /\ \/ Connects(f, s) /\ Keeps(s)
     \/ KeepsIfOpened(s) /\ UNCHANGED <<address, call, closedUnder>>
  /\ UNCHANGED m_localAddress

(* Mutant: the local address is kept. *)
ReconnectKeepsLocal(f, s) ==
  /\ Running(f) /\ s \in live /\ m_remoteAddress[s] # None
  /\ ConnectWith(f, s, m_remoteAddress[s])
  /\ Connects(f, s) \/ UNCHANGED <<address, call, closedUnder>>
  /\ again' = again \ {s}
  /\ UNCHANGED m_localAddress
(* reconnect(): the last address that was tried *)
Reconnect(f, s) ==
  /\ Running(f) /\ s \in live /\ m_remoteAddress[s] # None
  /\ m_localAddress' = [m_localAddress EXCEPT ![s] = None]
  /\ ConnectWith(f, s, m_remoteAddress[s])
  /\ Connects(f, s) \/ UNCHANGED <<address, call, closedUnder>>
  /\ again' = again \ {s}

(* ::connect returns 0: SO_ERROR of whatever has the number now is 0 *)
ConnectDone(f) ==
  /\ call[f] # None /\ call[f].op = "connect" /\ FileOf(call[f].fd) # 0
  /\ LET s == call[f].sock
     IN /\ m_isconnected' = [m_isconnected EXCEPT ![s] = TRUE]
        /\ m_localAddress' = [m_localAddress EXCEPT ![s] = LocalOf(s)]
  /\ Return(f) /\ Forget(f)
  /\ UNCHANGED <<live, m_sock, m_remoteAddress, kernel, address, again, closeFailed>>
(* It fails, and connect() closes the Socket. *)
ConnectFails(f) ==
  /\ call[f] # None /\ call[f].op = "connect"
  /\ close(call[f].sock, f)
  /\ Return(f)
  /\ UNCHANGED <<live, m_localAddress, m_remoteAddress, files, again>>

(* accept() *)
Accept(f, s) ==
  /\ Running(f) /\ s \in live
  /\ Hold(f, "accept", s, m_sock[s], FileOf(m_sock[s]))
  /\ UNCHANGED <<object, kernel, address, again, closeFailed>>
(* accept_f on the number returns a file and init() takes it: the hooked    *)
(* accept has made its FdCtx, for a socket.                                 *)
AcceptDone(f, r) ==
  /\ call[f] # None /\ call[f].op = "accept" /\ FileOf(call[f].fd) \in listening
  /\ r \notin live /\ live' = live \cup {r}
  /\ \E n \in Numbers, a \in Addresses :
       /\ Open(n) /\ UNCHANGED address
       /\ m_sock' = [m_sock EXCEPT ![r] = n]
       /\ m_localAddress' = [m_localAddress EXCEPT ![r] = Name(n)']
       /\ m_remoteAddress' = [m_remoteAddress EXCEPT ![r] = a]
  /\ m_isconnected' = [m_isconnected EXCEPT ![r] = TRUE]
  /\ Return(f) /\ Forget(f)
  /\ UNCHANGED <<again, closeFailed>>

(* send and recv in all their forms, for a Socket that says it is connected *)
Transfer(f, s) ==
  /\ Running(f) /\ s \in live /\ m_isconnected[s]
  /\ Hold(f, "io", s, m_sock[s], FileOf(m_sock[s]))
  /\ UNCHANGED <<object, kernel, address, again, closeFailed>>
(* The call returns, with an error or data, or because cancelRead,          *)
(* cancelWrite, cancelAccept or cancelAll woke it.                          *)
Returns(f) ==
  /\ call[f] # None /\ call[f].op \in {"accept", "io"}
  /\ Return(f) /\ Forget(f)
  /\ UNCHANGED <<object, kernel, address, again, closeFailed>>

Next ==
  \/ \E s \in Sockets :
       \/ CreateTCP(s) \/ CreateUDP(s) \/ Destroy(s) \/ Close(s) \/ Bind(s)
       \/ Listen(s) \/ getLocalAddress(s)
  \/ \E f \in Fibers, s \in Sockets :
       \/ Reconnect(f, s) \/ Accept(f, s) \/ AcceptDone(f, s) \/ Transfer(f, s)
       \/ \E a \in Addresses : Connect(f, s, a)
  \/ \E f \in Fibers : ConnectDone(f) \/ ConnectFails(f) \/ Returns(f)

Spec == Init /\ [][Next]_vars

-----------------------------------------------------------------------------
(* As long as no ::close() reports an error, the open numbers are exactly   *)
(* those that the Sockets hold, each held by one: nothing leaks, nothing is *)
(* closed behind its owner's back and no number has two owners, although    *)
(* failing connects close Sockets that others have closed and opened again. *)
NumbersAreHeld ==
  closeFailed \/
    /\ \A n \in Numbers : file[n] # 0 <=> \E s \in live : m_sock[s] = n
    /\ \A s, r \in live : isValid(s) /\ m_sock[s] = m_sock[r] => s = r

(* A call that holds goes on with the file it began with, unless its own    *)
(* Socket was closed in the meantime or a ::close() has failed: closing     *)
(* other Sockets, or the same one twice, never takes the number away.       *)
WaitsOnOwn ==
  \A f \in Fibers :
    call[f] = None \/ f \in closedUnder \/ closeFailed
      \/ FileOf(call[f].fd) = call[f].file

(* The local address that a Socket remembers is the one its present file    *)
(* has at this moment, although other fibers bind, connect, close and open  *)
(* the Socket, unless bind() or connect() opened, bound or connected it     *)
(* while it remembered one (socket.cpp:280 then keeps it); reconnect()      *)
(* makes it right again.                                                    *)
LocalIsOwn ==
  \A s \in live :
    isValid(s) /\ m_localAddress[s] # None =>
      s \in again \/ closeFailed \/ m_localAddress[s] = Name(m_sock[s])

=============================================================================
