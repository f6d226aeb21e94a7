---------------------------- MODULE SocketProofs ----------------------------
(***************************************************************************)
(* Proofs about Socket, for every set of Sockets, fibers, numbers and      *)
(* addresses and every number of files, and about Names, the texts that    *)
(* its addresses are made from, for every text.                            *)
(***************************************************************************)
EXTENDS Socket, Names, TLAPS

Call ==
  [op : {"connect", "accept", "io"}, sock : Sockets, fd : Numbers \cup {None}, file : Nat]

(* Every variable that decides which file a number stands for has its type, *)
(* and a Socket that does not exist has neither a number nor an address.    *)
SocketType ==
  /\ live \in SUBSET Sockets
  /\ m_sock \in [Sockets -> Numbers \cup {None}]
  /\ m_localAddress \in [Sockets -> (Nat \X Nat) \cup {None}]
  /\ address \in [Numbers -> Nat]
  /\ files \in Nat /\ file \in [Numbers -> Nat]
  /\ call \in [Fibers -> Call \cup {None}]
  /\ closeFailed \in BOOLEAN
  /\ \A s \in Sockets \ live : m_sock[s] = None /\ m_localAddress[s] = None

(* The fiber holds on the present number of its Socket (or on none, which   *)
(* the Socket may be given one after) and on the file it began with.        *)
OnOwn(f) ==
  /\ call[f].fd = None \/ call[f].fd = m_sock[call[f].sock]
  /\ FileOf(call[f].fd) = call[f].file

(* A fiber that holds keeps a pointer to its Socket, and holds on its own   *)
(* until that Socket is closed.                                             *)
HoldsOwn ==
  \A f \in Fibers :
    call[f] # None =>
      call[f].sock \in live /\ (f \in closedUnder \/ closeFailed \/ OnOwn(f))

SocketInv == SocketType /\ HoldsOwn /\ NumbersAreHeld /\ LocalIsOwn

LEMMA SocketInvInit == Init => SocketInv
<1> SUFFICES ASSUME Init PROVE SocketInv
  OBVIOUS
<1>1. SocketType
  BY DEF Init, SocketType
<1>2. HoldsOwn /\ LocalIsOwn
  BY DEF Init, HoldsOwn, LocalIsOwn
<1>3. NumbersAreHeld
  BY DEF Init, NumbersAreHeld
<1> QED BY <1>1, <1>2, <1>3 DEF SocketInv

-----------------------------------------------------------------------------
(* A step that changes the numbers opens a file for a Socket that has no    *)
(* number, or gives up the number of one Socket.                            *)
TakesNumber(s, n) ==
  /\ m_sock[s] = None /\ file[n] = 0
  /\ files' = files + 1
  /\ file' = [file EXCEPT ![n] = files + 1]
  /\ m_sock' = [m_sock EXCEPT ![s] = n]
GivesUp(s) ==
  /\ m_sock' = [m_sock EXCEPT ![s] = None]
  /\ file' = IF isValid(s) THEN [file EXCEPT ![m_sock[s]] = 0] ELSE file
  /\ files' = files

(* Of the addresses only the one of the number of s may have changed. *)
AddressOf(s) ==
  /\ address' \in [Numbers -> Nat]
  /\ \A n \in Numbers : n # m_sock[s] /\ n # m_sock'[s] => address'[n] = address[n]
AddressFreed(s) ==
  /\ address' \in [Numbers -> Nat]
  /\ \A n \in Numbers : n # m_sock[s] => address'[n] = address[n]

(* The types are kept, and the Sockets own the open numbers. *)
LEMMA TakesHeld ==
  ASSUME SocketInv, NEW s \in Sockets, NEW n \in Numbers, TakesNumber(s, n),
         live' \in SUBSET Sockets, live' = live \cup {s}, closeFailed' = closeFailed
  PROVE  /\ m_sock' \in [Sockets -> Numbers \cup {None}]
         /\ files' \in Nat /\ file' \in [Numbers -> Nat]
         /\ NumbersAreHeld'
         /\ ~closeFailed => \A r \in live : m_sock[r] # n
<1>1. SocketType /\ NumbersAreHeld
  BY DEF SocketInv
<1>2. /\ m_sock' \in [Sockets -> Numbers \cup {None}]
      /\ files' \in Nat /\ file' \in [Numbers -> Nat]
      /\ m_sock'[s] = n /\ file'[n] # 0
      /\ \A r \in Sockets \ {s} : m_sock'[r] = m_sock[r]
      /\ \A m \in Numbers \ {n} : file'[m] = file[m]
  BY <1>1 DEF TakesNumber, SocketType
<1>3. ~closeFailed => \A r \in live : m_sock[r] # n
  BY <1>1 DEF TakesNumber, SocketType, NumbersAreHeld
<1>4. NumbersAreHeld'
  BY <1>1, <1>2, <1>3, SocketAssumption DEF TakesNumber, SocketType, NumbersAreHeld, isValid
<1> QED BY <1>2, <1>3, <1>4

LEMMA GivesUpHeld ==
  ASSUME SocketInv, NEW s \in live, GivesUp(s),
         live' \in {live, live \ {s}}, closeFailed' = closeFailed
  PROVE  /\ m_sock' \in [Sockets -> Numbers \cup {None}]
         /\ file' \in [Numbers -> Nat]
         /\ NumbersAreHeld'
         /\ ~closeFailed => \A r \in live \ {s} : FileOf(m_sock[r])' = FileOf(m_sock[r])
<1>1. SocketType /\ NumbersAreHeld
  BY DEF SocketInv
<1>2. /\ m_sock' \in [Sockets -> Numbers \cup {None}] /\ file' \in [Numbers -> Nat]
      /\ m_sock'[s] = None
      /\ \A r \in Sockets \ {s} : m_sock'[r] = m_sock[r]
      /\ \A n \in Numbers : file'[n] = IF n = m_sock[s] THEN 0 ELSE file[n]
  BY <1>1, SocketAssumption DEF GivesUp, SocketType, isValid
<1>3. NumbersAreHeld'
  BY <1>1, <1>2, SocketAssumption DEF SocketType, NumbersAreHeld, isValid
<1>4. ~closeFailed => \A r \in live \ {s} : m_sock[r] = None \/ m_sock[r] # m_sock[s]
  BY <1>1 DEF SocketType, NumbersAreHeld, isValid
<1>5. ~closeFailed => \A r \in live \ {s} : FileOf(m_sock[r])' = FileOf(m_sock[r])
  BY <1>1, <1>2, <1>4 DEF FileOf, SocketType
<1> QED BY <1>2, <1>3, <1>5

LEMMA KeepsHeld ==
  ASSUME SocketInv, UNCHANGED <<m_sock, file, closeFailed>>,
         live \subseteq live', live' \subseteq Sockets
  PROVE  NumbersAreHeld'
BY SocketAssumption DEF SocketInv, SocketType, NumbersAreHeld, isValid

(* The fibers that hold: the new file is no file of theirs, and the number  *)
(* of another Socket is not theirs.                                         *)
LEMMA TakesWaits ==
  ASSUME SocketInv, ~closeFailed, NEW s \in Sockets, NEW n \in Numbers, TakesNumber(s, n),
         NEW f \in Fibers, call[f] # None, f \notin closedUnder, call'[f] = call[f]
  PROVE  OnOwn(f)'
<1>1. SocketType /\ HoldsOwn /\ NumbersAreHeld
  BY DEF SocketInv
<1>2. call[f] \in Call /\ call[f].sock \in live /\ OnOwn(f)
  BY <1>1 DEF SocketType, HoldsOwn
<1>3. call[f].fd \in Numbers \cup {None} /\ call[f].sock \in Sockets
  BY <1>2 DEF Call
<1>4. call[f].fd # n
  BY <1>1, <1>2, <1>3, SocketAssumption
  DEF TakesNumber, SocketType, NumbersAreHeld, OnOwn
<1>5. call[f].fd = None \/ file'[call[f].fd] = file[call[f].fd]
  BY <1>1, <1>3, <1>4 DEF TakesNumber, SocketType
<1>6. call[f].fd = None \/ call[f].fd = m_sock'[call[f].sock]
  BY <1>1, <1>2, <1>3 DEF TakesNumber, SocketType, OnOwn
<1> QED BY <1>2, <1>5, <1>6 DEF OnOwn, FileOf

LEMMA GivesUpWaits ==
  ASSUME SocketInv, ~closeFailed, NEW s \in live, GivesUp(s),
         NEW f \in Fibers, call[f] # None, f \notin closedUnder, call'[f] = call[f],
         call[f].sock # s
  PROVE  OnOwn(f)'
<1>1. SocketType /\ HoldsOwn /\ NumbersAreHeld
  BY DEF SocketInv
<1>2. call[f] \in Call /\ call[f].sock \in live /\ OnOwn(f)
  BY <1>1 DEF SocketType, HoldsOwn
<1>3. call[f].fd \in Numbers \cup {None} /\ call[f].sock \in Sockets
  BY <1>2 DEF Call
<1>4. call[f].fd = None \/ call[f].fd # m_sock[s]
  BY <1>1, <1>2, <1>3 DEF SocketType, NumbersAreHeld, isValid, OnOwn
<1>5. call[f].fd = None \/ file'[call[f].fd] = file[call[f].fd]
  BY <1>1, <1>3, <1>4 DEF GivesUp, SocketType, isValid
<1>6. call[f].fd = None \/ call[f].fd = m_sock'[call[f].sock]
  BY <1>1, <1>2, <1>3 DEF GivesUp, SocketType, OnOwn
<1> QED BY <1>2, <1>5, <1>6 DEF OnOwn, FileOf

LEMMA KeepsWaits ==
  ASSUME NEW f \in Fibers, OnOwn(f), call'[f] = call[f], UNCHANGED <<m_sock, file>>
  PROVE  OnOwn(f)'
BY DEF OnOwn, FileOf

(* A call that begins now is on the number of its Socket. *)
LEMMA NewWaits ==
  ASSUME SocketType, NEW f \in Fibers, NEW op \in {"connect", "accept", "io"},
         NEW s \in Sockets, Hold(f, op, s, m_sock'[s], FileOf(m_sock[s])'),
         m_sock'[s] \in Numbers \cup {None}, file' \in [Numbers -> Nat]
  PROVE  /\ call' \in [Fibers -> Call \cup {None}]
         /\ call'[f] # None => call'[f].sock = s /\ OnOwn(f)'
         /\ \A g \in Fibers \ {f} : call'[g] = call[g]
<1> DEFINE c == [op |-> op, sock |-> s, fd |-> m_sock'[s], file |-> FileOf(m_sock[s])']
<1>1. FileOf(m_sock[s])' \in Nat
  BY DEF FileOf
<1>2. c \in Call
  BY <1>1 DEF Call
<1>3. call' = [call EXCEPT ![f] = c]
  BY DEF Hold
<1>4. c.sock = s /\ c.fd = m_sock'[s] /\ c.file = FileOf(m_sock[s])'
  OBVIOUS
<1> HIDE DEF c
<1>5. call' \in [Fibers -> Call \cup {None}] /\ call'[f] = c
      /\ \A g \in Fibers \ {f} : call'[g] = call[g]
  BY <1>2, <1>3 DEF SocketType
<1> QED BY <1>4, <1>5 DEF OnOwn, FileOf

-----------------------------------------------------------------------------
(* newSock() for a Socket without a number takes one or changes nothing. *)
LEMMA NewSockEffect ==
  ASSUME SocketType, NEW s \in Sockets, newSock(s), m_sock[s] = None
  PROVE  UNCHANGED <<m_sock, file, files>> \/ \E n \in Numbers : TakesNumber(s, n)
<1>1. PICK n \in Numbers \cup {None} : Open(n) /\ m_sock' = [m_sock EXCEPT ![s] = n]
  BY DEF newSock
<1>2. CASE n \in Numbers /\ file[n] = 0 /\ files' = files + 1
           /\ file' = [file EXCEPT ![n] = files + 1]
  BY <1>1, <1>2 DEF TakesNumber
<1>3. CASE n = None /\ UNCHANGED <<file, files>>
  <2>1. m_sock' = m_sock
    BY <1>1, <1>3 DEF SocketType
  <2> QED BY <1>3, <2>1
<1> QED BY <1>1, <1>2, <1>3 DEF Open, kernel

(* close() gives up the number, or ::close() has reported an error. *)
LEMMA CloseEffect ==
  ASSUME SocketType, NEW s \in live, NEW by, close(s, by), files' = files
  PROVE  /\ closeFailed' \in BOOLEAN
         /\ closeFailed => closeFailed'
         /\ m_sock' \in [Sockets -> Numbers \cup {None}]
         /\ file' \in [Numbers -> Nat]
         /\ AddressFreed(s)
         /\ closeFailed' \/ (GivesUp(s) /\ closeFailed' = closeFailed)
         /\ closedUnder' = (closedUnder \cup Waiting(s)) \ {by}
<1>F. Free(s)
  BY DEF close
<1>A. AddressFreed(s)
  BY <1>F DEF Free, AddressFreed, SocketType, isValid
<1>1. PICK fails \in BOOLEAN :
        /\ m_sock' = IF isValid(s) /\ ~fails THEN [m_sock EXCEPT ![s] = None] ELSE m_sock
        /\ file' = IF isValid(s) THEN [file EXCEPT ![m_sock[s]] = 0] ELSE file
        /\ closeFailed' = (closeFailed \/ fails)
        /\ fails => isValid(s)
  BY DEF close, Free
<1>2. s \in Sockets /\ m_sock[s] \in Numbers \cup {None}
  BY DEF SocketType
<1>3. m_sock' \in [Sockets -> Numbers \cup {None}]
  BY <1>1, <1>2 DEF SocketType
<1>4. file' \in [Numbers -> Nat]
  BY <1>1, <1>2 DEF SocketType, isValid
<1>5. closeFailed' \in BOOLEAN /\ (closeFailed => closeFailed')
  BY <1>1
<1>6. CASE fails
  BY <1>1, <1>3, <1>4, <1>5, <1>6, <1>A DEF close
<1>7. CASE ~fails
  <2>1. m_sock' = [m_sock EXCEPT ![s] = None]
    BY <1>1, <1>2, <1>7 DEF isValid, SocketType
  <2>2. GivesUp(s)
    BY <1>1, <2>1 DEF GivesUp
  <2>3. closeFailed' = closeFailed
    BY <1>1, <1>7 DEF SocketType
  <2> QED BY <1>3, <1>4, <1>5, <1>A, <2>2, <2>3 DEF close
<1> QED BY <1>6, <1>7

(* Once a ::close() has reported an error, only the types are claimed. *)
LEMMA AfterFailure ==
  ASSUME SocketType', closeFailed',
         \A f \in Fibers : call'[f] # None => call'[f].sock \in live'
  PROVE  SocketInv'
BY DEF SocketInv, HoldsOwn, NumbersAreHeld, LocalIsOwn

(* Steps that make at most one Socket and give it or an invalid one a       *)
(* number at most: what is left to show is what they do to the local        *)
(* addresses and to the fiber that makes them.                              *)
LEMMA OpeningStep ==
  ASSUME SocketInv, NEW s \in Sockets,
         UNCHANGED <<m_sock, file, files>> \/ \E n \in Numbers : TakesNumber(s, n),
         live' = live \cup {s}, closeFailed' = closeFailed
  PROVE  /\ live' \in SUBSET Sockets
         /\ m_sock' \in [Sockets -> Numbers \cup {None}]
         /\ files' \in Nat /\ file' \in [Numbers -> Nat]
         /\ closeFailed' \in BOOLEAN
         /\ \A r \in Sockets \ live' : m_sock'[r] = None
         /\ \A r \in Sockets \ {s} : m_sock'[r] = m_sock[r]
         /\ m_sock[s] # None => m_sock'[s] = m_sock[s]
         /\ NumbersAreHeld'
         /\ \A r \in live : closeFailed \/ m_sock[r] = None \/ FileOf(m_sock[r])' = FileOf(m_sock[r])
         /\ \A f \in Fibers :
              call[f] # None /\ call'[f] = call[f] =>
                call'[f].sock \in live' /\ (f \in closedUnder \/ closeFailed' \/ OnOwn(f)')
<1>0. SocketType /\ HoldsOwn
  BY DEF SocketInv
<1>1. live' \in SUBSET Sockets /\ closeFailed' \in BOOLEAN
  BY <1>0 DEF SocketType
<1>2. CASE UNCHANGED <<m_sock, file, files>>
  <2>1. NumbersAreHeld'
    BY <1>1, <1>2, KeepsHeld
  <2>2. ASSUME NEW f \in Fibers, call[f] # None, call'[f] = call[f]
        PROVE  call'[f].sock \in live' /\ (f \in closedUnder \/ closeFailed' \/ OnOwn(f)')
    BY <1>0, <1>2, <2>2, KeepsWaits DEF HoldsOwn
  <2> QED BY <1>0, <1>1, <1>2, <2>1, <2>2 DEF SocketType, FileOf
<1>3. CASE \E n \in Numbers : TakesNumber(s, n)
  <2>1. PICK n \in Numbers : TakesNumber(s, n)
    BY <1>3
  <2>2. /\ m_sock' \in [Sockets -> Numbers \cup {None}]
        /\ files' \in Nat /\ file' \in [Numbers -> Nat]
        /\ NumbersAreHeld'
        /\ ~closeFailed => \A r \in live : m_sock[r] # n
    BY <1>1, <2>1, TakesHeld
  <2>3. /\ m_sock[s] = None
        /\ \A r \in Sockets \ {s} : m_sock'[r] = m_sock[r]
        /\ \A m \in Numbers \ {n} : file'[m] = file[m]
    BY <1>0, <2>1 DEF TakesNumber, SocketType
  <2>4. \A r \in Sockets \ live' : m_sock'[r] = None
    BY <1>0, <2>3 DEF SocketType
  <2>5. ASSUME NEW r \in live, ~closeFailed, m_sock[r] # None
        PROVE  FileOf(m_sock[r])' = FileOf(m_sock[r])
    <3>1. r \in Sockets /\ r # s /\ m_sock[r] \in Numbers \ {n} /\ m_sock'[r] = m_sock[r]
      BY <1>0, <2>2, <2>3, <2>5 DEF SocketType
    <3> QED BY <2>3, <3>1 DEF FileOf
  <2>6. ASSUME NEW f \in Fibers, call[f] # None, call'[f] = call[f]
        PROVE  call'[f].sock \in live' /\ (f \in closedUnder \/ closeFailed' \/ OnOwn(f)')
    BY <1>0, <2>1, <2>6, TakesWaits DEF HoldsOwn
  <2> QED BY <1>1, <2>2, <2>3, <2>4, <2>5, <2>6
<1> QED BY <1>2, <1>3

(* Steps that close a Socket, or destroy one that no fiber holds in: the    *)
(* other Sockets and the fibers that hold in them keep what they have.      *)
LEMMA ClosingStep ==
  ASSUME SocketInv, NEW s \in live, GivesUp(s), closeFailed' = closeFailed,
         live' \in {live, live \ {s}}
  PROVE  /\ live' \in SUBSET Sockets
         /\ m_sock' \in [Sockets -> Numbers \cup {None}]
         /\ files' \in Nat /\ file' \in [Numbers -> Nat]
         /\ m_sock'[s] = None
         /\ \A r \in Sockets \ {s} : m_sock'[r] = m_sock[r]
         /\ NumbersAreHeld'
         /\ \A r \in live \ {s} : closeFailed \/ FileOf(m_sock[r])' = FileOf(m_sock[r])
         /\ \A f \in Fibers :
              call[f] # None /\ call'[f] = call[f] /\ call[f].sock # s =>
                call'[f].sock \in live' /\ (f \in closedUnder \/ closeFailed' \/ OnOwn(f)')
<1>0. SocketType /\ HoldsOwn
  BY DEF SocketInv
<1>1. live' \in SUBSET Sockets /\ files' \in Nat
  BY <1>0 DEF SocketType, GivesUp
<1>2. /\ m_sock' \in [Sockets -> Numbers \cup {None}]
      /\ file' \in [Numbers -> Nat]
      /\ NumbersAreHeld'
      /\ ~closeFailed => \A r \in live \ {s} : FileOf(m_sock[r])' = FileOf(m_sock[r])
  BY GivesUpHeld
<1>3. m_sock'[s] = None /\ \A r \in Sockets \ {s} : m_sock'[r] = m_sock[r]
  BY <1>0 DEF SocketType, GivesUp
<1>4. ASSUME NEW f \in Fibers, call[f] # None, call'[f] = call[f], call[f].sock # s
      PROVE  call'[f].sock \in live' /\ (f \in closedUnder \/ closeFailed' \/ OnOwn(f)')
  BY <1>0, <1>4, GivesUpWaits DEF HoldsOwn
<1> QED BY <1>1, <1>2, <1>3, <1>4

LEMMA IfInvalidEffect ==
  ASSUME SocketType, NEW s \in Sockets, NewSockIfInvalid(s)
  PROVE  UNCHANGED <<m_sock, file, files>> \/ \E n \in Numbers : TakesNumber(s, n)
BY NewSockEffect DEF NewSockIfInvalid, isValid, kernel

(* Since no two Sockets have one number, the file of every other Socket     *)
(* keeps its address.                                                       *)
LEMMA OthersKeepAddress ==
  ASSUME SocketInv, NumbersAreHeld', closeFailed' = closeFailed, NEW s \in Sockets,
         live \ {s} \subseteq live', m_sock'[s] # None => s \in live',
         \A r \in Sockets \ {s} : m_sock'[r] = m_sock[r],
         AddressOf(s), NEW r \in live \ {s}, ~closeFailed, m_sock[r] # None
  PROVE  address'[m_sock[r]] = address[m_sock[r]]
<1>0. SocketType /\ NumbersAreHeld /\ r \in Sockets
  BY DEF SocketInv, SocketType
<1>1. m_sock[r] \in Numbers /\ m_sock'[r] = m_sock[r] /\ r \in live'
  BY <1>0 DEF SocketType
<1>2. m_sock[r] # m_sock[s]
  BY <1>0, <1>1 DEF SocketType, NumbersAreHeld, isValid
<1>3. m_sock[r] # m_sock'[s]
  BY <1>0, <1>1 DEF NumbersAreHeld, isValid
<1> QED BY <1>1, <1>2, <1>3 DEF AddressOf

(* Only the Socket of the step may have changed the address it remembers;   *)
(* the others keep theirs, the file it is of and the address of this file.  *)
LEMMA LocalStep ==
  ASSUME SocketInv, NumbersAreHeld', NEW s \in Sockets, closeFailed' = closeFailed,
         live \ {s} \subseteq live', live' \subseteq live \cup {s},
         m_sock'[s] # None => s \in live', AddressOf(s),
         \A r \in Sockets \ {s} : m_sock'[r] = m_sock[r],
         \A r \in live \ {s} :
           /\ m_localAddress'[r] = m_localAddress[r]
           /\ r \in again => r \in again'
           /\ closeFailed \/ m_sock[r] = None \/ FileOf(m_sock[r])' = FileOf(m_sock[r]),
         s \in live' /\ m_sock'[s] # None /\ m_localAddress'[s] # None =>
           s \in again' \/ closeFailed \/ m_localAddress'[s] = Name(m_sock[s])'
  PROVE  LocalIsOwn'
<1>0. LocalIsOwn /\ live \subseteq Sockets
  BY DEF SocketInv, SocketType
<1> SUFFICES ASSUME NEW r \in live', m_sock'[r] # None, m_localAddress'[r] # None,
                    r \notin again', ~closeFailed
             PROVE  m_localAddress'[r] = Name(m_sock[r])'
  BY DEF LocalIsOwn, isValid
<1>1. CASE r = s
  BY <1>1
<1>2. CASE r # s
  <2>1. r \in live \ {s} /\ r \in Sockets
    BY <1>0, <1>2
  <2>2. m_sock'[r] = m_sock[r] /\ m_localAddress'[r] = m_localAddress[r] /\ r \notin again
    BY <2>1
  <2>3. m_localAddress[r] = Name(m_sock[r])
    BY <1>0, <2>1, <2>2 DEF LocalIsOwn, isValid
  <2>4. FileOf(m_sock[r])' = FileOf(m_sock[r])
    BY <2>1, <2>2
  <2>5. file'[m_sock[r]] = file[m_sock[r]]
    BY <2>2, <2>4 DEF FileOf
  <2>6. address'[m_sock[r]] = address[m_sock[r]]
    BY <2>1, <2>2, OthersKeepAddress
  <2> QED BY <2>2, <2>3, <2>5, <2>6 DEF Name
<1> QED BY <1>1, <1>2

(* The steps that leave the numbers alone: each fiber goes on holding,      *)
(* returns, or begins to hold.                                              *)
LEMMA QuietStep ==
  ASSUME SocketInv, UNCHANGED <<live, m_sock, file, files, closeFailed>>,
         call' \in [Fibers -> Call \cup {None}],
         \A g \in Fibers : \/ call'[g] = call[g] /\ (g \in closedUnder => g \in closedUnder')
                           \/ call'[g] = None
                           \/ call'[g].sock \in live /\ OnOwn(g)'
  PROVE  /\ NumbersAreHeld' /\ HoldsOwn'
         /\ live' \in SUBSET Sockets
         /\ m_sock' \in [Sockets -> Numbers \cup {None}]
         /\ files' \in Nat /\ file' \in [Numbers -> Nat]
         /\ closeFailed' \in BOOLEAN
<1>0. SocketType /\ HoldsOwn
  BY DEF SocketInv
<1>1. NumbersAreHeld'
  BY <1>0, KeepsHeld DEF SocketType
<1>2. \A g \in Fibers : call[g] # None /\ call'[g] = call[g] =>
        call'[g].sock \in live' /\ (g \in closedUnder \/ closeFailed' \/ OnOwn(g)')
  BY <1>0, KeepsWaits DEF HoldsOwn
<1>3. HoldsOwn'
  BY <1>2 DEF HoldsOwn
<1> QED BY <1>0, <1>1, <1>3 DEF SocketType

-----------------------------------------------------------------------------
(* Every step keeps the invariant. *)
LEMMA CreateStep ==
  ASSUME SocketInv, NEW s \in Sockets, CreateTCP(s) \/ CreateUDP(s)
  PROVE  SocketInv'
<1>0. SocketType /\ HoldsOwn /\ s \notin live /\ m_sock[s] = None /\ m_localAddress[s] = None
  BY DEF SocketInv, SocketType, CreateTCP, CreateUDP, Fresh
<1>1. /\ live' = live \cup {s}
      /\ UNCHANGED <<m_localAddress, address, call, closedUnder, again, closeFailed>>
  BY DEF CreateTCP, CreateUDP, Fresh, history
<1>2. UNCHANGED <<m_sock, file, files>> \/ \E n \in Numbers : TakesNumber(s, n)
  BY <1>0, NewSockEffect DEF CreateTCP, CreateUDP, kernel
<1>3. /\ live' \in SUBSET Sockets
      /\ m_sock' \in [Sockets -> Numbers \cup {None}]
      /\ files' \in Nat /\ file' \in [Numbers -> Nat]
      /\ closeFailed' \in BOOLEAN
      /\ \A r \in Sockets \ live' : m_sock'[r] = None
      /\ \A r \in Sockets \ {s} : m_sock'[r] = m_sock[r]
      /\ NumbersAreHeld'
      /\ \A r \in live : closeFailed \/ m_sock[r] = None \/ FileOf(m_sock[r])' = FileOf(m_sock[r])
      /\ \A f \in Fibers :
           call[f] # None /\ call'[f] = call[f] =>
             call'[f].sock \in live' /\ (f \in closedUnder \/ closeFailed' \/ OnOwn(f)')
  BY <1>1, <1>2, OpeningStep
<1>4. SocketType'
  BY <1>0, <1>1, <1>3 DEF SocketType
<1>5. HoldsOwn'
  BY <1>1, <1>3 DEF HoldsOwn
<1>A. AddressOf(s)
  BY <1>0, <1>1 DEF AddressOf, SocketType
<1>6. LocalIsOwn'
  BY <1>0, <1>1, <1>3, <1>A, LocalStep DEF SocketType
<1> QED BY <1>3, <1>4, <1>5, <1>6 DEF SocketInv

LEMMA DestroyStep ==
  ASSUME SocketInv, NEW s \in Sockets, Destroy(s)
  PROVE  SocketInv'
<1>0. SocketType /\ HoldsOwn /\ s \in live
  BY DEF SocketInv, Destroy
<1>1. /\ live' = live \ {s} /\ GivesUp(s)
      /\ m_localAddress' = [m_localAddress EXCEPT ![s] = None]
      /\ again' = again \ {s} /\ UNCHANGED <<call, closedUnder, closeFailed>>
  BY DEF Destroy, GivesUp, Free
<1>2. /\ live' \in SUBSET Sockets
      /\ m_sock' \in [Sockets -> Numbers \cup {None}]
      /\ files' \in Nat /\ file' \in [Numbers -> Nat]
      /\ m_sock'[s] = None
      /\ \A r \in Sockets \ {s} : m_sock'[r] = m_sock[r]
      /\ NumbersAreHeld'
      /\ \A r \in live \ {s} : closeFailed \/ FileOf(m_sock[r])' = FileOf(m_sock[r])
      /\ \A f \in Fibers :
           call[f] # None /\ call'[f] = call[f] /\ call[f].sock # s =>
             call'[f].sock \in live' /\ (f \in closedUnder \/ closeFailed' \/ OnOwn(f)')
  BY <1>0, <1>1, ClosingStep
<1>3. \A f \in Fibers : call[f] # None => call[f].sock # s
  BY DEF Destroy, Waiting
<1>A. AddressOf(s)
  BY <1>0 DEF Destroy, Free, AddressOf, SocketType, isValid
<1>4. SocketType'
  BY <1>0, <1>1, <1>2, <1>A DEF SocketType, AddressOf
<1>5. HoldsOwn'
  BY <1>1, <1>2, <1>3 DEF HoldsOwn
<1>6. LocalIsOwn'
  BY <1>0, <1>1, <1>2, <1>A, LocalStep DEF SocketType
<1> QED BY <1>2, <1>4, <1>5, <1>6 DEF SocketInv

(* close(), called by a fiber that returns from its call or by any other *)
LEMMA CloseStep ==
  ASSUME SocketInv, NEW s \in live, NEW by, close(s, by), files' = files,
         UNCHANGED <<live, m_localAddress, again>>,
         call' \in [Fibers -> Call \cup {None}],
         \A f \in Fibers : call'[f] = call[f] \/ call'[f] = None,
         \A f \in Fibers : f = by => call'[f] = None
  PROVE  SocketInv'
<1>0. SocketType /\ HoldsOwn
  BY DEF SocketInv
<1>1. /\ closeFailed' \in BOOLEAN
      /\ closeFailed => closeFailed'
      /\ m_sock' \in [Sockets -> Numbers \cup {None}]
      /\ file' \in [Numbers -> Nat]
      /\ AddressFreed(s)
      /\ closeFailed' \/ (GivesUp(s) /\ closeFailed' = closeFailed)
      /\ closedUnder' = (closedUnder \cup Waiting(s)) \ {by}
  BY <1>0, CloseEffect
<1>2. \A r \in Sockets \ live : m_sock'[r] = None
  BY <1>0 DEF close, SocketType
<1>3. SocketType'
  BY <1>0, <1>1, <1>2 DEF SocketType, AddressFreed
<1>4. \A f \in Fibers : call'[f] # None => call'[f].sock \in live'
  BY <1>0 DEF HoldsOwn
<1>5. CASE closeFailed'
  BY <1>3, <1>4, <1>5, AfterFailure
<1>6. CASE GivesUp(s) /\ closeFailed' = closeFailed
  <2>1. /\ m_sock'[s] = None
        /\ \A r \in Sockets \ {s} : m_sock'[r] = m_sock[r]
        /\ NumbersAreHeld'
        /\ \A r \in live \ {s} : closeFailed \/ FileOf(m_sock[r])' = FileOf(m_sock[r])
        /\ \A f \in Fibers :
             call[f] # None /\ call'[f] = call[f] /\ call[f].sock # s =>
               call'[f].sock \in live' /\ (f \in closedUnder \/ closeFailed' \/ OnOwn(f)')
    BY <1>6, ClosingStep
  <2>2. HoldsOwn'
    <3> SUFFICES ASSUME NEW f \in Fibers, call'[f] # None
                 PROVE  call'[f].sock \in live' /\ (f \in closedUnder' \/ closeFailed' \/ OnOwn(f)')
      BY DEF HoldsOwn
    <3>1. call'[f] = call[f] /\ f # by
      OBVIOUS
    <3>2. CASE call[f].sock = s
      BY <1>1, <1>4, <3>1, <3>2 DEF Waiting
    <3>3. CASE call[f].sock # s
      BY <1>1, <2>1, <3>1, <3>3
    <3> QED BY <3>2, <3>3
  <2>A. AddressOf(s)
    BY <1>1 DEF AddressOf, AddressFreed
  <2>3. LocalIsOwn'
    BY <1>0, <1>6, <2>1, <2>A, LocalStep DEF SocketType
  <2> QED BY <1>3, <2>1, <2>2, <2>3 DEF SocketInv
<1> QED BY <1>1, <1>5, <1>6

LEMMA BindStep ==
  ASSUME SocketInv, NEW s \in Sockets, Bind(s)
  PROVE  SocketInv'
<1>0. SocketType /\ HoldsOwn /\ LocalIsOwn /\ s \in live /\ live' = live \cup {s}
  BY DEF SocketInv, Bind
<1>1. UNCHANGED <<live, call, closedUnder, closeFailed>>
  BY DEF Bind
<1>2. UNCHANGED <<m_sock, file, files>> \/ \E n \in Numbers : TakesNumber(s, n)
  BY <1>0, IfInvalidEffect DEF Bind
<1>3. /\ live' \in SUBSET Sockets
      /\ m_sock' \in [Sockets -> Numbers \cup {None}]
      /\ files' \in Nat /\ file' \in [Numbers -> Nat]
      /\ closeFailed' \in BOOLEAN
      /\ \A r \in Sockets \ live' : m_sock'[r] = None
      /\ \A r \in Sockets \ {s} : m_sock'[r] = m_sock[r]
      /\ m_sock[s] # None => m_sock'[s] = m_sock[s]
      /\ NumbersAreHeld'
      /\ \A r \in live : closeFailed \/ m_sock[r] = None \/ FileOf(m_sock[r])' = FileOf(m_sock[r])
      /\ \A f \in Fibers :
           call[f] # None /\ call'[f] = call[f] =>
             call'[f].sock \in live' /\ (f \in closedUnder \/ closeFailed' \/ OnOwn(f)')
  BY <1>0, <1>1, <1>2, OpeningStep
<1>S. s \in Sockets /\ (m_sock'[s] # None => m_sock'[s] \in Numbers)
  BY <1>3
<1>4. \/ /\ m_sock[s] = None => Keeps(s)
         /\ again \subseteq again' /\ UNCHANGED <<m_localAddress, address>>
      \/ Keeps(s) /\ UNCHANGED m_localAddress /\ m_sock'[s] # None /\ Rename(m_sock'[s])
      \/ /\ m_sock[s] = None => Keeps(s)
         /\ again \subseteq again' /\ UNCHANGED address /\ m_sock'[s] # None
         /\ m_localAddress' = [m_localAddress EXCEPT
              ![s] = IF @ = None THEN Name(m_sock[s])' ELSE @]
  BY DEF Bind, KeepsIfOpened, Keeps, FileOf, isValid
<1>5. m_sock'[s] # None => Name(m_sock[s])' \in Nat \X Nat
  <2>1. address' \in [Numbers -> Nat]
    BY <1>0, <1>4, <1>S DEF Rename, SocketType
  <2> QED BY <1>3, <1>S, <2>1 DEF Name
<1>A. AddressOf(s)
  BY <1>0, <1>4, <1>S DEF AddressOf, Rename, SocketType
<1>6. /\ m_localAddress' \in [Sockets -> (Nat \X Nat) \cup {None}]
      /\ \A r \in Sockets \ {s} : m_localAddress'[r] = m_localAddress[r]
      /\ m_localAddress'[s] = m_localAddress[s] \/
         (m_localAddress[s] = None /\ m_localAddress'[s] = Name(m_sock[s])')
  BY <1>0, <1>4, <1>5 DEF SocketType
<1>7. SocketType'
  BY <1>0, <1>1, <1>3, <1>6, <1>A DEF SocketType, AddressOf
<1>8. HoldsOwn'
  BY <1>1, <1>3 DEF HoldsOwn
<1>9. again \subseteq again'
  BY <1>4 DEF Keeps
<1>10. ASSUME m_sock'[s] # None, m_localAddress'[s] # None, s \notin again', ~closeFailed
       PROVE  m_localAddress'[s] = Name(m_sock[s])'
  <2>1. CASE m_localAddress[s] = None
    BY <1>6, <1>10, <2>1
  <2>2. CASE m_localAddress[s] # None
    <3>1. ~Keeps(s)
      BY <1>10, <2>2 DEF Keeps
    <3>2. m_sock[s] # None /\ UNCHANGED address /\ m_sock'[s] = m_sock[s]
      BY <1>3, <1>4, <3>1
    <3>3. FileOf(m_sock[s])' = FileOf(m_sock[s])
      BY <1>0, <1>3, <1>10, <3>2
    <3>4. m_localAddress[s] = Name(m_sock[s])
      BY <1>0, <1>9, <1>10, <2>2, <3>2 DEF LocalIsOwn, isValid
    <3>5. m_localAddress'[s] = m_localAddress[s]
      BY <1>6, <2>2
    <3>6. file'[m_sock'[s]] = file[m_sock[s]]
      BY <3>2, <3>3 DEF FileOf
    <3> QED BY <3>2, <3>4, <3>5, <3>6 DEF Name
  <2> QED BY <2>1, <2>2
<1>11. LocalIsOwn'
  BY <1>0, <1>1, <1>3, <1>6, <1>9, <1>10, <1>A, LocalStep DEF SocketType
<1> QED BY <1>3, <1>7, <1>8, <1>11 DEF SocketInv

(* connect() and reconnect(): the step up to the hold *)
LEMMA ConnectStep ==
  ASSUME SocketInv, NEW f \in Fibers, NEW s \in live, NEW a, ConnectWith(f, s, a),
         Connects(f, s) \/ UNCHANGED <<address, call, closedUnder>>,
         \/ /\ m_localAddress' = m_localAddress
            /\ Keeps(s) \/ (KeepsIfOpened(s) /\ UNCHANGED address)
         \/ /\ again' = again \ {s}
            /\ m_localAddress' = [m_localAddress EXCEPT ![s] = None]
  PROVE  SocketInv'
<1>0. SocketType /\ HoldsOwn /\ LocalIsOwn /\ s \in Sockets /\ live' = live \cup {s}
  BY DEF SocketInv, SocketType, ConnectWith
<1>1. UNCHANGED <<live, closeFailed>>
  BY DEF ConnectWith
<1>2. UNCHANGED <<m_sock, file, files>> \/ \E n \in Numbers : TakesNumber(s, n)
  BY <1>0, IfInvalidEffect DEF ConnectWith
<1>3. /\ live' \in SUBSET Sockets
      /\ m_sock' \in [Sockets -> Numbers \cup {None}]
      /\ files' \in Nat /\ file' \in [Numbers -> Nat]
      /\ closeFailed' \in BOOLEAN
      /\ \A r \in Sockets \ live' : m_sock'[r] = None
      /\ \A r \in Sockets \ {s} : m_sock'[r] = m_sock[r]
      /\ m_sock[s] # None => m_sock'[s] = m_sock[s]
      /\ NumbersAreHeld'
      /\ \A r \in live : closeFailed \/ m_sock[r] = None \/ FileOf(m_sock[r])' = FileOf(m_sock[r])
      /\ \A g \in Fibers :
           call[g] # None /\ call'[g] = call[g] =>
             call'[g].sock \in live' /\ (g \in closedUnder \/ closeFailed' \/ OnOwn(g)')
  BY <1>0, <1>1, <1>2, OpeningStep
<1>4. call' \in [Fibers -> Call \cup {None}] /\ HoldsOwn'
  <2>1. CASE UNCHANGED <<call, closedUnder>>
    BY <1>0, <1>3, <2>1 DEF HoldsOwn, SocketType
  <2>2. CASE m_sock'[s] # None /\ Hold(f, "connect", s, m_sock'[s], file'[m_sock'[s]])
    <3>1. FileOf(m_sock[s])' = file'[m_sock'[s]]
      BY <2>2 DEF FileOf
    <3>2. Hold(f, "connect", s, m_sock'[s], FileOf(m_sock[s])')
      BY <2>2, <3>1
    <3>3. m_sock'[s] \in Numbers \cup {None} /\ file' \in [Numbers -> Nat]
      BY <1>0, <1>3
    <3>4. /\ call' \in [Fibers -> Call \cup {None}]
          /\ call'[f] # None => call'[f].sock = s /\ OnOwn(f)'
          /\ \A g \in Fibers \ {f} : call'[g] = call[g]
      BY <1>0, <3>2, <3>3, NewWaits
    <3>5. \A g \in Fibers \ {f} : g \in closedUnder => g \in closedUnder'
      BY <2>2 DEF Hold
    <3> QED BY <1>1, <1>3, <3>4, <3>5 DEF HoldsOwn
  <2> QED BY <2>1, <2>2 DEF Connects
<1>A. AddressOf(s)
  <2>1. m_sock'[s] # None => m_sock'[s] \in Numbers
    BY <1>0, <1>3
  <2> QED BY <1>0, <2>1 DEF AddressOf, Connects, Rename, SocketType
<1>5. /\ m_localAddress' \in [Sockets -> (Nat \X Nat) \cup {None}]
      /\ \A r \in Sockets \ {s} : /\ m_localAddress'[r] = m_localAddress[r]
                                  /\ r \in again => r \in again'
      /\ m_localAddress'[s] # None =>
           /\ m_localAddress'[s] = m_localAddress[s]
           /\ s \in again => s \in again'
           /\ s \in again' \/ (m_sock[s] # None /\ UNCHANGED address)
  BY <1>0 DEF SocketType, Keeps, KeepsIfOpened, isValid
<1>6. SocketType'
  BY <1>0, <1>1, <1>3, <1>4, <1>5, <1>A DEF SocketType, AddressOf
<1>7. ASSUME m_sock'[s] # None, m_localAddress'[s] # None, s \notin again', ~closeFailed
      PROVE  m_localAddress'[s] = Name(m_sock[s])'
  <2>1. /\ m_localAddress'[s] = m_localAddress[s] /\ s \notin again
        /\ m_sock[s] # None /\ UNCHANGED address /\ m_sock'[s] = m_sock[s]
    BY <1>3, <1>5, <1>7
  <2>2. m_localAddress[s] = Name(m_sock[s])
    BY <1>0, <1>7, <2>1 DEF LocalIsOwn, isValid
  <2>3. FileOf(m_sock[s])' = FileOf(m_sock[s])
    BY <1>3, <1>7, <2>1
  <2>4. file'[m_sock'[s]] = file[m_sock[s]]
    BY <2>1, <2>3 DEF FileOf
  <2> QED BY <2>1, <2>2, <2>4 DEF Name
<1>8. LocalIsOwn'
  BY <1>0, <1>1, <1>3, <1>5, <1>7, <1>A, LocalStep DEF SocketType
<1> QED BY <1>3, <1>4, <1>6, <1>8 DEF SocketInv

LEMMA AcceptDoneStep ==
  ASSUME SocketInv, NEW f \in Fibers, NEW r \in Sockets, AcceptDone(f, r)
  PROVE  SocketInv'
<1>0. SocketType /\ HoldsOwn /\ r \notin live /\ m_sock[r] = None
  BY DEF SocketInv, SocketType, AcceptDone
<1>1. live' = live \cup {r} /\ UNCHANGED <<again, closeFailed>>
  BY DEF AcceptDone
<1>2. PICK n \in Numbers :
        /\ Open(n) /\ m_sock' = [m_sock EXCEPT ![r] = n]
        /\ m_localAddress' = [m_localAddress EXCEPT ![r] = Name(n)'] /\ UNCHANGED address
  BY DEF AcceptDone
<1>3. TakesNumber(r, n)
  BY <1>0, <1>2, SocketAssumption DEF Open, TakesNumber
<1>4. /\ live' \in SUBSET Sockets
      /\ m_sock' \in [Sockets -> Numbers \cup {None}]
      /\ files' \in Nat /\ file' \in [Numbers -> Nat]
      /\ closeFailed' \in BOOLEAN
      /\ \A s \in Sockets \ live' : m_sock'[s] = None
      /\ \A s \in Sockets \ {r} : m_sock'[s] = m_sock[s]
      /\ NumbersAreHeld'
      /\ \A s \in live : closeFailed \/ m_sock[s] = None \/ FileOf(m_sock[s])' = FileOf(m_sock[s])
      /\ \A g \in Fibers :
           call[g] # None /\ call'[g] = call[g] =>
             call'[g].sock \in live' /\ (g \in closedUnder \/ closeFailed' \/ OnOwn(g)')
  BY <1>1, <1>3, OpeningStep
<1>5. /\ call' = [call EXCEPT ![f] = None] /\ closedUnder' = closedUnder \ {f}
  BY DEF AcceptDone, Return, Forget
<1>6. /\ call' \in [Fibers -> Call \cup {None}] /\ call'[f] = None
      /\ \A g \in Fibers \ {f} : call'[g] = call[g]
  BY <1>0, <1>5 DEF SocketType
<1>A. AddressOf(r) /\ Name(n)' \in Nat \X Nat
  BY <1>0, <1>2, <1>4 DEF AddressOf, SocketType, Name
<1>7. SocketType'
  BY <1>0, <1>1, <1>2, <1>4, <1>6, <1>A DEF SocketType, AddressOf
<1>8. HoldsOwn'
  BY <1>4, <1>5, <1>6 DEF HoldsOwn
<1>9. m_sock'[r] = n
  BY <1>0, <1>3 DEF TakesNumber, SocketType
<1>10. m_localAddress'[r] = Name(m_sock[r])'
  BY <1>0, <1>2, <1>9 DEF Name, SocketType
<1>11. LocalIsOwn'
  BY <1>0, <1>1, <1>2, <1>4, <1>10, <1>A, LocalStep DEF SocketType
<1> QED BY <1>4, <1>7, <1>8, <1>11 DEF SocketInv

(* getsockname fills the cache with the address of the present file. *)
LEMMA LocalOfIsOwn ==
  ASSUME SocketInv, NEW s \in live, UNCHANGED <<live, m_sock, file, address, again, closeFailed>>,
         m_localAddress' = [m_localAddress EXCEPT ![s] = LocalOf(s)]
  PROVE  /\ m_localAddress' \in [Sockets -> (Nat \X Nat) \cup {None}]
         /\ \A r \in Sockets \ live : m_localAddress'[r] = None
         /\ LocalIsOwn'
<1>0. SocketType /\ LocalIsOwn /\ s \in Sockets
  BY DEF SocketInv, SocketType
<1>1. m_sock[s] # None => Name(m_sock[s]) \in Nat \X Nat
  BY <1>0 DEF SocketType, Name
<1>2. /\ LocalOf(s) \in (Nat \X Nat) \cup {None}
      /\ LocalOf(s) = m_localAddress[s] \/ LocalOf(s) = Name(m_sock[s])
  BY <1>0, <1>1 DEF LocalOf, SocketType, FileOf
<1>3. /\ m_localAddress' \in [Sockets -> (Nat \X Nat) \cup {None}]
      /\ m_localAddress'[s] = LocalOf(s)
      /\ \A r \in Sockets \ {s} : m_localAddress'[r] = m_localAddress[r]
  BY <1>0, <1>2 DEF SocketType
<1>4. \A r \in Sockets \ live : m_localAddress'[r] = None
  BY <1>0, <1>3 DEF SocketType
<1>5. \A r \in live : Name(m_sock[r])' = Name(m_sock[r])
  BY DEF Name
<1>6. LocalIsOwn'
  BY <1>0, <1>2, <1>3, <1>5 DEF LocalIsOwn, isValid, SocketType
<1> QED BY <1>3, <1>4, <1>6

(* Steps of the fibers that leave the Sockets alone *)
LEMMA CallStep ==
  ASSUME SocketInv, UNCHANGED <<live, m_sock, m_localAddress, file, files, address, again, closeFailed>>,
         call' \in [Fibers -> Call \cup {None}],
         \A g \in Fibers : \/ call'[g] = call[g] /\ (g \in closedUnder => g \in closedUnder')
                           \/ call'[g] = None
                           \/ call'[g].sock \in live /\ OnOwn(g)'
  PROVE  SocketInv'
<1>0. SocketType /\ LocalIsOwn
  BY DEF SocketInv
<1>1. /\ NumbersAreHeld' /\ HoldsOwn'
      /\ live' \in SUBSET Sockets
      /\ m_sock' \in [Sockets -> Numbers \cup {None}]
      /\ files' \in Nat /\ file' \in [Numbers -> Nat]
      /\ closeFailed' \in BOOLEAN
  BY QuietStep
<1>2. SocketType'
  BY <1>0, <1>1 DEF SocketType
<1>3. LocalIsOwn'
  BY <1>0 DEF LocalIsOwn, isValid, Name
<1> QED BY <1>1, <1>2, <1>3 DEF SocketInv

(* accept(), send() and recv() up to the hold *)
LEMMA HoldStep ==
  ASSUME SocketInv, NEW f \in Fibers, NEW s \in live, NEW op \in {"accept", "io"},
         Hold(f, op, s, m_sock[s], FileOf(m_sock[s])),
         UNCHANGED <<live, m_sock, m_localAddress, file, files, address, again, closeFailed>>
  PROVE  SocketInv'
<1>0. SocketType /\ s \in Sockets
  BY DEF SocketInv, SocketType
<1>1. Hold(f, op, s, m_sock'[s], FileOf(m_sock[s])')
  BY DEF FileOf
<1>2. m_sock'[s] \in Numbers \cup {None} /\ file' \in [Numbers -> Nat]
  BY <1>0 DEF SocketType
<1>3. /\ call' \in [Fibers -> Call \cup {None}]
      /\ call'[f] # None => call'[f].sock = s /\ OnOwn(f)'
      /\ \A g \in Fibers \ {f} : call'[g] = call[g]
  BY <1>0, <1>1, <1>2, NewWaits
<1>4. closedUnder' = closedUnder \ {f}
  BY DEF Hold
<1> QED BY <1>3, <1>4, CallStep

(* A fiber that returns leaves every other fiber as it was. *)
LEMMA ReturnCalls ==
  ASSUME SocketType, NEW f \in Fibers, Return(f)
  PROVE  /\ call' \in [Fibers -> Call \cup {None}] /\ call'[f] = None
         /\ \A g \in Fibers \ {f} : call'[g] = call[g]
BY DEF Return, SocketType

LEMMA SocketInvStep ==
  ASSUME SocketInv, [Next]_vars
  PROVE  SocketInv'
<1>0. SocketType /\ HoldsOwn
  BY DEF SocketInv
<1>1. ASSUME NEW s \in Sockets, Close(s) PROVE SocketInv'
  <2>1. /\ s \in live /\ close(s, None)
        /\ UNCHANGED <<live, m_localAddress, files, call, again>>
    BY <1>1 DEF Close
  <2>2. call' \in [Fibers -> Call \cup {None}] /\ None \notin Fibers
    BY <1>0, <2>1, SocketAssumption DEF SocketType
  <2> QED BY <2>1, <2>2, CloseStep
<1>2. ASSUME NEW s \in Sockets, Listen(s) PROVE SocketInv'
  <2>1. /\ UNCHANGED <<live, m_sock, m_localAddress, file, files, address, again, closeFailed>>
        /\ UNCHANGED <<call, closedUnder>>
    BY <1>2 DEF Listen, object, history
  <2> QED BY <1>0, <2>1, CallStep DEF SocketType
<1>3. ASSUME NEW s \in live, m_localAddress' = [m_localAddress EXCEPT ![s] = LocalOf(s)],
             UNCHANGED <<live, m_sock, file, files, address, again, closeFailed>>,
             call' \in [Fibers -> Call \cup {None}],
             \A g \in Fibers : \/ call'[g] = call[g] /\ (g \in closedUnder => g \in closedUnder')
                               \/ call'[g] = None
      PROVE  SocketInv'
  <2>1. /\ m_localAddress' \in [Sockets -> (Nat \X Nat) \cup {None}]
        /\ \A r \in Sockets \ live : m_localAddress'[r] = None
        /\ LocalIsOwn'
    BY <1>3, LocalOfIsOwn
  <2>2. /\ NumbersAreHeld' /\ HoldsOwn'
        /\ live' \in SUBSET Sockets
        /\ m_sock' \in [Sockets -> Numbers \cup {None}]
        /\ files' \in Nat /\ file' \in [Numbers -> Nat]
        /\ closeFailed' \in BOOLEAN
    BY <1>3, QuietStep
  <2>3. SocketType'
    BY <1>0, <1>3, <2>1, <2>2 DEF SocketType
  <2> QED BY <2>1, <2>2, <2>3 DEF SocketInv
<1>4. ASSUME NEW s \in Sockets, getLocalAddress(s) PROVE SocketInv'
  <2>1. /\ s \in live /\ m_localAddress' = [m_localAddress EXCEPT ![s] = LocalOf(s)]
        /\ UNCHANGED <<live, m_sock, file, files, address, again, closeFailed>>
        /\ UNCHANGED <<call, closedUnder>>
    BY <1>4 DEF getLocalAddress, kernel, history
  <2> QED BY <1>0, <1>3, <2>1 DEF SocketType
<1>5. ASSUME NEW f \in Fibers, ConnectDone(f) PROVE SocketInv'
  <2>1. call[f].sock \in live
    BY <1>0, <1>5 DEF ConnectDone, HoldsOwn
  <2>2. /\ m_localAddress' = [m_localAddress EXCEPT ![call[f].sock] = LocalOf(call[f].sock)]
        /\ UNCHANGED <<live, m_sock, file, files, address, again, closeFailed>>
        /\ Return(f) /\ closedUnder' = closedUnder \ {f}
    BY <1>5 DEF ConnectDone, kernel, Forget
  <2>3. /\ call' \in [Fibers -> Call \cup {None}] /\ call'[f] = None
        /\ \A g \in Fibers \ {f} : call'[g] = call[g]
    BY <1>0, <2>2, ReturnCalls
  <2> QED BY <1>3, <2>1, <2>2, <2>3
<1>6. ASSUME NEW f \in Fibers, ConnectFails(f) PROVE SocketInv'
  <2>1. call[f].sock \in live
    BY <1>0, <1>6 DEF ConnectFails, HoldsOwn
  <2>2. /\ close(call[f].sock, f) /\ Return(f)
        /\ UNCHANGED <<live, m_localAddress, files, again>>
    BY <1>6 DEF ConnectFails
  <2>3. /\ call' \in [Fibers -> Call \cup {None}] /\ call'[f] = None
        /\ \A g \in Fibers \ {f} : call'[g] = call[g]
    BY <1>0, <2>2, ReturnCalls
  <2> QED BY <2>1, <2>2, <2>3, CloseStep
<1>7. ASSUME NEW f \in Fibers, Returns(f) PROVE SocketInv'
  <2>1. /\ Return(f) /\ closedUnder' = closedUnder \ {f}
        /\ UNCHANGED <<live, m_sock, m_localAddress, file, files, address, again, closeFailed>>
    BY <1>7 DEF Returns, Forget, object, kernel
  <2>2. /\ call' \in [Fibers -> Call \cup {None}] /\ call'[f] = None
        /\ \A g \in Fibers \ {f} : call'[g] = call[g]
    BY <1>0, <2>1, ReturnCalls
  <2> QED BY <2>1, <2>2, CallStep
<1>8. ASSUME NEW f \in Fibers, NEW s \in Sockets, Accept(f, s) \/ Transfer(f, s) PROVE SocketInv'
  <2>1. s \in live /\ \E op \in {"accept", "io"} : Hold(f, op, s, m_sock[s], FileOf(m_sock[s]))
    BY <1>8 DEF Accept, Transfer
  <2>2. UNCHANGED <<live, m_sock, m_localAddress, file, files, address, again, closeFailed>>
    BY <1>8 DEF Accept, Transfer, object, kernel
  <2> QED BY <2>1, <2>2, HoldStep
<1>9. ASSUME NEW f \in Fibers, NEW s \in Sockets, NEW a \in Addresses, Connect(f, s, a)
      PROVE  SocketInv'
  <2>1. Connects(f, s) \/ UNCHANGED <<address, call, closedUnder>>
    BY <1>9 DEF Connect
  <2>2. /\ s \in live /\ ConnectWith(f, s, a) /\ m_localAddress' = m_localAddress
        /\ Keeps(s) \/ (KeepsIfOpened(s) /\ UNCHANGED address)
    BY <1>9 DEF Connect
  <2> QED BY <2>1, <2>2, ConnectStep
<1>10. ASSUME NEW f \in Fibers, NEW s \in Sockets, Reconnect(f, s) PROVE SocketInv'
  BY <1>10, ConnectStep DEF Reconnect
<1>11. CASE UNCHANGED vars
  <2>1. /\ UNCHANGED <<live, m_sock, m_localAddress, file, files, address, again, closeFailed>>
        /\ UNCHANGED <<call, closedUnder>>
    BY <1>11 DEF vars
  <2> QED BY <1>0, <2>1, CallStep DEF SocketType
<1> QED
  BY CreateStep, DestroyStep, BindStep, AcceptDoneStep,
     <1>1, <1>2, <1>4, <1>5, <1>6, <1>7, <1>8, <1>9, <1>10, <1>11 DEF Next

LEMMA SocketInvAlways == Spec => []SocketInv
<1>1. SocketInv /\ [Next]_vars => SocketInv'
  BY SocketInvStep
<1> QED BY SocketInvInit, <1>1, PTL DEF Spec

(* Until a ::close() reports an error, the open numbers are exactly those   *)
(* that Sockets hold and each has one owner, however fibers connect,        *)
(* accept, close and destroy the Sockets they share.                        *)
THEOREM NumbersHaveOneOwner == Spec => []NumbersAreHeld
<1>1. SocketInv => NumbersAreHeld
  BY DEF SocketInv
<1> QED BY SocketInvAlways, <1>1, PTL

(* A fiber in connect(), accept(), send() or recv() goes on with the file   *)
(* it began with, unless its own Socket was closed in the meantime.         *)
THEOREM CallsStayOnTheirFile == Spec => []WaitsOnOwn
<1>1. SocketInv => WaitsOnOwn
  BY DEF SocketInv, HoldsOwn, OnOwn, WaitsOnOwn
<1> QED BY SocketInvAlways, <1>1, PTL

(* The address that getLocalAddress() remembers is the one the present file *)
(* has now, but for a Socket that bind() or connect() opened, bound or      *)
(* connected while it remembered an older one.                              *)
THEOREM LocalAddressIsPresent == Spec => []LocalIsOwn
<1>1. SocketInv => LocalIsOwn
  BY DEF SocketInv
<1> QED BY SocketInvAlways, <1>1, PTL

-----------------------------------------------------------------------------
(* The texts that addresses are made from                                  *)

(* memchr finds a place when it is the first with the character.            *)
LEMMA MemchrFinds ==
  ASSUME NEW C, NEW s \in Seq(C), NEW c, NEW from \in Nat, NEW k \in from..Len(s),
         s[k] = c, \A j \in from..(k - 1) : s[j] # c
  PROVE  memchr(s, c, from) = k
<1> DEFINE At == {i \in from..Len(s) : s[i] = c}
<1>1. Len(s) \in Nat  OBVIOUS
<1>2. k \in At /\ At # {}  OBVIOUS
<1>3. \A j \in At : j \in Int /\ k <= j  BY <1>1, SMT
<1>4. \A i \in At : (\A j \in At : i <= j) => i = k  BY <1>1, <1>2, <1>3, SMT
<1>5. Min(At) = k  
  <2> HIDE DEF At
  <2>1. (CHOOSE x \in At : \A y \in At : x <= y) = k  BY <1>2, <1>3, <1>4
  <2> QED BY <2>1 DEF Min
<1> QED BY <1>2, <1>5 DEF memchr

(* memchr answers NULL when the character does not follow.                  *)
LEMMA MemchrMisses ==
  ASSUME NEW C, NEW s \in Seq(C), NEW c, NEW from \in Nat,
         \A j \in from..Len(s) : s[j] # c
  PROVE  memchr(s, c, from) = 0
BY DEF memchr


(* A stretch of a text that has the characters of t is t. *)
LEMMA StretchIs ==
  ASSUME NEW C, NEW s \in Seq(C), NEW t \in Seq(C), NEW a \in Nat \ {0}, NEW b \in Int,
         b = a + Len(t) - 1, b <= Len(s), \A i \in 1..Len(t) : s[a - 1 + i] = t[i]
  PROVE  SubSeq(s, a, b) = t
<1>1. Len(s) \in Nat /\ Len(t) \in Nat  OBVIOUS
<1>2. SubSeq(s, a, b) = [i \in 1..(b - a + 1) |-> s[i + a - 1]]  BY <1>1, SMTT(30)
<1>3. b - a + 1 = Len(t)  BY <1>1
<1>4. \A i \in 1..Len(t) : i + a - 1 = a - 1 + i  BY <1>1
<1>5. t = [i \in 1..Len(t) |-> t[i]]  OBVIOUS
<1> QED BY <1>2, <1>3, <1>4, <1>5, SMTT(30)

(* The characters of two texts that are joined. *)
LEMMA ConcatAt ==
  ASSUME NEW C, NEW s \in Seq(C), NEW t \in Seq(C)
  PROVE  /\ s \o t \in Seq(C) /\ Len(s \o t) = Len(s) + Len(t)
         /\ \A i \in 1..Len(s) : (s \o t)[i] = s[i]
         /\ \A i \in 1..Len(t) : (s \o t)[Len(s) + i] = t[i]
OBVIOUS

(* A text of one character. *)
LEMMA OneCharacter ==
  ASSUME NEW C, NEW c \in C
  PROVE  <<c>> \in Seq(C) /\ Len(<<c>>) = 1 /\ <<c>>[1] = c
OBVIOUS

(* The characters of a host with its service. *)
LEMMA JoinedAt ==
  ASSUME NEW C, ":" \in C, NEW w \in Seq(C), NEW service \in Seq(C)
  PROVE  /\ Join(w, service) \in Seq(C)
         /\ \A i \in 1..Len(w) : Join(w, service)[i] = w[i]
         /\ service = NULL => Len(Join(w, service)) = Len(w)
         /\ service # NULL =>
              /\ Len(Join(w, service)) = Len(w) + 1 + Len(service)
              /\ Join(w, service)[Len(w) + 1] = ":"
              /\ \A i \in 1..Len(service) : Join(w, service)[Len(w) + 1 + i] = service[i]
<1>1. CASE service = NULL  BY <1>1 DEF Join
<1>2. CASE service # NULL
  <2>1. Len(w) \in Nat /\ Len(service) \in Nat  OBVIOUS
  <2> DEFINE front == w \o <<":">>
  <2>2. <<":">> \in Seq(C) /\ Len(<<":">>) = 1 /\ <<":">>[1] = ":"  BY OneCharacter
  <2>3. /\ front \in Seq(C) /\ Len(front) = Len(w) + 1
        /\ (\A i \in 1..Len(w) : front[i] = w[i]) /\ front[Len(w) + 1] = ":"
    BY <2>2, ConcatAt
  <2>4. Join(w, service) = front \o service  BY <1>2 DEF Join
  <2> HIDE DEF front
  <2>5. /\ front \o service \in Seq(C) /\ Len(front \o service) = Len(w) + 1 + Len(service)
        /\ \A i \in 1..(Len(w) + 1) : (front \o service)[i] = front[i]
        /\ \A i \in 1..Len(service) : (front \o service)[Len(w) + 1 + i] = service[i]
    <3>1. /\ front \o service \in Seq(C) /\ Len(front \o service) = Len(front) + Len(service)
          /\ \A i \in 1..Len(front) : (front \o service)[i] = front[i]
          /\ \A i \in 1..Len(service) : (front \o service)[Len(front) + i] = service[i]
      <4>1. PICK f \in Seq(C) : f = front  BY <2>3
      <4>2. /\ f \o service \in Seq(C) /\ Len(f \o service) = Len(f) + Len(service)
            /\ \A i \in 1..Len(f) : (f \o service)[i] = f[i]
            /\ \A i \in 1..Len(service) : (f \o service)[Len(f) + i] = service[i]
        BY ConcatAt
      <4> QED BY <4>1, <4>2, Zenon
    <3> QED BY <2>3, <3>1
  <2>6. \A i \in 1..Len(w) : i \in 1..(Len(w) + 1)  BY <2>1
  <2>7. Len(w) + 1 \in 1..(Len(w) + 1)  BY <2>1
  <2> QED BY <1>2, <2>3, <2>4, <2>5, <2>6, <2>7
<1> QED BY <1>1, <1>2

(* The characters of an address in brackets. *)
LEMMA BracketedAt ==
  ASSUME NEW C, "[" \in C, "]" \in C, NEW node \in Seq(C), NEW w, w = <<"[">> \o node \o <<"]">>
  PROVE  /\ w \in Seq(C) /\ Len(w) = Len(node) + 2
         /\ w[1] = "[" /\ w[Len(node) + 2] = "]"
         /\ \A i \in 1..Len(node) : w[1 + i] = node[i]
<1> DEFINE front == <<"[">> \o node
<1>1. /\ <<"[">> \in Seq(C) /\ Len(<<"[">>) = 1 /\ <<"[">>[1] = "["
      /\ <<"]">> \in Seq(C) /\ Len(<<"]">>) = 1 /\ <<"]">>[1] = "]"
  BY OneCharacter
<1>2. /\ front \in Seq(C) /\ Len(front) = 1 + Len(node) /\ front[1] = "["
      /\ \A i \in 1..Len(node) : front[1 + i] = node[i]
  BY <1>1, ConcatAt
<1>3. w = front \o <<"]">>  OBVIOUS
<1>4. Len(node) \in Nat  OBVIOUS
<1> HIDE DEF front
<1>5. /\ w \in Seq(C) /\ Len(w) = (1 + Len(node)) + 1
      /\ \A i \in 1..(1 + Len(node)) : w[i] = front[i]
      /\ w[(1 + Len(node)) + 1] = "]"
  BY <1>1, <1>2, <1>3, ConcatAt
<1>6. (1 + Len(node)) + 1 = Len(node) + 2 /\ 1 \in 1..(1 + Len(node))  BY <1>4
<1>7. \A i \in 1..Len(node) : 1 + i \in 1..(1 + Len(node))  BY <1>4
<1> QED BY <1>2, <1>5, <1>6, <1>7

(* An address in brackets is found, and what follows "]:" is its service.   *)
LEMMA BracketsSplit ==
  ASSUME NEW C, "[" \in C, "]" \in C, ":" \in C,
         NEW node \in Seq(C) \ {<<>>}, NEW service \in Seq(C),
         Has(node, ":"), ~Has(node, "]")
  PROVE  Split(Join(Written(node), service)) = [node |-> node, service |-> service]
<1> DEFINE w    == <<"[">> \o node \o <<"]">>
           host == Join(w, service)
           n    == Len(node)
<1>1. n \in Nat /\ n > 0 /\ Len(service) \in Nat  OBVIOUS
<1>2. \A i \in 1..n : node[i] # "]"  BY DEF Has
<1>3. Written(node) = w  BY DEF Written
<1>4. /\ w \in Seq(C) /\ Len(w) = n + 2 /\ w[1] = "[" /\ w[n + 2] = "]"
      /\ \A i \in 1..n : w[1 + i] = node[i]
  BY BracketedAt
<1> HIDE DEF w
<1>5. /\ host \in Seq(C) /\ \A i \in 1..(n + 2) : host[i] = w[i]
      /\ service = NULL => Len(host) = n + 2
      /\ service # NULL =>
           /\ Len(host) = n + 3 + Len(service) /\ host[n + 3] = ":"
           /\ \A i \in 1..Len(service) : host[n + 3 + i] = service[i]
  <2>1. /\ host \in Seq(C) /\ \A i \in 1..Len(w) : host[i] = w[i]
        /\ service = NULL => Len(host) = Len(w)
        /\ service # NULL =>
             /\ Len(host) = Len(w) + 1 + Len(service) /\ host[Len(w) + 1] = ":"
             /\ \A i \in 1..Len(service) : host[Len(w) + 1 + i] = service[i]
    BY <1>4, JoinedAt
  <2> HIDE DEF host, n
  <2>2. Len(w) + 1 = n + 3  BY <1>1, <1>4
  <2> QED BY <2>1, <2>2, <1>4
<1> HIDE DEF host
<1>6. Len(host) \in Nat /\ Len(host) >= n + 2  BY <1>1, <1>5
<1>7. host[1] = "[" /\ host[n + 2] = "]" /\ \A i \in 1..n : host[1 + i] = node[i]
  <2>1. \A i \in 1..n : 1 + i \in 1..(n + 2)  BY <1>1
  <2>2. 1 \in 1..(n + 2) /\ n + 2 \in 1..(n + 2)  BY <1>1
  <2> QED BY <1>4, <1>5, <2>1, <2>2
<1>8. memchr(host, "]", 2) = n + 2
  <2>1. \A j \in 2..((n + 2) - 1) : j - 1 \in 1..n /\ 1 + (j - 1) = j
    <3> HIDE DEF n
    <3> QED BY <1>1
  <2>2. \A j \in 2..((n + 2) - 1) : host[j] # "]"
    <3> SUFFICES ASSUME NEW j \in 2..((n + 2) - 1)  PROVE host[j] # "]"
      OBVIOUS
    <3> HIDE DEF n
    <3>1. PICK i \in 1..n : 1 + i = j  BY <2>1
    <3> QED BY <1>2, <1>7, <3>1, Zenon
  <2>3. n + 2 \in 2..Len(host)  BY <1>1, <1>6
  <2> HIDE DEF n
  <2> QED BY <1>5, <1>7, <2>2, <2>3, MemchrFinds
<1>9. SubSeq(host, 2, (n + 2) - 1) = node
  <2>1. (n + 2) - 1 \in Int /\ (n + 2) - 1 = 2 + n - 1 /\ (n + 2) - 1 <= Len(host)  BY <1>1, <1>6
  <2>2. \A i \in 1..n : host[2 - 1 + i] = node[i]  BY <1>7
  <2> QED BY <1>5, <2>1, <2>2, StretchIs
<1>10. (IF n + 2 < Len(host) /\ host[(n + 2) + 1] = ":"
        THEN SubSeq(host, (n + 2) + 2, Len(host)) ELSE NULL) = service
  <2>1. CASE service = NULL  BY <2>1, <1>1, <1>5
  <2>2. CASE service # NULL
    <3>1. n + 2 < Len(host) /\ host[(n + 2) + 1] = ":"  
      <4>1. (n + 2) + 1 = n + 3  BY <1>1
      <4> QED BY <2>2, <1>1, <1>5, <4>1
    <3>2. /\ (n + 2) + 2 \in Nat \ {0} /\ Len(host) \in Int
          /\ Len(host) = ((n + 2) + 2) + Len(service) - 1 /\ Len(host) <= Len(host)
      <4>1. Len(host) = n + 3 + Len(service)  BY <2>2, <1>5
      <4> HIDE DEF n
      <4> QED BY <4>1, <1>1, <1>6
    <3>3. \A i \in 1..Len(service) : host[((n + 2) + 2) - 1 + i] = service[i]
      <4>1. \A i \in 1..Len(service) : ((n + 2) + 2) - 1 + i = n + 3 + i  BY <1>1
      <4> QED BY <2>2, <1>5, <4>1
    <3>4. SubSeq(host, (n + 2) + 2, Len(host)) = service
      <4> HIDE DEF n
      <4> QED BY <1>5, <3>2, <3>3, StretchIs
    <3> QED BY <3>1, <3>4
  <2> QED BY <2>1, <2>2
<1>11. host # <<>>  BY <1>1, <1>5, <1>6
<1>12. Bracketed(host) = [node |-> node, service |-> service]
  <2> HIDE DEF n
  <2>1. (IF host # <<>> /\ host[1] = "[" THEN memchr(host, "]", 2) ELSE 0) = n + 2
    BY <1>7, <1>8, <1>11
  <2>2. n + 2 # 0  BY <1>1 
  <2> QED BY <1>9, <1>10, <2>1, <2>2 DEF Bracketed
<1>13. Split(host) = [node |-> node, service |-> service]  BY <1>12 DEF Split
<1> QED BY <1>3, <1>13 DEF host

(* A name is split at its only colon, or is the node when there is none.    *)
LEMMA NameSplits ==
  ASSUME NEW C, "[" \in C, "]" \in C, ":" \in C,
         NEW node \in Seq(C) \ {<<>>}, NEW service \in Seq(C), 
         ~Has(node, ":"), node[1] # "[", ~Has(service, ":")
  PROVE  Split(Join(Written(node), service)) = [node |-> node, service |-> service]
<1> DEFINE host == Join(node, service)
           n    == Len(node)
<1>1. n \in Nat /\ n > 0 /\ Len(service) \in Nat  OBVIOUS
<1>2. (\A i \in 1..n : node[i] # ":") /\ (\A i \in 1..Len(service) : service[i] # ":")  
  BY DEF Has
<1>3. Written(node) = node  BY DEF Written
<1>4. /\ host \in Seq(C) /\ \A i \in 1..n : host[i] = node[i]
      /\ service = NULL => Len(host) = n
      /\ service # NULL =>
             /\ Len(host) = n + 1 + Len(service) /\ host[n + 1] = ":"
             /\ \A i \in 1..Len(service) : host[n + 1 + i] = service[i]
  BY JoinedAt
<1> HIDE DEF host
<1>5. Len(host) \in Nat /\ Len(host) >= n  BY <1>1, <1>4
<1>6. host[1] # "["  BY <1>1, <1>4
<1>7. Bracketed(host).node = <<>>  BY <1>6 DEF Bracketed
<1>8. CASE service = NULL
  <2>1. \A j \in 1..Len(host) : host[j] # ":"  BY <1>8, <1>2, <1>4
  <2>2. memchr(host, ":", 1) = 0  BY <1>4, <2>1, MemchrMisses
  <2>3. Plain(host) = [node |-> <<>>, service |-> NULL]  BY <2>2 DEF Plain
  <2>4. host = node  BY <1>8 DEF host, Join
  <2> QED BY <1>3, <1>7, <1>8, <2>3, <2>4 DEF Split, host
<1>9. CASE service # NULL
  <2>1. memchr(host, ":", 1) = n + 1
    <3>1. \A j \in 1..((n + 1) - 1) : host[j] # ":"  BY <1>1, <1>2, <1>4
    <3>2. n + 1 \in 1..Len(host)  BY <1>1, <1>4, <1>9
    <3>3. host[n + 1] = ":"  BY <1>4, <1>9
    <3> HIDE DEF n
    <3> QED BY <1>4, <3>1, <3>2, <3>3, MemchrFinds
  <2>2. memchr(host, ":", (n + 1) + 1) = 0
    <3>1. \A j \in ((n + 1) + 1)..Len(host) :
             j - (n + 1) \in 1..Len(service) /\ (n + 1) + (j - (n + 1)) = j
      <4>1. Len(host) = n + 1 + Len(service)  BY <1>4, <1>9
      <4> HIDE DEF n
      <4> QED BY <4>1, <1>1, <1>5
    <3>2. \A j \in ((n + 1) + 1)..Len(host) : host[j] # ":"
      <4> SUFFICES ASSUME NEW j \in ((n + 1) + 1)..Len(host)  PROVE host[j] # ":"
        OBVIOUS
      <4> HIDE DEF n
      <4>1. PICK i \in 1..Len(service) : (n + 1) + i = j  BY <3>1
      <4> QED BY <1>2, <1>4, <1>9, <4>1, Zenon
    <3>3. (n + 1) + 1 \in Nat  BY <1>1
    <3> HIDE DEF n
    <3> QED BY <1>4, <3>2, <3>3, MemchrMisses
  <2>3. SubSeq(host, 1, (n + 1) - 1) = node
    <3>1. (n + 1) - 1 \in Int /\ (n + 1) - 1 = 1 + n - 1 /\ (n + 1) - 1 <= Len(host)  BY <1>1, <1>5
    <3>2. \A i \in 1..n : host[1 - 1 + i] = node[i]  BY <1>1, <1>4
    <3> QED BY <1>4, <3>1, <3>2, StretchIs
  <2>4. SubSeq(host, (n + 1) + 1, Len(host)) = service
    <3>1. /\ (n + 1) + 1 \in Nat \ {0} /\ Len(host) \in Int
          /\ Len(host) = ((n + 1) + 1) + Len(service) - 1 /\ Len(host) <= Len(host)
      <4>1. Len(host) = n + 1 + Len(service)  BY <1>4, <1>9
      <4> HIDE DEF n
      <4> QED BY <4>1, <1>1, <1>5
    <3>2. \A i \in 1..Len(service) : host[((n + 1) + 1) - 1 + i] = service[i]
      <4>1. \A i \in 1..Len(service) : ((n + 1) + 1) - 1 + i = n + 1 + i  BY <1>1
      <4> QED BY <1>9, <1>4, <4>1
    <3> HIDE DEF n
    <3> QED BY <1>4, <3>1, <3>2, StretchIs
  <2>5. Plain(host) = [node |-> node, service |-> service]
    <3>1. n + 1 # 0  BY <1>1
    <3> HIDE DEF n
    <3> QED BY <2>1, <2>2, <2>3, <2>4, <3>1 DEF Plain
  <2>6. Split(host) = [node |-> node, service |-> service]  BY <1>7, <2>5 DEF Split
  <2> QED BY <1>3, <2>6 DEF host
<1> QED BY <1>8, <1>9

(* Address::Lookup gives getaddrinfo the node and the service that a host   *)
(* was written from, whatever their characters and lengths: a name without  *)
(* a bracket in front and a service without a colon, or an address with     *)
(* colons in brackets and any service, the empty one included.              *)
THEOREM HostsAreSplit ==
  ASSUME NEW Char,
         asked \in [op : {"host"}, node : Seq(Char) \ {<<>>}, service : Seq(Char) \cup {NULL}]
  PROVE  HostIsSplit
<1> SUFFICES ASSUME Readable(asked.node, asked.service)
             PROVE  Split(Join(Written(asked.node), asked.service)) =
                      [node |-> asked.node, service |-> asked.service]
  BY DEF HostIsSplit
<1> DEFINE C == Char \cup {"[", "]", ":", "NULL"}
<1>1. asked.node \in Seq(C) \ {<<>>} /\ asked.service \in Seq(C)
  <2>1. \A s \in Seq(Char) : s \in Seq(C)  OBVIOUS
  <2>2. NULL \in Seq(C)  BY OneCharacter DEF NULL
  <2> QED BY <2>1, <2>2
<1> HIDE DEF C
<1>0. "[" \in C /\ "]" \in C /\ ":" \in C  BY DEF C
<1>2. CASE Has(asked.node, ":")  BY <1>1, <1>2, <1>0, BracketsSplit DEF Readable
<1>3. CASE ~Has(asked.node, ":")  BY <1>1, <1>3, <1>0, NameSplits DEF Readable
<1> QED BY <1>2, <1>3

(* A UnixAddress of any path gives that path back: the terminator is found  *)
(* where the path ends, an abstract name keeps all of its characters, and   *)
(* only a path that does not fit in sun_path is refused.                    *)
THEOREM PathsAreKept ==
  ASSUME NEW Char, asked \in [op : {"path"}, path : Seq(Char)]
  PROVE  PathIsKept
<1> DEFINE C == Char \cup {NUL}
<1> SUFFICES ASSUME NEW path \in Seq(C), path # <<>>, ~Has(Tail(path), NUL),
                    NEW u, u = UnixAddress(path)
             PROVE  IF u = TooLong THEN Len(path) >= PathLen ELSE getPath(u) = PathOf(path)
  <2>1. \A s \in Seq(Char) : s \in Seq(C)  OBVIOUS
  <2> QED BY <2>1 DEF PathIsKept
<1>0. NUL \in C  OBVIOUS
<1> HIDE DEF C
<1>1. Len(path) \in Nat /\ Len(path) > 0 /\ PathLen \in Nat \ {0}  BY NamesAssumption
<1>2. \A i \in 2..Len(path) : path[i] # NUL
  <2>1. \A i \in 2..Len(path) : i - 1 \in DOMAIN Tail(path) /\ Tail(path)[i - 1] = path[i]  BY <1>1
  <2> QED BY <2>1 DEF Has
<1> DEFINE bytes == [i \in 1..PathLen |-> IF i <= Len(path) THEN path[i] ELSE NUL]
           len   == IF path[1] = NUL THEN Len(path) ELSE Len(path) + 1
<1>3. CASE len > PathLen
  <2>1. u = TooLong  BY <1>3 DEF UnixAddress
  <2>2. Len(path) >= PathLen  BY <1>3, <1>1
  <2> QED BY <2>1, <2>2
<1>4. CASE ~(len > PathLen)
  <2>1. u = [sun_path |-> bytes, m_length |-> len]  BY <1>4 DEF UnixAddress
  <2>2. u # TooLong
    <3>1. len > 0  BY <1>1
    <3>2. u.m_length = len /\ TooLong.m_length = 0  BY <2>1 DEF TooLong
    <3> QED BY <3>1, <3>2
  <2>3. bytes \in Seq(C) /\ Len(bytes) = PathLen /\ \A i \in 1..Len(path) : bytes[i] = path[i]
    <3>1. \A i \in 1..PathLen : bytes[i] \in C
      <4>1. \A i \in 1..Len(path) : path[i] \in C  OBVIOUS
      <4>2. NUL \in C  BY <1>0
      <4>3. \A i \in 1..PathLen : i <= Len(path) => i \in 1..Len(path)  BY <1>1
      <4> QED BY <4>1, <4>2, <4>3, Zenon
    <3>2. bytes \in [1..PathLen -> C]  BY <3>1
    <3>3. bytes \in Seq(C) /\ Len(bytes) = PathLen  BY <3>2, <1>1
    <3>4. Len(path) <= PathLen  BY <1>1, <1>4
    <3> QED BY <3>3, <3>4, <1>1
  <2>4. u.sun_path = bytes /\ u.m_length = len  BY <2>1
  <2>5. CASE path[1] = NUL
    <3>1. Len(path) <= PathLen /\ len = Len(path)  BY <2>5, <1>1, <1>4
    <3>2. bytes[1] = NUL  BY <2>3, <2>5, <1>1
    <3> HIDE DEF bytes
    <3>3. SubSeq(bytes, 2, Len(path)) = Tail(path)
      <4>1. Tail(path) \in Seq(C) /\ Len(Tail(path)) = Len(path) - 1  BY <1>1
      <4>2. \A i \in 1..Len(Tail(path)) : bytes[2 - 1 + i] = Tail(path)[i]
        <5>1. \A i \in 1..Len(Tail(path)) : /\ Tail(path)[i] = path[i + 1] /\ 2 - 1 + i = i + 1
                                           /\ i + 1 \in 1..Len(path)  BY <1>1
        <5> QED BY <5>1, <2>3
      <4>3. Len(path) \in Int /\ Len(path) = 2 + Len(Tail(path)) - 1 /\ Len(path) <= Len(bytes)
        <5>1. Len(bytes) = PathLen  BY <2>3
        <5> DEFINE t == Tail(path)
        <5>2. Len(t) = Len(path) - 1  BY <4>1
        <5> HIDE DEF t
        <5>3. Len(path) = 2 + Len(t) - 1  BY <5>2, <1>1
        <5>4. Len(path) \in Int /\ Len(path) <= Len(bytes)  BY <5>1, <1>1, <3>1
        <5> QED BY <5>3, <5>4, Zenon DEF t
      <4> QED BY <2>3, <4>1, <4>2, <4>3, StretchIs
    <3>4. getPath(u) = <<"\\0">> \o SubSeq(bytes, 2, Len(path))
      BY <2>4, <3>1, <3>2, <1>1 DEF getPath
    <3> QED BY <2>2, <2>5, <3>3, <3>4 DEF PathOf
  <2>6. CASE path[1] # NUL
    <3>1. len = Len(path) + 1 /\ Len(path) < PathLen  BY <2>6, <1>1, <1>4
    <3>2. \A i \in 1..Len(path) : bytes[i] # NUL  BY <1>1, <1>2, <2>3, <2>6
    <3>3. Len(path) + 1 \in 1..PathLen /\ bytes[Len(path) + 1] = NUL  BY <1>1, <3>1
    <3> DEFINE Ends == {i \in 1..PathLen : bytes[i] = NUL}
    <3> HIDE DEF bytes
    <3>4. Len(path) + 1 \in Ends /\ \A j \in Ends : j \in Int /\ Len(path) + 1 <= j
      BY <1>1, <3>2, <3>3
    <3>5. \A i \in Ends : (\A j \in Ends : i <= j) => i = Len(path) + 1  BY <3>4, <1>1
    <3>6. Min(Ends) = Len(path) + 1
      <4> HIDE DEF Ends
      <4>1. (CHOOSE x \in Ends : \A y \in Ends : x <= y) = Len(path) + 1  BY <3>4, <3>5
      <4> QED BY <4>1 DEF Min
    <3>7. SubSeq(bytes, 1, (Len(path) + 1) - 1) = path
      <4>1. \A i \in 1..Len(path) : bytes[1 - 1 + i] = path[i]  BY <1>1, <2>3
      <4>2. /\ (Len(path) + 1) - 1 \in Int /\ (Len(path) + 1) - 1 = 1 + Len(path) - 1
            /\ (Len(path) + 1) - 1 <= Len(bytes)
        BY <1>1, <2>3, <3>1
      <4> QED BY <2>3, <4>1, <4>2, StretchIs
    <3>8. getPath(u) = SubSeq(bytes, 1, Min(Ends) - 1)
      <4>1. u.sun_path[1] # NUL  BY <2>4, <2>3, <2>6, <1>1
      <4> QED BY <2>4, <4>1 DEF getPath
    <3> QED BY <2>2, <2>6, <3>6, <3>7, <3>8 DEF PathOf
  <2> QED BY <2>5, <2>6
<1> QED BY <1>3, <1>4

=============================================================================
