---------------------------- MODULE SocketTables ---------------------------
(***************************************************************************)
(* FdManager's table and the IOManager's table together.  A thread makes a *)
(* socket through the hook, which looks up or makes its FdCtx; do_io on an *)
(* open socket then calls addEvent, which looks up or makes its FdContext. *)
(* A thread is in one of the two calls at a time, and a socket is closed   *)
(* by its owner, which does not wait for it at that moment.                *)
(***************************************************************************)
EXTENDS FdManager, FdTable

vars == <<managerVars, tableVars>>

Init == ManagerInit /\ TableInit

Unused(fd) == /\ \A c \in registered : c[1] # fd
              /\ \A t \in Threads : addFd[t] # fd

(* The hooked calls that make a socket, and its end *)
SocketStep ==
  /\ \/ \E t \in Threads : Get(t) \/ Create(t)
     \/ \E t \in Threads, fd \in Fds : addPc[t] = "out" /\ NewSocket(t, fd)
     \/ \E fd \in Fds : Unused(fd) /\ (Del(fd) \/ Close(fd))
  /\ UNCHANGED tableVars

(* do_io's addEvent, the ends of the wait *)
WaitStep ==
  /\ \/ \E t \in Threads : ContextResize(t) \/ Register(t)
     \/ \E t \in Threads, fd \in Fds :
          getPc[t] = "out" /\ Opened(fd) /\ Lookup(t, fd)
     \/ \E fd \in Fds : CancelContext(fd)
     \/ \E c \in registered : ReportContext(c)
  /\ UNCHANGED managerVars

Next == SocketStep \/ WaitStep

Spec == Init /\ [][Next]_vars

(* Both tables keep their types when they are used together. *)
TypeOK == ManagerTypeOK /\ TableTypeOK

=============================================================================
