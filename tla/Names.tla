------------------------------- MODULE Names -------------------------------
(***************************************************************************)
(* The texts that addresses are made from: the host that Address::Lookup   *)
(* splits and the path of a UnixAddress.  A text is a sequence of          *)
(* characters.                                                             *)
(***************************************************************************)
EXTENDS Integers, Sequences, FiniteSetsExt, Asked

CONSTANT PathLen  \* sizeof(sun_path) (108)

ASSUME NamesAssumption == PathLen \in Nat \ {0}

-----------------------------------------------------------------------------
(* UnixAddress: the array and the length without offsetof(sun_path)        *)

NUL == "NUL"
TooLong == [sun_path |-> <<>>, m_length |-> 0]
UnixAddress(path) ==
  LET len == IF path # <<>> /\ path[1] = NUL THEN Len(path) ELSE Len(path) + 1
  IN IF len > PathLen THEN TooLong
     ELSE [sun_path |-> [i \in 1..PathLen |-> IF i <= Len(path) THEN path[i] ELSE NUL],
           m_length |-> len]
(* getPath and insert: an abstract name after "\\0", another one up to its  *)
(* terminator                                                               *)
getPath(u) ==
  IF u.m_length > 0 /\ u.sun_path[1] = NUL
  THEN <<"\\0">> \o SubSeq(u.sun_path, 2, u.m_length)
  ELSE SubSeq(u.sun_path, 1, Min({i \in 1..PathLen : u.sun_path[i] = NUL}) - 1)

-----------------------------------------------------------------------------
(* Address::Lookup: how host is split in the node and the service that     *)
(* getaddrinfo is asked for; NULL is no service                            *)

NULL == <<"NULL">>
(* memchr: the first place of c from a position on, 0 when there is none *)
memchr(s, c, from) ==
  LET At == {i \in from..Len(s) : s[i] = c} IN IF At = {} THEN 0 ELSE Min(At)
Bracketed(host) ==
  LET end == IF host # <<>> /\ host[1] = "[" THEN memchr(host, "]", 2) ELSE 0
  IN IF end = 0 THEN [node |-> <<>>, service |-> NULL]
     ELSE [node    |-> SubSeq(host, 2, end - 1),
           service |-> IF end < Len(host) /\ host[end + 1] = ":"
                       THEN SubSeq(host, end + 2, Len(host)) ELSE NULL]
(* A host with several colons keeps all of it as node, and the pointer to   *)
(* its first colon as service.                                              *)
Plain(host) ==
  LET colon == memchr(host, ":", 1)
  IN IF colon = 0 THEN [node |-> <<>>, service |-> NULL]
     ELSE IF memchr(host, ":", colon + 1) = 0
     THEN [node |-> SubSeq(host, 1, colon - 1), service |-> SubSeq(host, colon + 1, Len(host))]
     ELSE [node |-> <<>>, service |-> SubSeq(host, colon, Len(host))]
(* Mutant: the brackets are not looked for. *)
SplitPlain(host) ==
  LET p == Plain(host) IN IF p.node # <<>> THEN p ELSE [p EXCEPT !.node = host]
Split(host) ==
  LET b == Bracketed(host)
      p == Plain(host)
  IN IF b.node # <<>> THEN b
     ELSE IF p.node # <<>> THEN p ELSE [p EXCEPT !.node = host]

-----------------------------------------------------------------------------
(* What they are for                                                       *)

Has(s, c) == \E i \in DOMAIN s : s[i] = c

(* A UnixAddress gives back the path it was made from, an abstract one with *)
(* its first character written as "\\0", unless that path is too long.      *)
PathOf(path) == IF path[1] = NUL THEN <<"\\0">> \o Tail(path) ELSE path
PathIsKept ==
  asked.op = "path" /\ asked.path # <<>> /\ ~Has(Tail(asked.path), NUL) =>
    IF UnixAddress(asked.path) = TooLong THEN Len(asked.path) >= PathLen
    ELSE getPath(UnixAddress(asked.path)) = PathOf(asked.path)

(* Lookup takes a host apart as "node[:service]" (address.h:21) was put     *)
(* together: a name, or an IPv6 address in brackets, with or without a      *)
(* service.  A name has no bracket in front and its service no colon; an    *)
(* address in brackets has none that closes.                                *)
Join(node, service) == IF service = NULL THEN node ELSE node \o <<":">> \o service
Written(node) == IF Has(node, ":") THEN <<"[">> \o node \o <<"]">> ELSE node
Readable(node, service) ==
  IF Has(node, ":") THEN ~Has(node, "]") ELSE node[1] # "[" /\ ~Has(service, ":")
HostIsSplit ==
  asked.op = "host" /\ Readable(asked.node, asked.service) =>
    Split(Join(Written(asked.node), asked.service)) =
      [node |-> asked.node, service |-> asked.service]

=============================================================================
