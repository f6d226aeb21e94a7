------------------------------ MODULE Address ------------------------------
(***************************************************************************)
(* The computations of the address classes: masks and byte order           *)
(* (IPv4Address, IPv6Address) and the text of an IPv6 address.             *)
(*                                                                         *)
(* An octet has ByteBits bits and an IPv4 address V4Bytes octets, so that  *)
(* every address of an instance can be tried.  The code runs on a little-  *)
(* endian machine: s_addr is a number whose lowest octet is the first one. *)
(***************************************************************************)
EXTENDS Integers, Sequences, FiniteSetsExt, SequencesExt, Bitwise

CONSTANTS
  ByteBits,  \* bits of an octet (8)
  V4Bytes,   \* octets of an IPv4 address (4)
  V6Bytes    \* octets of an IPv6 address (16)

ASSUME AddressAssumption ==
  ByteBits \in Nat \ {0} /\ V4Bytes \in Nat \ {0} /\ V6Bytes \in Nat \ {0}

Base     == 2^ByteBits
Octet    == 0..(Base - 1)
WordBits == ByteBits * V4Bytes
Word     == 0..(2^WordBits - 1)
nullptr  == -1

-----------------------------------------------------------------------------
(* Masks and byte order                                                    *)

OctetOf(v, i) == (v \div Base^i) % Base
(* byteswapOnLittleEndian *)
byteswap(v) ==
  MapThenSumSet(LAMBDA i : OctetOf(v, i) * Base^(V4Bytes - 1 - i), 0..(V4Bytes - 1))
(* The operator ~ of C. *)
Inverted(bits, v) == 2^bits - 1 - v

(* The shift and the subtraction of CreateMask are those of an int, whether *)
(* T is as wide or not: for a T of its width, shifting by the whole width   *)
(* (n = 0) or by a negative distance is undefined, and so is 1 less than    *)
(* the least int (n = 1).                                                   *)
Undefined(bits, n) == bits = WordBits /\ (n < 2 \/ n > bits)
(* Mutant: the mask is one bit too long. *)
CreateMaskLong(bits, n) ==
  IF Undefined(bits, n) THEN Word ELSE {2^(bits - n + 1) - 1}
(* CreateMask<T>(n) for a T of that many bits: what it may return. *)
CreateMask(bits, n) == IF Undefined(bits, n) THEN Word ELSE {2^(bits - n) - 1}

(* CountBytes: the loop takes the lowest 1 away. *)
CountBytes[v \in Nat] == IF v = 0 THEN 0 ELSE 1 + CountBytes[v & (v - 1)]

(* IPv4Address::broadcastAddress, networdAddress and subnetMask: the s_addr *)
(* they may answer for an address and a prefix length.                      *)
broadcastAddress(a, n) ==
  IF n > WordBits THEN {nullptr}
  ELSE {a | byteswap(m) : m \in CreateMask(WordBits, n)}
networdAddress(a, n) ==
  IF n > WordBits THEN {nullptr}
  ELSE {a & Inverted(WordBits, byteswap(m)) : m \in CreateMask(WordBits, n)}
subnetMask(n) ==
  {Inverted(WordBits, byteswap(m)) : m \in CreateMask(WordBits, n)}

(* The same of IPv6Address: an address is its octets and the octet behind  *)
(* them in a sockaddr_in6, the first of sin6_scope_id.  The octet in which  *)
(* the prefix ends is masked; for a prefix of all bits this is the one      *)
(* behind the array.  broadcastAddress fills the octets after it, while     *)
(* networdAddress "or"s them with 0x00, which leaves them as they are, and  *)
(* subnetMask fills those before it.                                        *)
Mask6(n) == CHOOSE m \in CreateMask(ByteBits, n % ByteBits) : TRUE
EndOf(n) == n \div ByteBits + 1
V6Octets == 1..V6Bytes
broadcastAddress6(a, n) ==
  [i \in DOMAIN a |-> IF i = EndOf(n) THEN a[i] | Mask6(n)
                      ELSE IF i > EndOf(n) /\ i \in V6Octets THEN Base - 1 ELSE a[i]]
networdAddress6(a, n) ==
  [a EXCEPT ![EndOf(n)] = @ & Inverted(ByteBits, Mask6(n))]
subnetMask6(n) ==
  [i \in 1..(V6Bytes + 1) |-> CASE i < EndOf(n) -> Base - 1
                                [] i = EndOf(n) -> Inverted(ByteBits, Mask6(n))
                                [] i > EndOf(n) -> 0]

(* GetInterfaceAddresses: the prefix length of an interface's netmask. *)
PrefixLen(mask)  == CountBytes[mask]
PrefixLen6(mask) == MapThenSumSet(LAMBDA i : CountBytes[mask[i]], V6Octets)

-----------------------------------------------------------------------------
(* IPv6Address::insert: the groups of data and the colons it writes.  A run *)
(* of zeros is left out once.                                               *)

Colon == -1
Group(st, data, i) ==
  LET gap == i > 1 /\ data[i - 1] = 0 /\ ~st.used_Zero
  IN IF data[i] = 0 /\ ~st.used_Zero THEN st
     ELSE [used_Zero |-> st.used_Zero \/ gap,
           os |-> st.os \o (IF gap THEN <<Colon>> ELSE <<>>)
                        \o (IF i > 1 THEN <<Colon>> ELSE <<>>) \o <<data[i]>>]
(* Mutant: a run of zeros at the end is not written. *)
insertOpen(data) ==
  FoldLeft(LAMBDA st, i : Group(st, data, i), [used_Zero |-> FALSE, os |-> <<>>],
           [i \in DOMAIN data |-> i]).os
insert(data) ==
  LET st == FoldLeft(LAMBDA s, i : Group(s, data, i),
                     [used_Zero |-> FALSE, os |-> <<>>], [i \in DOMAIN data |-> i])
  IN IF ~st.used_Zero /\ Last(data) = 0 THEN st.os \o <<Colon, Colon>> ELSE st.os

=============================================================================
