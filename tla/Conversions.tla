---------------------------- MODULE Conversions ----------------------------
(***************************************************************************)
(* The pure computations of the library, each asked once for every input   *)
(* of an instance and compared with a definition of what it is for: the    *)
(* masks and texts of addresses, the patterns of log formatters and the    *)
(* length of a hooked sleep.                                               *)
(***************************************************************************)
EXTENDS Address, Names, LogFormatter, Sleeps

CONSTANT MaxLen  \* bound: the length of a pattern, a path and a host's parts

ASSUME ConversionsAssumption == MaxLen \in Nat

Strings(C, n) == UNION {[1..k -> C] : k \in 0..n}

-----------------------------------------------------------------------------
(* What is asked                                                           *)

AskV4     == [op : {"v4"}, addr : Word, prefix : 0..(WordBits + 1)]
V6Bits    == V6Bytes * ByteBits
AskV6     == [op : {"v6"}, addr : [1..(V6Bytes + 1) -> Octet], prefix : 0..V6Bits]
AskText   == [op : {"text"}, data : [1..4 -> 0..2]]
AskPath   == [op : {"path"}, path : Strings({NUL, "x"}, MaxLen)]
AskHost   == [op : {"host"}, node : Strings({"x", ":", "[", "]"}, MaxLen) \ {<<>>},
              service : Strings({"x", ":", "]"}, 2) \cup {NULL}]
AskParse  == [op : {"parse"}, pattern : Strings({"%", "{", "}", "-", "m"}, MaxLen)]
LogItems  == {Text(<<"-">>), Text(<<"%">>), Text(<<"-", "%", "m">>), Text(<<"m", "{", "-">>),
              Directive(<<"m">>, <<>>), Directive(<<"m">>, <<"-">>),
              Directive(<<"m">>, <<"%", "m", "{">>)}
AskItems  == [op : {"items"}, items : Strings(LogItems, 3)]
AskSleep  == [op : {"sleep"}, sec : 0..Width, frac : 0..(Kilo * Kilo)]

Nothing == [op |-> "nothing"]
Init == asked = Nothing
Next ==
  /\ asked = Nothing
  /\ \/ asked' \in AskV4 \cup AskV6
     \/ asked' \in AskText \/ asked' \in AskPath
     \/ asked' \in AskHost
     \/ asked' \in AskParse \/ asked' \in AskItems
     \/ asked' \in AskSleep
Spec == Init /\ [][Next]_asked

-----------------------------------------------------------------------------
(* broadcastAddress, networdAddress and subnetMask are what arithmetic on   *)
(* the address as a number in network order says, and a netmask's prefix    *)
(* length is the one it was made from, for every address.  Two cases are    *)
(* left out, since the code does not do what address.h:84-88 says there:    *)
(* an IPv4 prefix of 0 or 1 bits, whose mask is undefined, and the octets   *)
(* of an IPv6 network behind the one in which the prefix ends, which        *)
(* networdAddress does not clear.  Nothing else in a sockaddr_in6 is        *)
(* touched, unless the prefix has all bits, where s6_addr[16] is written.   *)
V4Exact(a, n) ==
  LET host == byteswap(a)
      size == 2^(WordBits - n)
  IN /\ broadcastAddress(a, n) = {byteswap(host - (host % size) + size - 1)}
     /\ networdAddress(a, n) = {byteswap(host - (host % size))}
     /\ {PrefixLen(m) : m \in subnetMask(n)} = {n}
BitOf(a, k) == (a[(k - 1) \div ByteBits + 1] \div 2^(ByteBits - 1 - ((k - 1) % ByteBits))) % 2
V6Exact(a, n) ==
  LET broadcast == broadcastAddress6(a, n)
      network   == networdAddress6(a, n)
      scope     == V6Bytes + 1
  IN /\ \A k \in 1..V6Bits :
          /\ BitOf(broadcast, k) = IF k <= n THEN BitOf(a, k) ELSE 1
          /\ k <= EndOf(n) * ByteBits =>
               BitOf(network, k) = IF k <= n THEN BitOf(a, k) ELSE 0
     /\ PrefixLen6(subnetMask6(n)) = n
     /\ n < V6Bits => broadcast[scope] = a[scope] /\ network[scope] = a[scope]
SubnetsExact ==
  /\ asked.op = "v4" =>
       /\ asked.prefix \in 2..WordBits => V4Exact(asked.addr, asked.prefix)
       /\ asked.prefix > WordBits =>
            /\ broadcastAddress(asked.addr, asked.prefix) = {nullptr}
            /\ networdAddress(asked.addr, asked.prefix) = {nullptr}
  /\ asked.op = "v6" => V6Exact(asked.addr, asked.prefix)

(* The text of an address names it: what insert writes for an IPv6 address  *)
(* leaves out one run of groups at most and is read back as the same        *)
(* groups, and a UnixAddress gives back the path it was made from.          *)
Groups(s) == SelectSeq(s, LAMBDA x : x # Colon)
Gaps(s)   == {j \in 1..(Len(s) - 1) : s[j] = Colon /\ s[j + 1] = Colon}
ReadBack(s, n) ==
  LET j     == Min(Gaps(s))
      left  == Groups(SubSeq(s, 1, j))
      right == Groups(SubSeq(s, j, Len(s)))
  IN IF Gaps(s) = {} THEN Groups(s)
     ELSE left \o [i \in 1..(n - Len(left) - Len(right)) |-> 0] \o right
TextNamesAddress ==
  /\ asked.op = "text" =>
       LET s == insert(asked.data)
       IN /\ Cardinality(Gaps(s)) <= 1
          /\ \A j \in 1..(Len(s) - 1) : s[j] = Colon \/ s[j + 1] = Colon
          /\ ReadBack(s, Len(asked.data)) = asked.data
  /\ PathIsKept

(* A pattern that init accepts is the text of the items it makes of it, and *)
(* the pattern of a list of items gives that list: nothing of a pattern is  *)
(* lost, doubled or moved.                                                  *)
Escaped(s) == FlattenSeq([i \in DOMAIN s |-> IF s[i] = "%" THEN <<"%", "%">> ELSE <<s[i]>>])
Rendered(item, braces) ==
  IF item.type = 0 THEN Escaped(item.str)
  ELSE <<"%">> \o item.str \o (IF braces THEN <<"{">> \o item.fmt \o <<"}">> ELSE <<>>)
Pattern(items, braces) ==
  FlattenSeq([i \in DOMAIN items |-> Rendered(items[i], braces[i])])
Braced(items) == [i \in DOMAIN items |-> items[i].fmt # <<>>]
Separable(items) ==
  \A i \in 1..(Len(items) - 1) :
    items[i + 1].type = 0 =>
      /\ items[i].type = 1
      /\ items[i].fmt = <<>> => items[i + 1].str[1] \notin Alpha \cup {"{", "}"}
PatternReadsBack ==
  /\ asked.op = "parse" =>
       LET r == init(asked.pattern)
       IN r.m_error \/ \E braces \in [DOMAIN r.m_items -> BOOLEAN] :
                         Pattern(r.m_items, braces) = asked.pattern
  /\ asked.op = "items" /\ Separable(asked.items) =>
       init(Pattern(asked.items, Braced(asked.items))) =
         [m_items |-> asked.items, m_error |-> FALSE]

=============================================================================
