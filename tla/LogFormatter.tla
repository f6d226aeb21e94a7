---------------------------- MODULE LogFormatter ----------------------------
(***************************************************************************)
(* LogFormatter::init: a pattern is read from left to right and becomes a  *)
(* list of literal texts and directives %str{fmt}.  A pattern is a         *)
(* sequence of characters; Alpha are those for which isalpha() holds, and  *)
(* Known are the directives of s_format_item.                              *)
(***************************************************************************)
EXTENDS Naturals, Sequences

CONSTANTS Alpha, Known

LOCAL FirstOf(s, C, from) ==
  IF \E i \in from..Len(s) : s[i] \in C
  THEN CHOOSE i \in from..Len(s) :
         s[i] \in C /\ \A j \in from..(i - 1) : s[j] \notin C
  ELSE Len(s) + 1

Text(s)           == [str |-> s, fmt |-> <<>>, type |-> 0]
Directive(s, fmt) == [str |-> s, fmt |-> fmt, type |-> 1]
PatternError      == Text(<<"pattern error">>)

(* Mutant: the character that ends a directive is swallowed. *)
ReadDirectiveGreedy(pattern, i, Other) ==
  LET n == FirstOf(pattern, Other, i + 1)
  IN [closed |-> TRUE, next |-> n + 1,
      item |-> Directive(SubSeq(pattern, i + 1, n - 1), <<>>)]
(* The inner loop, from the % at i: letters (and "}") up to a "{", whose    *)
(* text ends with the next "}", or up to any other character (Other, which  *)
(* holds "{" too).                                                          *)
ReadDirective(pattern, i, Other) ==
  LET n     == FirstOf(pattern, Other, i + 1)
      brace == n <= Len(pattern) /\ pattern[n] = "{"
      end   == FirstOf(pattern, {"}"}, n + 1)
      str   == SubSeq(pattern, i + 1, n - 1)
  IN IF ~brace THEN [closed |-> TRUE, next |-> n, item |-> Directive(str, <<>>)]
     ELSE [closed |-> end <= Len(pattern), next |-> end + 1,
           item   |-> Directive(str, SubSeq(pattern, n + 1, end - 1))]

(* nstr becomes an item when it is not empty. *)
Flush(vec, nstr) == IF nstr = <<>> THEN vec ELSE Append(vec, Text(nstr))

(* The outer loop.  A directive whose brace is not closed becomes an error  *)
(* item, and the loop goes on behind its %.                                 *)
RECURSIVE Scan(_, _, _, _, _)
Scan(pattern, i, nstr, vec, m_error) ==
  LET more   == i <= Len(pattern)
      double == i < Len(pattern) /\ pattern[i + 1] = "%"
      Other  == {pattern[j] : j \in DOMAIN pattern} \ (Alpha \cup {"}"})
      d      == ReadDirective(pattern, i, Other)
  IN CASE ~more -> [vec |-> Flush(vec, nstr), m_error |-> m_error]
       [] more /\ pattern[i] # "%" ->
            Scan(pattern, i + 1, Append(nstr, pattern[i]), vec, m_error)
       [] more /\ pattern[i] = "%" /\ double ->
            Scan(pattern, i + 2, Append(nstr, "%"), vec, m_error)
       [] more /\ pattern[i] = "%" /\ ~double /\ d.closed ->
            Scan(pattern, d.next, <<>>, Append(Flush(vec, nstr), d.item), m_error)
       [] more /\ pattern[i] = "%" /\ ~double /\ ~d.closed ->
            Scan(pattern, i + 1, nstr, Append(vec, PatternError), TRUE)

(* init: unknown directives become texts, and an error *)
IsUnknown(item) == item.type = 1 /\ item.str \notin Known
Item(item) == IF IsUnknown(item) THEN Text(<<"error format">> \o item.str) ELSE item
init(pattern) ==
  LET r == Scan(pattern, 1, <<>>, <<>>, FALSE)
  IN [m_items |-> [i \in DOMAIN r.vec |-> Item(r.vec[i])],
      m_error |-> r.m_error \/ \E i \in DOMAIN r.vec : IsUnknown(r.vec[i])]

=============================================================================
