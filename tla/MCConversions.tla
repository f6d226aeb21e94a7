--------------------------- MODULE MCConversions ---------------------------
(***************************************************************************)
(* A small instance of Conversions: octets of two bits, ints of eight, four *)
(* milliseconds to the second, and one known directive.                    *)
(***************************************************************************)
EXTENDS Conversions

Letters == {"m"}
Directives == {<<"m">>}

=============================================================================
