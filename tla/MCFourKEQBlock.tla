--------------------------- MODULE MCFourKEQBlock ---------------------------
(***************************************************************************)
(* A short stream that hits both rails of a 4-bit "int16" and, at 2x gain, *)
(* the rail of the console, different in the two channels.                 *)
(***************************************************************************)
EXTENDS FourKEQBlock

Frame == << <<7, -8>>, <<-3, 7>>, <<5, 6>>, <<7, -1>>, <<-8, 2>>, <<1, -5>> >>

KA == [half |-> 2, side |-> <<2, -1>>]
KB == [half |-> 2, side |-> <<1>>]
=============================================================================
