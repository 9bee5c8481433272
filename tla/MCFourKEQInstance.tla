------------------------- MODULE MCFourKEQInstance -------------------------
(***************************************************************************)
(* A small instance of FourKEQInstance: INIT and two programs, one black   *)
(* and one brown, auto-gain, and a blob that sets the oversampling, with   *)
(* an input gain beyond the range of this build.                           *)
(***************************************************************************)
EXTENDS FourKEQInstance, MCCalibration

MCPrograms == <<DrumBusPunch, BassGuitarPolish>>
MCRecalls == 0..2
MCMoves == {<<"auto_gain", 100>>}
MCOldBlobs == {[values |-> [oversampling |-> 0, input_gain |-> 9900], preset |-> NoPreset]}
=============================================================================
