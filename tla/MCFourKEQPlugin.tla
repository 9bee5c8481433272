-------------------------- MODULE MCFourKEQPlugin --------------------------
(***************************************************************************)
(* A small instance of FourKEQPlugin: two of the fourteen factory          *)
(* programs (numbers 4 and 11 of kFactoryPresets: one in black, one with   *)
(* both filters), over the calibration tables of the code, and a handful   *)
(* of moves that reach the interesting places.                             *)
(***************************************************************************)
EXTENDS FourKEQPlugin, MCCalibration

MCPrograms == <<DrumBusPunch, TelephoneEQ>>

\* Every index the browser knows, and one past each end.
MCRecalls == -1..3

\* A dial off OUT and below its range, an enable on its own, a switch at a
\* fraction, and no parameter.
MCMoves == {<<"hpf_freq", 25000>>, <<"hpf_freq", 900>>, <<"hpf_enabled", 0>>,
            <<"lf_bell", 70>>, <<"nonsense", 0>>}

\* A blob from before a build knew the enables, and one with a preset a later
\* build would know.
MCOldBlobs == {[values |-> [hpf_freq |-> 12000, lpf_freq |-> 500000], preset |-> NoPreset],
               [values |-> [oversampling |-> 200, bypass |-> 100], preset |-> 20]}
=============================================================================
