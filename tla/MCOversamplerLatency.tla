------------------------ MODULE MCOversamplerLatency ------------------------
(***************************************************************************)
(* The oversampler at its real sizes: 12 and 4 one-sided taps and a ring   *)
(* of 128.  The taps are small integers of alternating sign: where the     *)
(* centre of a symmetric response lies does not depend on their values.    *)
(***************************************************************************)
EXTENDS OversamplerLatency

KA == [half |-> 6, side |-> <<4, -1, 1, -1, 1, -1, 1, -1, 1, -1, 1, -1>>]
KB == [half |-> 4, side |-> <<3, -1, 1, -1>>]
=============================================================================
