---------------------------- MODULE MCFourKEQDSP ----------------------------
(***************************************************************************)
(* Small instances of FourKEQDSP.  With(x) is the setting in which the     *)
(* parameters of x have the values of x and the others are untouched: LF   *)
(* off 0 dB, so that the pair correction comes and goes with LM, and       *)
(* everything else neutral.                                                *)
(***************************************************************************)
EXTENDS FourKEQDSP

With(x) == [q \in Param |-> IF q \in DOMAIN x THEN x[q]
                            ELSE IF q = "lf_gain" THEN 1 ELSE 0]

\* A band, a filter and auto-gain in every combination, and from there the Q
\* of the band and the oversampling factor.
VoicingSettings ==
  {With([lm_gain |-> g, hpf_enabled |-> h, auto_gain |-> a]) :
     g \in 0..1, h \in 0..1, a \in 0..1}
  \cup {With([lm_gain |-> 1, lm_q |-> 1, auto_gain |-> 1]),
        With([lm_gain |-> 1, hpf_enabled |-> 1, auto_gain |-> 1, oversampling |-> 2]),
        With([hpf_enabled |-> 0, auto_gain |-> 1, oversampling |-> 2])}

\* One parameter at a time under the audio thread, with auto-gain on: away
\* from and back to a band and a filter in the path, the band at 0 dB, the
\* filter out, the oversampling at 4x, or all of it bypassed.
RacingSettings ==
  {With([lm_gain |-> x[1], hpf_enabled |-> x[2], oversampling |-> x[3],
         bypass |-> x[4], auto_gain |-> 1]) :
     x \in {<<1, 1, 0, 0>>, <<0, 1, 0, 0>>, <<1, 0, 0, 0>>, <<1, 1, 2, 0>>,
            <<1, 1, 0, 1>>}}
=============================================================================
