------------------------- MODULE OversamplerLatency -------------------------
(***************************************************************************)
(* An impulse through the oversampler, with nothing in between: what the   *)
(* round trip delays by, against the latency it claims.                    *)
(***************************************************************************)
EXTENDS DuskOversampler

CONSTANT ResponseLength  \* samples after which the response is over

VARIABLES os, response

vars == <<os, response>>

Init ==
  /\ os \in {FreshOversampler(f) : f \in {1, 2, 4}}
  /\ response = <<>>

Same == [x \in Int |-> x]

\* processSample on an impulse: one, and then silence.
Step ==
  /\ Len(response) < ResponseLength
  /\ LET x == IF response = <<>> THEN 1 ELSE 0
         answer == ProcessSample(os, x, Same)
     IN  /\ os' = answer.os
         /\ response' = Append(response, answer.y)

Spec == Init /\ [][Step]_vars

-----------------------------------------------------------------------------

Over == Len(response) = ResponseLength

\* "Fixed group delay of the up+down FIR round trip, in base-rate samples": the
\* response of the linear-phase round trip is centred on latency(), that is,
\* its first moment is the latency times its sum.
LatencyIsGroupDelay ==
  Over =>
    LET moment == [n \in 1..ResponseLength |-> (n - 1) * response[n]]
    IN  2 * SumTo(moment, ResponseLength)
          = TwiceLatency(os.factor) * SumTo(response, ResponseLength)
=============================================================================
