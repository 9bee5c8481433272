---------------------------- MODULE Int16Samples ----------------------------
(***************************************************************************)
(* The two ends of process_block: an int16 sample becomes a float and a    *)
(* float an int16 again.  A float is an integer number of Unit-ths of the  *)
(* least significant bit; both full scale and Unit are exact.              *)
(***************************************************************************)
EXTENDS Integers

CONSTANTS FullScale,  \* 32768
          Unit        \* how finely the model resolves a float

ASSUME ScaleAssumption ==
  /\ FullScale \in Nat \ {0}
  /\ Unit \in Nat \ {0}

Int16 == -FullScale..FullScale-1

\* p * (1.0f / 32768.0f).
ToFloat(x) == x * Unit

\* The scale on the way out, and the rails in it.
OutScaleAsymmetric(y) == (y * (FullScale - 1)) \div FullScale

OutScale(y) == y

Top == (FullScale - 1) * Unit
Bottom == -FullScale * Unit

Clips(y) == OutScale(y) > Top \/ OutScale(y) < Bottom

\* (int16_t): toward zero.
Truncate(v) == IF v < 0 THEN -((-v) \div Unit) ELSE v \div Unit

ToInt16(y) ==
  LET v == OutScale(y)
  IN  Truncate(IF v > Top THEN Top ELSE IF v < Bottom THEN Bottom ELSE v)
=============================================================================
