----------------------------- MODULE EQPromise -----------------------------
(***************************************************************************)
(* What the core promises its host, with no cache, no stages and no        *)
(* memory: every block is rendered with exactly the voice of the settings  *)
(* in force, as though everything had been recomputed from scratch.        *)
(***************************************************************************)
EXTENDS FourKEQResponse

CONSTANTS Settings,  \* the settings the control side may choose
          Rates      \* the base sample rates the host may prepare for

VARIABLES settings,  \* the parameters as last set
          rate,      \* the base sample rate
          out        \* the voice of the last rendered block

vars == <<settings, rate, out>>

\* A core that has not rendered yet has no voice.
Silent == [chain |-> [s \in {} |-> 0]]

Init ==
  /\ settings \in Settings
  /\ rate \in Rates
  /\ out = Silent

\* The control side moves any number of parameters between two blocks.
Configure ==
  /\ settings' \in Settings
  /\ UNCHANGED <<rate, out>>

\* The host prepares the core again, maybe at another rate.
Prepare ==
  /\ rate' \in Rates
  /\ UNCHANGED <<settings, out>>

\* One block.
Render ==
  /\ out' = Voice(settings, rate)
  /\ UNCHANGED <<settings, rate>>

Next == Configure \/ Prepare \/ Render

Spec == Init /\ [][Next]_vars
============================================================================
