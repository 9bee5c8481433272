-------------------------- MODULE FourKEQInstance --------------------------
(***************************************************************************)
(* One live instance: the shell of FourKEQPlugin around the core of        *)
(* FourKEQDSP, sharing the parameter atomics p.                            *)
(*                                                                         *)
(* The host (external) is assumed to keep the contract the head of         *)
(* fourk_eq_plugin.cpp documents: set_param, get_param and process_block   *)
(* are called from one thread, so that no control call lands inside a      *)
(* block.  Nothing in the code enforces it.  What a setter on another      *)
(* thread would do is a question about the core alone, and is asked there  *)
(* (ConcurrentSpec of FourKEQDSP).                                         *)
(***************************************************************************)
EXTENDS FourKEQPlugin

CONSTANTS Rates, PowerMax, Settled  \* those of FourKEQDSP

ASSUME InstanceAssumption ==
  /\ Rates \subseteq Nat
  /\ PowerMax \in Nat
  /\ Settled \in Nat
  /\ Settled < PowerMax

VARIABLES rate, curFactor, reportedLatency, satRate, coef, lastEnabled, mem,
          autoGainSnap, autoCompCached, autoCompValid, power,
          lastSmoothedPower, out, local, pc

shell == <<values, preset, clip_count, saved, clipped, told>>

core == <<rate, curFactor, reportedLatency, satRate, coef, lastEnabled, mem,
          autoGainSnap, autoCompCached, autoCompValid, power,
          lastSmoothedPower, out, local, pc>>

Core == INSTANCE FourKEQDSP WITH Settings <- [Param -> Int]

instanceVars == <<shell, p, core>>

\* What a control call may do to the shell and the parameter atomics.
Control ==
  \/ \E m \in Moves : SetNamed(m[1], m[2])
  \/ \E index \in Recalls : Recall(index)
  \/ \E reader \in {"panel", "set"} : Read(reader)
  \/ RestoreSaved
  \/ \E blob \in OldBlobs : Restore(blob)

\* ... and when: the host's side of the contract.
ControlCall ==
  /\ pc = "idle"
  /\ Control
  /\ UNCHANGED core

\* A block under way: everything of it but its last stage.
BlockStage ==
  /\ pc # "mix"
  /\ Core!Chunk
  /\ UNCHANGED shell

\* The last stage, and the shell's conversion to int16 after it.
BlockEnd ==
  /\ Core!Mix
  /\ \/ UNCHANGED shell
     \/ Process(1)

\* create_instance: every value seeded, then the core prepared.
InstanceInit == Init /\ Core!Init

InstanceNext == ControlCall \/ BlockStage \/ BlockEnd

InstanceSpec == InstanceInit /\ [][InstanceNext]_instanceVars

-----------------------------------------------------------------------------
(* Properties. *)

\* What is heard is what is shown: under the host's contract every block is
\* rendered with the voice of the values the surface published when it began.
HeardIsShown ==
  [][pc = "mix" /\ pc' = "idle" => out' = Voice(Pushed(values), rate)]_instanceVars
=============================================================================
