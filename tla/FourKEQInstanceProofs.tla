------------------------ MODULE FourKEQInstanceProofs ------------------------
(***************************************************************************)
(* The composition: what the invariant of the shell means for the core it  *)
(* wraps.                                                                  *)
(***************************************************************************)
EXTENDS FourKEQInstance, FourKEQPluginProofs

-----------------------------------------------------------------------------
(* What the core is handed. *)

\* Whatever the shell publishes, the core is handed integers.
LEMMA PushedIsASetting ==
  ASSUME NEW vals, \A k \in Keys : InRange(k, vals[k])
  PROVE  Pushed(vals) \in [Param -> Int]
<1>1. \A k \in Keys, v \in Int : Push(k, v) \in Int
  BY DEF Push
<1> QED
  BY <1>1, InRangeIsInt DEF Pushed

LEMMA InstancePInit == InstanceInit => PInv
BY PInvInit DEF InstanceInit

LEMMA InstancePNext == PInv /\ [InstanceNext]_instanceVars => PInv'
<1> SUFFICES ASSUME PInv, [InstanceNext]_instanceVars PROVE PInv'
  OBVIOUS
<1>1. CASE ControlCall
  <2>1. Next
    BY <1>1 DEF ControlCall, Control, Next
  <2> QED
    BY <2>1, PInvNext
<1>2. CASE UNCHANGED <<shell, p>>
  BY <1>2, PInvNext DEF shell, vars
<1>3. CASE BlockStage
  <2>1. UNCHANGED <<shell, p>>
    BY <1>3 DEF BlockStage, Core!Chunk, Core!Factor, Core!Console,
      Core!RecomputeCoeffs, Core!Filters, Core!Input, Core!Bands, Core!Run,
      Core!AutoGainCached, Core!AutoGainMiss, Core!Scan, Core!Mix
  <2> QED
    BY <1>2, <2>1
<1>4. CASE BlockEnd
  <2>1. UNCHANGED p
    BY <1>4 DEF BlockEnd, Core!Mix
  <2>2. UNCHANGED shell \/ Process(1)
    BY <1>4 DEF BlockEnd
  <2>3. CASE Process(1)
    BY <2>3, PInvNext DEF Next
  <2> QED
    BY <1>2, <2>1, <2>2, <2>3
<1>5. CASE UNCHANGED instanceVars
  BY <1>2, <1>5 DEF instanceVars
<1> QED
  BY <1>1, <1>3, <1>4, <1>5 DEF InstanceNext

-----------------------------------------------------------------------------
(* What is heard.  The core's own theorems are taken for this instance of it. *)

Proved == INSTANCE FourKEQDSPProofs WITH Settings <- [Param -> Int]

\* Core and Proved are one core: its stages, its start and its voices.
LEMMA SameChunk == Core!Chunk => Proved!Chunk
<1>1. Core!Factor => Proved!Factor
  BY DEF Core!Factor, Core!ChooseFactor, Core!SwitchFactor, Core!Latency,
     Core!Clean, Core!Recursive, Core!Section, Proved!Factor,
     Proved!ChooseFactor, Proved!SwitchFactor, Proved!Latency, Proved!Clean,
     Proved!Recursive, Proved!Section
<1>2. Core!Console => Proved!Console
  BY DEF Core!Console, Proved!Console
<1>3. Core!RecomputeCoeffs => Proved!RecomputeCoeffs
  BY DEF Core!RecomputeCoeffs, Core!Designs, Core!Design, Core!Inputs,
     Core!Section, Proved!RecomputeCoeffs, Proved!Designs, Proved!Design,
     Proved!Inputs, Proved!Section
<1>4. Core!Filters => Proved!Filters
  BY DEF Core!Filters, Core!EnabledFilters, Core!HeardFilters,
     Core!ClearedOnEnable, Core!Recursive, Core!Section, Proved!Filters,
     Proved!EnabledFilters, Proved!HeardFilters, Proved!ClearedOnEnable,
     Proved!Recursive, Proved!Section
<1>5. Core!Input => Proved!Input
  BY DEF Core!Input, Proved!Input
<1>6. Core!Bands => Proved!Bands
  BY DEF Core!Bands, Core!HeardBands, Core!Silenced, Core!Recursive,
     Core!Section, Proved!Bands, Proved!HeardBands, Proved!Silenced,
     Proved!Recursive, Proved!Section
<1>7. Core!Run => Proved!Run
  BY DEF Core!Run, Core!Running, Core!Recursive, Core!Section, Proved!Run,
     Proved!Running, Proved!Recursive, Proved!Section
<1>8. Core!AutoGainCached => Proved!AutoGainCached
  BY DEF Core!AutoGainCached, Core!CacheHit, Core!Key, Core!KeyParams,
     Core!Unity, Proved!AutoGainCached, Proved!CacheHit, Proved!Key,
     Proved!KeyParams, Proved!Unity
<1>9. Core!AutoGainMiss => Proved!AutoGainMiss
  BY DEF Core!AutoGainMiss, Core!CacheHit, Core!Key, Core!KeyParams,
     Proved!AutoGainMiss, Proved!CacheHit, Proved!Key, Proved!KeyParams
<1>10. Core!Scan => Proved!Scan
  BY DEF Core!Scan, Core!AutoComp, Core!Heard, Core!HeardFilters,
     Core!HeardBands, Proved!Scan, Proved!AutoComp, Proved!Heard,
     Proved!HeardFilters, Proved!HeardBands
<1>11. Core!Mix => Proved!Mix
  BY DEF Core!Mix, Core!Rendered, Core!NextPower, Core!BypassTarget,
     Core!NoLocals, Core!Unity, Proved!Mix, Proved!Rendered,
     Proved!NextPower, Proved!BypassTarget, Proved!NoLocals, Proved!Unity
<1> QED
  BY <1>1, <1>2, <1>3, <1>4, <1>5, <1>6, <1>7, <1>8, <1>9, <1>10, <1>11
     DEF Core!Chunk, Proved!Chunk

LEMMA SameInit == Core!Init => Proved!Init
BY DEF Core!Init, Core!ChooseFactor, Core!Latency, Core!Designs, Core!Design,
       Core!Inputs, Core!Section, Core!EnabledFilters, Core!HeardFilters,
       Core!Clean, Core!Recursive, Core!KeyParams, Core!Unity,
       Core!BypassTarget, Core!Silent, Core!NoLocals,
       Proved!Init, Proved!ChooseFactor, Proved!Latency, Proved!Designs,
       Proved!Design, Proved!Inputs, Proved!Section, Proved!EnabledFilters,
       Proved!HeardFilters, Proved!Clean, Proved!Recursive, Proved!KeyParams,
       Proved!Unity, Proved!BypassTarget, Proved!Silent, Proved!NoLocals

LEMMA SameVoice ==
  ASSUME NEW setting, NEW r
  PROVE  Proved!Voice(setting, r) = Voice(setting, r)
BY DEF Voice, ChooseFactor, Designs, Design, Inputs, Section, Heard,
       HeardFilters, HeardBands, AutoComp, Unity,
       Proved!Voice, Proved!ChooseFactor, Proved!Designs, Proved!Design,
       Proved!Inputs, Proved!Section, Proved!Heard, Proved!HeardFilters,
       Proved!HeardBands, Proved!AutoComp, Proved!Unity

LEMMA SameSettings == [Param -> Int] \subseteq [Proved!Param -> Int]
BY DEF Param, Proved!Param

\* The core's invariant holds around the shell, whose callbacks are its
\* Configure.
LEMMA HeardInit == InstanceInit => Proved!IInv
BY SameInit, Proved!IInvInit, InstanceAssumption, SameSettings DEF InstanceInit

LEMMA HeardNext ==
  PInv /\ Proved!IInv /\ [InstanceNext]_instanceVars => Proved!IInv'
<1> SUFFICES ASSUME PInv, Proved!IInv, [InstanceNext]_instanceVars
             PROVE  Proved!IInv'
  OBVIOUS
<1>1. [Proved!SerialNext]_(Proved!vars)
  <2>0. p' \in [Param -> Int]
    <3>1. PInv'
      BY InstancePNext
    <3> QED
      BY <3>1, PushedIsASetting DEF PInv, ValuesOK, VoicedAsShown
  <2>1. CASE ControlCall
    BY <2>0, <2>1 DEF ControlCall, core, Proved!SerialNext, Proved!Configure,
                      Proved!engine
  <2>2. CASE BlockStage
    BY <2>2, SameChunk DEF BlockStage, Proved!SerialNext
  <2>3. CASE BlockEnd
    BY <2>3, SameChunk DEF BlockEnd, Core!Chunk, Proved!SerialNext
  <2>4. CASE UNCHANGED instanceVars
    BY <2>4 DEF instanceVars, core, Proved!vars, Proved!engine
  <2> QED
    BY <2>1, <2>2, <2>3, <2>4 DEF InstanceNext
<1> QED
  BY <1>1, Proved!IInvNext, InstanceAssumption, SameSettings

\* The last stage renders the voice of the settings, and the settings are what
\* the shell has pushed.
LEMMA HeardStep ==
  ASSUME PInv, Proved!IInv, [InstanceNext]_instanceVars, pc = "mix", pc' = "idle"
  PROVE  out' = Voice(Pushed(values), rate)
<1>1. Core!Mix
  BY DEF InstanceNext, instanceVars, core, ControlCall, BlockStage, BlockEnd
<1>2. out' = Proved!Rendered
  BY <1>1 DEF Core!Mix, Core!Rendered, Proved!Rendered
<1>3. Proved!Rendered = Proved!Voice(p, rate)
  BY Proved!RenderedIsVoice, InstanceAssumption, SameSettings
<1> QED
  BY <1>2, <1>3, SameVoice DEF PInv, VoicedAsShown

\* What is heard is what is shown: whatever the host calls between blocks, and
\* in whatever order, a block is rendered with the voice of the values the surface
\* publishes.
THEOREM WhatIsShownIsHeard == InstanceSpec => HeardIsShown
<1>1. InstanceInit => PInv /\ Proved!IInv
  BY InstancePInit, HeardInit
<1>2. PInv /\ Proved!IInv /\ [InstanceNext]_instanceVars => PInv' /\ Proved!IInv'
  BY InstancePNext, HeardNext
<1>3. PInv /\ Proved!IInv /\ [InstanceNext]_instanceVars
        => [pc = "mix" /\ pc' = "idle" =>
              out' = Voice(Pushed(values), rate)]_instanceVars
  BY HeardStep
<1> QED
  BY <1>1, <1>2, <1>3, PTL DEF InstanceSpec, HeardIsShown
=============================================================================
