----------------------------- MODULE FourKEQDSP -----------------------------
(***************************************************************************)
(* duskaudio::FourKEQDSP, one action per stage of processChunk, in the     *)
(* order of the code.  A stage loads its parameter atomics in one step;    *)
(* between two stages any other thread may store one (ConcurrentSpec, the  *)
(* contract in the header: "set*() atomic from any thread"), or nothing    *)
(* moves until the block is done (SerialSpec, the discipline of the shell, *)
(* whose callbacks share one thread with process_block).                   *)
(*                                                                         *)
(* Samples, meters and the spectrum taps are abstracted away: `out` is     *)
(* what the block was made of, `mem` the age of every recursive state.     *)
(***************************************************************************)
EXTENDS FourKEQResponse

CONSTANTS Settings,  \* the settings the control side may choose
          Rates,     \* the base sample rates the host may prepare for
          PowerMax,  \* 1.0f of the bypass crossfade, in integer steps
          Settled    \* 0.001f, the latency gate, in the same steps

ASSUME SettingsAssumption == Settings \subseteq [Param -> Int]
ASSUME RatesAssumption == Rates \subseteq Nat
ASSUME PowerAssumption ==
  /\ PowerMax \in Nat
  /\ Settled \in Nat
  /\ Settled < PowerMax

VARIABLES
  p,                 \* the parameter atomics
  rate,              \* baseSampleRate
  curFactor,         \* the oversampling factor in use
  reportedLatency,   \* its latency, published for the host
  satRate,           \* the rate consoleSat is tuned for
  coef,              \* the coefficients of every section
  lastEnabled,       \* lastHpfEnabled and lastLpfEnabled, as a set
  mem,               \* the recursive state of every section, by age
  autoGainSnap,      \* the key of the cached compensation
  autoCompCached,    \* the cached compensation
  autoCompValid,     \* ... and whether there is one
  power,             \* powerSmoother's current value
  lastSmoothedPower, \* ... as published at the end of the last block
  out,               \* the voice of the last rendered block
  local,             \* the locals of processChunk
  pc                 \* the stage the audio thread is about to run

engine == <<rate, curFactor, reportedLatency, satRate, coef, lastEnabled, mem,
            autoGainSnap, autoCompCached, autoCompValid, power,
            lastSmoothedPower, out, local, pc>>
vars == <<p, engine>>

\* Everything that carries state from one sample to the next: the sections,
\* the two stages of the oversampler and the console saturator.
Recursive == Section \cup {"osA", "osB", "sat"}

Stages == {"idle", "console", "coeffs", "filters", "input", "bands", "run",
           "autogain", "scan", "mix"}

\* The locals before a block has set any of them.
NoLocals == [black |-> 0, inGain |-> 0, ms |-> 0, saturation |-> 0,
             filters |-> {}, bands |-> {}, autoComp |-> Unity]

\* A core that has not rendered yet.
Silent == [chain |-> [s \in {} |-> 0]]

Clean == [m \in Recursive |-> "clean"]

-----------------------------------------------------------------------------
(* Control side: the setters, and what may be called between blocks. *)

\* set*(): one relaxed store, from any thread, at any moment.
Set ==
  \E q \in Param, new \in Settings :
    /\ new[q] # p[q]
    /\ \A r \in Param \ {q} : new[r] = p[r]
    /\ p' = new
    /\ UNCHANGED engine

\* A control callback: any number of setters, all between two blocks.
Configure ==
  /\ pc = "idle"
  /\ p' \in Settings
  /\ UNCHANGED engine

BypassTarget(setting) == IF setting["bypass"] = 1 THEN 0 ELSE PowerMax

EnabledFilters(setting) == HeardFilters(setting)

\* prepare() followed by the reset() it ends with: everything is designed
\* anew for the rate and every recursive state cleared; reset() only marks
\* the cached compensation invalid.
PrepareKeepingCache ==
  /\ pc = "idle"
  /\ \E r \in Rates :
       LET factor == ChooseFactor(r, p["oversampling"])
       IN  /\ rate' = r
           /\ curFactor' = factor
           /\ reportedLatency' = Latency(factor)
           /\ satRate' = r * factor
           /\ coef' = Designs(p, r, factor)
  /\ power' = BypassTarget(p)
  /\ lastSmoothedPower' = BypassTarget(p)
  /\ lastEnabled' = EnabledFilters(p)
  /\ mem' = Clean
  /\ UNCHANGED <<p, autoGainSnap, autoCompCached, autoCompValid, out, local, pc>>

Prepare ==
  /\ pc = "idle"
  /\ \E r \in Rates :
       LET factor == ChooseFactor(r, p["oversampling"])
       IN  /\ rate' = r
           /\ curFactor' = factor
           /\ reportedLatency' = Latency(factor)
           /\ satRate' = r * factor
           /\ coef' = Designs(p, r, factor)
  /\ power' = BypassTarget(p)
  /\ lastSmoothedPower' = BypassTarget(p)
  /\ lastEnabled' = EnabledFilters(p)
  /\ mem' = Clean
  /\ autoCompValid' = FALSE
  /\ UNCHANGED <<p, autoGainSnap, autoCompCached, out, local, pc>>

-----------------------------------------------------------------------------
(* The stages of processChunk. *)

\* A new oversampling factor: set it everywhere and drop every state that
\* was recorded at the old rate.
SwitchFactorKeepingRate(factor) ==
  /\ curFactor' = factor
  /\ mem' = Clean
  /\ satRate' = satRate
  /\ reportedLatency' = Latency(factor)

SwitchFactor(factor) ==
  /\ curFactor' = factor
  /\ mem' = Clean
  /\ satRate' = rate * factor
  /\ reportedLatency' = Latency(factor)

Factor ==
  /\ pc = "idle"
  /\ LET wantFactor == ChooseFactor(rate, p["oversampling"])
     IN  IF wantFactor # curFactor
           THEN SwitchFactor(wantFactor)
           ELSE UNCHANGED <<curFactor, mem, satRate, reportedLatency>>
  /\ pc' = "console"
  /\ UNCHANGED <<p, rate, coef, lastEnabled, autoGainSnap, autoCompCached,
                 autoCompValid, power, lastSmoothedPower, out, local>>

\* The voicing of the saturator, and of its drive and rail further down.
Console ==
  /\ pc = "console"
  /\ local' = [local EXCEPT !.black = p["eq_type"]]
  /\ pc' = "coeffs"
  /\ UNCHANGED <<p, rate, curFactor, reportedLatency, satRate, coef,
                 lastEnabled, mem, autoGainSnap, autoCompCached,
                 autoCompValid, power, lastSmoothedPower, out>>

RecomputeCoeffs ==
  /\ pc = "coeffs"
  /\ coef' = Designs(p, rate, curFactor)
  /\ pc' = "filters"
  /\ UNCHANGED <<p, rate, curFactor, reportedLatency, satRate, lastEnabled,
                 mem, autoGainSnap, autoCompCached, autoCompValid, power,
                 lastSmoothedPower, out, local>>

\* A filter that was out in the last block starts from a clear state.
ClearedOnEnableNever(enabled) == {}

ClearedOnEnable(enabled) == enabled \ lastEnabled

Filters ==
  /\ pc = "filters"
  /\ LET enabled == EnabledFilters(p)
     IN  /\ mem' = [m \in Recursive |->
                      IF m \in ClearedOnEnable(enabled) THEN "clean" ELSE mem[m]]
         /\ lastEnabled' = enabled
         /\ local' = [local EXCEPT !.filters = enabled]
  /\ pc' = "input"
  /\ UNCHANGED <<p, rate, curFactor, reportedLatency, satRate, coef,
                 autoGainSnap, autoCompCached, autoCompValid, power,
                 lastSmoothedPower, out>>

\* Input gain and the M/S switch.
Input ==
  /\ pc = "input"
  /\ local' = [local EXCEPT !.inGain = p["input_gain"], !.ms = p["ms_mode"]]
  /\ pc' = "bands"
  /\ UNCHANGED <<p, rate, curFactor, reportedLatency, satRate, coef,
                 lastEnabled, mem, autoGainSnap, autoCompCached,
                 autoCompValid, power, lastSmoothedPower, out>>

\* The band sections that are bypassed in this block; their state is reset.
SilencedBandsOnly(bands) == {"lf", "lm", "hm", "hf"} \ bands

Silenced(bands) ==
  {"lf", "lm", "hm", "hf", "lowCorrection", "highCorrection"} \ bands

Bands ==
  /\ pc = "bands"
  /\ LET bands == HeardBands(p)
     IN  /\ mem' = [m \in Recursive |->
                      IF m \in Silenced(bands) THEN "clean" ELSE mem[m]]
         /\ local' = [local EXCEPT !.bands = bands,
                                   !.saturation = p["saturation"]]
  /\ pc' = "run"
  /\ UNCHANGED <<p, rate, curFactor, reportedLatency, satRate, coef,
                 lastEnabled, autoGainSnap, autoCompCached, autoCompValid,
                 power, lastSmoothedPower, out>>

\* What the sample loop processes: the sections in the path, the oversampler
\* stages of the factor, and always the saturator.
Running ==
  local.filters \cup local.bands \cup {"sat"}
    \cup {m \in {"osA"} : curFactor > 1} \cup {m \in {"osB"} : curFactor > 2}

\* The sample loop.  State that is left out of it grows old.
Run ==
  /\ pc = "run"
  /\ mem' = [m \in Recursive |->
               IF m \in Running THEN "live"
               ELSE IF mem[m] = "live" THEN "stale" ELSE mem[m]]
  /\ pc' = "autogain"
  /\ UNCHANGED <<p, rate, curFactor, reportedLatency, satRate, coef,
                 lastEnabled, autoGainSnap, autoCompCached, autoCompValid,
                 power, lastSmoothedPower, out, local>>

CacheHit == autoCompValid /\ autoGainSnap = Key(p, curFactor)

\* Auto-gain off, or a valid cache for this snapshot: no scan.
AutoGainCached ==
  /\ pc = "autogain"
  /\ \/ /\ p["auto_gain"] # 1
        /\ local' = [local EXCEPT !.autoComp = Unity]
     \/ /\ p["auto_gain"] = 1
        /\ CacheHit
        /\ local' = [local EXCEPT !.autoComp = autoCompCached]
  /\ pc' = "mix"
  /\ UNCHANGED <<p, rate, curFactor, reportedLatency, satRate, coef,
                 lastEnabled, mem, autoGainSnap, autoCompCached,
                 autoCompValid, power, lastSmoothedPower, out>>

\* A miss: the snapshot just loaded becomes the key ...
AutoGainMiss ==
  /\ pc = "autogain"
  /\ p["auto_gain"] = 1
  /\ ~CacheHit
  /\ autoGainSnap' = Key(p, curFactor)
  /\ pc' = "scan"
  /\ UNCHANGED <<p, rate, curFactor, reportedLatency, satRate, coef,
                 lastEnabled, mem, autoCompCached, autoCompValid, power,
                 lastSmoothedPower, out, local>>

\* ... and the scan measures the coefficients of this block, with the gains
\* and enables loaded once more.
Scan ==
  /\ pc = "scan"
  /\ autoCompCached' = AutoComp(coef, p, rate * curFactor)
  /\ autoCompValid' = TRUE
  /\ local' = [local EXCEPT !.autoComp = autoCompCached']
  /\ pc' = "mix"
  /\ UNCHANGED <<p, rate, curFactor, reportedLatency, satRate, coef,
                 lastEnabled, mem, autoGainSnap, power, lastSmoothedPower, out>>

\* One block of the bypass one-pole.  In floats its steps die out just short of
\* a target of 1, where the last of them rounds away, and only far below what
\* an int16 shows for a target of 0, so that on the way down it arrives.
NextPowerSticking(current, target) ==
  IF target < current THEN current - (current - target) \div 4
                      ELSE current + (target - current) \div 4

NextPower(current, target) ==
  IF target < current THEN target + ((current - target) * 3) \div 4
                      ELSE current + (target - current) \div 4

\* What the block was made of.
Rendered ==
  [chain      |-> [s \in local.filters \cup local.bands |-> coef[s]],
   satRate    |-> satRate,
   console    |-> local.black,
   saturation |-> local.saturation,
   ms         |-> local.ms,
   inGain     |-> local.inGain,
   outGain    |-> p["output_gain"],
   comp       |-> local.autoComp]

\* Output gain, bypass crossfade, and the end of the block.
Mix ==
  /\ pc = "mix"
  /\ out' = Rendered
  /\ power' = NextPower(power, BypassTarget(p))
  /\ lastSmoothedPower' = power'
  /\ local' = NoLocals
  /\ pc' = "idle"
  /\ UNCHANGED <<p, rate, curFactor, reportedLatency, satRate, coef,
                 lastEnabled, mem, autoGainSnap, autoCompCached, autoCompValid>>

-----------------------------------------------------------------------------

\* The core as create_instance leaves it: seeded, prepared and reset.
Init ==
  /\ p \in Settings
  /\ rate \in Rates
  /\ curFactor = ChooseFactor(rate, p["oversampling"])
  /\ reportedLatency = Latency(curFactor)
  /\ satRate = rate * curFactor
  /\ coef = Designs(p, rate, curFactor)
  /\ lastEnabled = EnabledFilters(p)
  /\ mem = Clean
  /\ autoGainSnap = [of |-> [q \in KeyParams |-> 0], factor |-> 0]
  /\ autoCompCached = Unity
  /\ autoCompValid = FALSE
  /\ power = BypassTarget(p)
  /\ lastSmoothedPower = power
  /\ out = Silent
  /\ local = NoLocals
  /\ pc = "idle"

\* The audio thread.
Chunk ==
  \/ Factor \/ Console \/ RecomputeCoeffs \/ Filters \/ Input \/ Bands \/ Run
  \/ AutoGainCached \/ AutoGainMiss \/ Scan \/ Mix

ConcurrentNext == Set \/ Prepare \/ Chunk
SerialNext == Configure \/ Prepare \/ Chunk

SerialSpec == Init /\ [][SerialNext]_vars

\* The host calls process_block once per audio period and it never waits.
ConcurrentSpec == Init /\ [][ConcurrentNext]_vars /\ WF_vars(Chunk)

-----------------------------------------------------------------------------
(* What the host reads. *)

\* getLatencySamples: 0 once the crossfade is below the gate.
GetLatency == IF lastSmoothedPower <= Settled THEN 0 ELSE reportedLatency

-----------------------------------------------------------------------------
(* Properties. *)

Factors == {1, 2, 4}

\* Compensations, and voices, are left to what they are compared with.
TypeOK ==
  /\ p \in Settings
  /\ rate \in Rates
  /\ curFactor \in Factors
  /\ reportedLatency \in {0, 23, 27}
  /\ satRate \in Nat
  /\ DOMAIN coef = Section
  /\ lastEnabled \subseteq {"hpf", "lpf"}
  /\ mem \in [Recursive -> {"clean", "live", "stale"}]
  /\ autoGainSnap.factor \in Factors \cup {0}
  /\ DOMAIN autoGainSnap.of = KeyParams
  /\ autoCompValid \in BOOLEAN
  /\ power \in 0..PowerMax
  /\ lastSmoothedPower \in 0..PowerMax
  /\ local.filters \subseteq {"hpf", "lpf"}
  /\ local.bands \subseteq Section \ {"hpf", "lpf"}
  /\ pc \in Stages

\* The compensation a scan would measure for the parameters of a snapshot.
CompOf(snap) ==
  AutoComp(Designs(snap.of, rate, snap.factor), snap.of, rate * snap.factor)

\* The auto-gain cache never lies: while it is valid, what it holds is the
\* compensation of the parameters it is keyed on (at "scan" the new key is
\* already stored and the new value not yet).  It rests on the key naming
\* every parameter a section in the path is designed from, on reset()
\* invalidating it, and on nobody moving a parameter inside a block.
CacheSound ==
  autoCompValid /\ pc # "scan" => autoCompCached = CompOf(autoGainSnap)

\* No section, oversampler stage or saturator ever resumes from state it was
\* left with before it was taken out of the path, or at another rate: it runs
\* on from the block before or starts clear, however its switches moved.
NoStaleState == pc = "run" => \A m \in Running : mem[m] # "stale"

\* Every block is rendered with the voice of the settings in force, as though
\* nothing were cached: the core implements the memoryless EQPromise.
Promise == INSTANCE EQPromise WITH settings <- p
PromiseKept == Promise!Spec

\* Nobody touches a parameter or the sample rate any more.
Quiet == <>[][FALSE]_<<p, rate>>

InVoice(field) == out # Silent /\ out[field] = Voice(p, rate)[field]

\* Once the controls are left alone, everything but the auto-gain settles on
\* the voice of the settings, whatever the setters raced with before.
VoiceSettles ==
  Quiet => <>[](\A f \in DOMAIN Voice(p, rate) \ {"comp"} : InVoice(f))

\* ... and so does the auto-gain compensation: the header has it "stepping in
\* lock-step" with the coefficients, re-scanned when a parameter changes.
AutoGainSettles == Quiet => <>[]InVoice("comp")

\* The bypass crossfade ends: a core left bypassed comes to add nothing to the
\* dry path and to report no latency, a core left active to report the delay
\* of the oversampling it runs at.
BypassSettles ==
  /\ <>[](p["bypass"] = 1) => <>[](power = 0 /\ GetLatency = 0)
  /\ <>[](p["bypass"] = 0) => <>[](GetLatency = Latency(curFactor))

\* What the last block did to a sine, apart from gains: the sections it was
\* chained of, at the rates they ran at, and the saturator.
HeardResponse ==
  [sections  |-> [s \in DOMAIN out.chain |->
                    [coef |-> out.chain[s],
                     omegaAt |-> IF s = "hpf" THEN rate ELSE rate * curFactor]],
   saturator |-> [response |-> ConsoleSat(out.console, out.saturation, satRate),
                  omegaAt |-> rate * curFactor]]

\* The curve an editor draws from the controls is the sound: whenever a block
\* has been rendered, designCurve and curveDbAt multiply the very responses
\* the block went through, at the host's rate and the oversampling in use.
CurveIsHeard ==
  [][pc = "mix" /\ pc' = "idle" =>
       CurveAt(DesignCurve(p, rate)) = HeardResponse']_vars
=============================================================================
