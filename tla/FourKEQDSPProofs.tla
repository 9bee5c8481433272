-------------------------- MODULE FourKEQDSPProofs --------------------------
(***************************************************************************)
(* Theorems about FourKEQDSP, for every set of settings and rates.         *)
(*                                                                         *)
(* TypeOK and the recursive states (MemInv) do not depend on who moves the *)
(* parameters when: they are proved of both specifications.  The auto-gain *)
(* cache and the promise need a block whose parameters stand still, and    *)
(* are proved of SerialSpec, from what each stage leaves behind (StageInv).*)
(***************************************************************************)
EXTENDS FourKEQDSP, TLAPS

-----------------------------------------------------------------------------
(* The inductive invariants. *)

LocalFields == {"black", "inGain", "ms", "saturation", "filters", "bands",
                "autoComp"}

\* TypeOK, and that the locals are a record.
TypeInv == TypeOK /\ DOMAIN local = LocalFields

PastFactor  == Stages \ {"idle"}
PastConsole == PastFactor \ {"console"}
PastCoeffs  == PastConsole \ {"coeffs"}
PastFilters == PastCoeffs \ {"filters"}
PastInput   == PastFilters \ {"input"}
PastBands   == PastInput \ {"bands"}

BandSections == {"lf", "lm", "hm", "hf", "lowCorrection", "highCorrection"}

\* Why no state that runs is stale: a filter is stale only while it is out,
\* a band section is cleared whenever it is out, the oversampler when the
\* factor changes, and the saturator is never out.
MemInv ==
  /\ \A s \in {"hpf", "lpf"} : mem[s] = "stale" => s \notin lastEnabled
  /\ pc \in PastFilters => local.filters = lastEnabled
  /\ \A s \in BandSections : mem[s] # "stale"
  /\ pc = "run" => \A s \in BandSections \ local.bands : mem[s] = "clean"
  /\ mem["sat"] # "stale"
  /\ mem["osA"] # "stale" /\ (curFactor = 1 => mem["osA"] = "clean")
  /\ mem["osB"] # "stale" /\ (curFactor # 4 => mem["osB"] = "clean")

\* The compensation a scan of the current settings would measure.
Comp == AutoComp(Designs(p, rate, curFactor), p, rate * curFactor)

\* What each stage of a serial block leaves behind for the stages after it.
StageInv ==
  /\ satRate = rate * curFactor
  /\ pc \in PastFactor  => curFactor = ChooseFactor(rate, p["oversampling"])
  /\ pc \in PastConsole => local.black = p["eq_type"]
  /\ pc \in PastCoeffs  => coef = Designs(p, rate, curFactor)
  /\ pc \in PastFilters => local.filters = HeardFilters(p)
  /\ pc \in PastInput   => /\ local.inGain = p["input_gain"]
                           /\ local.ms = p["ms_mode"]
  /\ pc \in PastBands   => /\ local.bands = HeardBands(p)
                           /\ local.saturation = p["saturation"]
  /\ pc = "scan"        => /\ p["auto_gain"] = 1
                           /\ autoGainSnap = Key(p, curFactor)
  /\ pc = "mix"         => local.autoComp = IF p["auto_gain"] = 1
                                              THEN Comp ELSE Unity

IInv == TypeInv /\ StageInv /\ CacheSound

-----------------------------------------------------------------------------
(* Lemmas about the operators of FourKEQResponse. *)

\* The oversampling factor is always one of the three the oversampler has, and
\* its latency one of the three that can be reported.
LEMMA FactorIsKnown ==
  ASSUME NEW r \in Nat, NEW m \in Int
  PROVE  /\ ChooseFactor(r, m) \in Factors
         /\ r * ChooseFactor(r, m) \in Nat
         /\ Latency(ChooseFactor(r, m)) \in {0, 23, 27}
<1>1. ChooseFactor(r, m) \in Factors
  BY DEF ChooseFactor, Factors
<1>2. r * ChooseFactor(r, m) \in Nat
  BY <1>1 DEF Factors
<1> QED
  BY <1>1, <1>2 DEF Latency

\* The key of the auto-gain cache names every parameter the compensation rests
\* on: measured from the key alone, it is the one measured from the settings.
LEMMA KeyCovers ==
  ASSUME NEW setting \in [Param -> Int], NEW r, NEW f
  PROVE  LET k == Key(setting, f).of
         IN  AutoComp(Designs(k, r, f), k, r * f)
               = AutoComp(Designs(setting, r, f), setting, r * f)
<1> DEFINE k == Key(setting, f).of
<1>1. k = [q \in KeyParams |-> setting[q]]
  BY DEF Key
<1>2. ASSUME NEW s \in Section
      PROVE  Inputs(s) \subseteq KeyParams
  BY <1>2 DEF Section, Inputs, KeyParams
<1>3. Heard(k) = Heard(setting)
  <2>1. HeardFilters(k) = HeardFilters(setting)
    BY <1>1 DEF HeardFilters, KeyParams
  <2>2. HeardBands(k) = HeardBands(setting)
    BY <1>1 DEF HeardBands, KeyParams
  <2> QED
    BY <2>1, <2>2 DEF Heard
<1>4. ASSUME NEW s \in Section
      PROVE  Design(s, k, r, f) = Design(s, setting, r, f)
  <2>1. [q \in Inputs(s) |-> k[q]] = [q \in Inputs(s) |-> setting[q]]
    BY <1>1, <1>2
  <2> QED
    BY <2>1 DEF Design
<1>5. Designs(k, r, f) = Designs(setting, r, f)
  BY <1>4 DEF Designs
<1> QED
  BY <1>3, <1>5 DEF AutoComp

-----------------------------------------------------------------------------
(* Types. *)

LEMMA TypeInit == Init => TypeInv
<1> SUFFICES ASSUME Init PROVE TypeInv
  OBVIOUS
<1> USE SettingsAssumption, RatesAssumption, PowerAssumption
<1>1. p \in Settings /\ rate \in Rates /\ p["oversampling"] \in Int
  BY DEF Init, Param
<1>2. /\ curFactor \in Factors
      /\ reportedLatency \in {0, 23, 27}
      /\ satRate \in Nat
  BY <1>1, FactorIsKnown DEF Init
<1>3. DOMAIN coef = Section /\ lastEnabled \subseteq {"hpf", "lpf"}
  BY DEF Init, Designs, EnabledFilters, HeardFilters
<1>4. mem \in [Recursive -> {"clean", "live", "stale"}]
  BY DEF Init, Clean
<1>5. /\ autoGainSnap.factor \in Factors \cup {0}
      /\ DOMAIN autoGainSnap.of = KeyParams
      /\ autoCompValid \in BOOLEAN
  BY DEF Init
<1>6. power \in 0..PowerMax /\ lastSmoothedPower \in 0..PowerMax
  BY DEF Init, BypassTarget
<1>7. /\ local.filters \subseteq {"hpf", "lpf"}
      /\ local.bands \subseteq Section \ {"hpf", "lpf"}
      /\ DOMAIN local = LocalFields
      /\ pc \in Stages
  BY DEF Init, NoLocals, LocalFields, Stages
<1> QED
  BY <1>1, <1>2, <1>3, <1>4, <1>5, <1>6, <1>7 DEF TypeInv, TypeOK

\* The crossfade moves between its two ends.
LEMMA PowerInRange ==
  ASSUME NEW x \in 0..PowerMax, NEW setting
  PROVE  NextPower(x, BypassTarget(setting)) \in 0..PowerMax
<1> USE PowerAssumption
<1> DEFINE t == BypassTarget(setting)
<1>1. t = 0 \/ t = PowerMax
  BY DEF BypassTarget
<1>2. CASE t < x
  <2>1. t = 0
    BY <1>1, <1>2
  <2>2. (x * 3) \div 4 \in 0..x
    OBVIOUS
  <2> QED
    BY <1>2, <2>1, <2>2 DEF NextPower
<1>3. CASE ~(t < x)
  <2>1. (t - x) \div 4 \in 0..(t - x)
    BY <1>1, <1>3
  <2> QED
    BY <1>1, <1>3, <2>1 DEF NextPower
<1> QED
  BY <1>2, <1>3

\* The two next-state relations together.
AnyNext == Set \/ Configure \/ Prepare \/ Chunk

LEMMA TypeNext == TypeInv /\ [AnyNext]_vars => TypeInv'
<1> SUFFICES ASSUME TypeInv, [AnyNext]_vars PROVE TypeInv'
  OBVIOUS
<1> USE SettingsAssumption, RatesAssumption, PowerAssumption DEF TypeInv, TypeOK
<1>0. p["oversampling"] \in Int /\ rate \in Nat
  BY DEF Param
<1>1. CASE Set
  BY <1>1 DEF Set, engine
<1>2. CASE Configure
  BY <1>2 DEF Configure, engine
<1>3. CASE Prepare
  <2>1. PICK r \in Rates :
          LET factor == ChooseFactor(r, p["oversampling"])
          IN  /\ rate' = r
              /\ curFactor' = factor
              /\ reportedLatency' = Latency(factor)
              /\ satRate' = r * factor
              /\ coef' = Designs(p, r, factor)
    BY <1>3 DEF Prepare
  <2>2. /\ rate' \in Rates
        /\ curFactor' \in Factors
        /\ reportedLatency' \in {0, 23, 27}
        /\ satRate' \in Nat
    BY <1>0, <2>1, FactorIsKnown
  <2>3. DOMAIN coef' = Section
    BY <2>1 DEF Designs
  <2>4. power' \in 0..PowerMax /\ lastSmoothedPower' \in 0..PowerMax
    BY <1>3 DEF Prepare, BypassTarget
  <2>5. lastEnabled' \subseteq {"hpf", "lpf"}
    BY <1>3 DEF Prepare, EnabledFilters, HeardFilters
  <2>6. mem' \in [Recursive -> {"clean", "live", "stale"}]
    BY <1>3 DEF Prepare, Clean
  <2>7. autoCompValid' \in BOOLEAN
    BY <1>3 DEF Prepare
  <2>8. UNCHANGED <<p, autoGainSnap, local, pc>>
    BY <1>3 DEF Prepare
  <2> QED
    BY <2>2, <2>3, <2>4, <2>5, <2>6, <2>7, <2>8
<1>4. CASE Factor
  <2>1. CASE ChooseFactor(rate, p["oversampling"]) # curFactor
    <3>1. SwitchFactor(ChooseFactor(rate, p["oversampling"]))
      BY <1>4, <2>1 DEF Factor
    <3>2. /\ curFactor' \in Factors
          /\ reportedLatency' \in {0, 23, 27}
          /\ satRate' \in Nat
      BY <1>0, <3>1, FactorIsKnown DEF SwitchFactor
    <3>3. mem' \in [Recursive -> {"clean", "live", "stale"}]
      BY <3>1 DEF SwitchFactor, Clean
    <3> QED
      BY <1>4, <3>2, <3>3 DEF Factor, Stages
  <2>2. CASE ChooseFactor(rate, p["oversampling"]) = curFactor
    BY <1>4, <2>2 DEF Factor, Stages
  <2> QED
    BY <2>1, <2>2
<1>5. CASE Console
  BY <1>5 DEF Console, Stages, LocalFields
<1>6. CASE RecomputeCoeffs
  BY <1>6 DEF RecomputeCoeffs, Designs, Stages
<1>7. CASE Filters
  <2>1. EnabledFilters(p) \subseteq {"hpf", "lpf"}
    BY DEF EnabledFilters, HeardFilters
  <2>2. lastEnabled' = EnabledFilters(p) /\ local'.filters = EnabledFilters(p)
    BY <1>7 DEF Filters, LocalFields
  <2>3. mem' \in [Recursive -> {"clean", "live", "stale"}]
    BY <1>7 DEF Filters
  <2>4. DOMAIN local' = LocalFields /\ local'.bands = local.bands
    BY <1>7 DEF Filters, LocalFields
  <2> QED
    BY <1>7, <2>1, <2>2, <2>3, <2>4 DEF Filters, Stages
<1>8. CASE Input
  BY <1>8 DEF Input, Stages, LocalFields
<1>9. CASE Bands
  <2>1. HeardBands(p) \subseteq Section \ {"hpf", "lpf"}
    BY DEF HeardBands, Section
  <2>2. mem' \in [Recursive -> {"clean", "live", "stale"}]
    BY <1>9 DEF Bands
  <2>3. /\ DOMAIN local' = LocalFields
        /\ local'.bands = HeardBands(p)
        /\ local'.filters = local.filters
    BY <1>9 DEF Bands, LocalFields
  <2> QED
    BY <1>9, <2>1, <2>2, <2>3 DEF Bands, Stages
<1>10. CASE Run
  <2>1. mem' \in [Recursive -> {"clean", "live", "stale"}]
    BY <1>10 DEF Run
  <2> QED
    BY <1>10, <2>1 DEF Run, Stages
<1>11. CASE AutoGainCached
  BY <1>11 DEF AutoGainCached, Stages, LocalFields
<1>12. CASE AutoGainMiss
  <2>1. autoGainSnap'.factor = curFactor /\ DOMAIN autoGainSnap'.of = KeyParams
    BY <1>12 DEF AutoGainMiss, Key
  <2> QED
    BY <1>12, <2>1 DEF AutoGainMiss, Stages
<1>13. CASE Scan
  BY <1>13 DEF Scan, Stages, LocalFields
<1>14. CASE Mix
  <2>1. power' \in 0..PowerMax /\ lastSmoothedPower' \in 0..PowerMax
    BY <1>14, PowerInRange DEF Mix
  <2>2. /\ local'.filters \subseteq {"hpf", "lpf"}
        /\ local'.bands \subseteq Section \ {"hpf", "lpf"}
        /\ DOMAIN local' = LocalFields
    BY <1>14 DEF Mix, NoLocals, LocalFields
  <2> QED
    BY <1>14, <2>1, <2>2 DEF Mix, Stages
<1>15. CASE UNCHANGED vars
  BY <1>15 DEF vars, engine
<1> QED
  BY <1>1, <1>2, <1>3, <1>4, <1>5, <1>6, <1>7, <1>8, <1>9, <1>10, <1>11,
     <1>12, <1>13, <1>14, <1>15 DEF AnyNext, Chunk

\* Every variable of the core keeps its type, whoever moves the parameters and
\* whenever: the setters of one thread against the audio thread of another ...
THEOREM TypeCorrect == ConcurrentSpec => []TypeOK
<1>1. Init => TypeInv
  BY TypeInit
<1>2. TypeInv /\ [ConcurrentNext]_vars => TypeInv'
  BY TypeNext DEF ConcurrentNext, AnyNext
<1>3. TypeInv => TypeOK
  BY DEF TypeInv
<1> QED
  BY <1>1, <1>2, <1>3, PTL DEF ConcurrentSpec

\* ... and the callbacks of one thread.
THEOREM TypeCorrectSerial == SerialSpec => []TypeOK
<1>1. Init => TypeInv
  BY TypeInit
<1>2. TypeInv /\ [SerialNext]_vars => TypeInv'
  BY TypeNext DEF SerialNext, AnyNext
<1>3. TypeInv => TypeOK
  BY DEF TypeInv
<1> QED
  BY <1>1, <1>2, <1>3, PTL DEF SerialSpec

-----------------------------------------------------------------------------
(* Recursive state. *)

LEMMA MemInit == Init => MemInv
  BY DEF Init, MemInv, Clean, Recursive, Section, BandSections, PastFilters,
         PastCoeffs, PastConsole, PastFactor

\* The sections and oversampler stages that run are among those that have
\* state, and a band section runs only when it is among the bands.
LEMMA RunningIsKnown ==
  ASSUME TypeInv
  PROVE  /\ Running \subseteq Recursive
         /\ BandSections \cup {"hpf", "lpf", "sat", "osA", "osB"} = Recursive
         /\ \A s \in BandSections : s \in Running <=> s \in local.bands
         /\ \A s \in {"hpf", "lpf"} : s \in Running <=> s \in local.filters
         /\ "sat" \in Running
         /\ "osA" \in Running <=> curFactor > 1
         /\ "osB" \in Running <=> curFactor > 2
<1>1. /\ local.filters \subseteq {"hpf", "lpf"}
      /\ local.bands \subseteq BandSections
  BY DEF TypeInv, TypeOK, Section, BandSections
<1> QED
  BY <1>1 DEF Running, Recursive, Section, BandSections

LEMMA MemNext == TypeInv /\ MemInv /\ [AnyNext]_vars => MemInv'
<1> SUFFICES ASSUME TypeInv, MemInv, [AnyNext]_vars PROVE MemInv'
  OBVIOUS
<1> USE DEF MemInv, PastFilters, PastCoeffs, PastConsole, PastFactor, Stages
<1>0. /\ DOMAIN mem = Recursive
      /\ mem \in [Recursive -> {"clean", "live", "stale"}]
      /\ curFactor \in {1, 2, 4}
      /\ Recursive = BandSections \cup {"hpf", "lpf", "sat", "osA", "osB"}
  BY RunningIsKnown DEF TypeInv, TypeOK, Factors
<1>1. CASE Set
  BY <1>1 DEF Set, engine
<1>2. CASE Configure
  BY <1>2 DEF Configure, engine
<1>3. CASE Prepare
  <2>1. \A m \in Recursive : mem'[m] = "clean"
    BY <1>3 DEF Prepare, Clean
  <2>2. pc' = "idle"
    BY <1>3 DEF Prepare
  <2> QED
    BY <1>0, <2>1, <2>2
<1>4. CASE Factor
  <2>1. pc' = "console" /\ UNCHANGED <<lastEnabled, local>>
    BY <1>4 DEF Factor
  <2>2. CASE \A m \in Recursive : mem'[m] = "clean"
    BY <1>0, <2>1, <2>2
  <2>3. CASE UNCHANGED <<curFactor, mem>>
    BY <2>1, <2>3
  <2> QED
    BY <1>4, <2>2, <2>3 DEF Factor, SwitchFactor, Clean
<1>5. CASE Console
  BY <1>5 DEF Console
<1>6. CASE RecomputeCoeffs
  BY <1>6 DEF RecomputeCoeffs
<1>7. CASE Filters
  <2>1. /\ lastEnabled' = EnabledFilters(p)
        /\ local'.filters = EnabledFilters(p)
        /\ pc' = "input"
        /\ UNCHANGED curFactor
    BY <1>7 DEF Filters, TypeInv, LocalFields
  <2>2. \A m \in Recursive :
          mem'[m] = IF m \in EnabledFilters(p) \ lastEnabled
                      THEN "clean" ELSE mem[m]
    BY <1>7 DEF Filters, ClearedOnEnable
  <2> QED
    BY <1>0, <2>1, <2>2
<1>8. CASE Input
  BY <1>8 DEF Input, TypeInv, LocalFields
<1>9. CASE Bands
  <2>1. /\ local'.bands = HeardBands(p)
        /\ local'.filters = local.filters
        /\ pc = "bands" /\ pc' = "run"
        /\ UNCHANGED <<curFactor, lastEnabled>>
    BY <1>9 DEF Bands, TypeInv, LocalFields
  <2>2. \A m \in Recursive :
          mem'[m] = IF m \in BandSections \ HeardBands(p)
                      THEN "clean" ELSE mem[m]
    BY <1>9 DEF Bands, Silenced, BandSections
  <2> QED
    BY <1>0, <2>1, <2>2
<1>10. CASE Run
  <2>1. /\ pc = "run" /\ pc' = "autogain"
        /\ UNCHANGED <<curFactor, lastEnabled, local>>
    BY <1>10 DEF Run
  <2>2. \A m \in Recursive :
          mem'[m] = IF m \in Running THEN "live"
                    ELSE IF mem[m] = "live" THEN "stale" ELSE mem[m]
    BY <1>10 DEF Run
  <2>3. \A s \in {"hpf", "lpf"} : mem'[s] = "stale" => s \notin lastEnabled'
    BY <1>0, <2>1, <2>2, RunningIsKnown
  <2>4. \A s \in BandSections : mem'[s] # "stale"
    BY <1>0, <2>1, <2>2, RunningIsKnown
  <2>5. mem'["sat"] # "stale"
    BY <1>0, <2>2, RunningIsKnown
  <2>6. mem'["osA"] # "stale" /\ (curFactor' = 1 => mem'["osA"] = "clean")
    BY <1>0, <2>1, <2>2, RunningIsKnown
  <2>7. mem'["osB"] # "stale" /\ (curFactor' # 4 => mem'["osB"] = "clean")
    BY <1>0, <2>1, <2>2, RunningIsKnown
  <2> QED
    BY <2>1, <2>3, <2>4, <2>5, <2>6, <2>7
<1>11. CASE AutoGainCached
  BY <1>11 DEF AutoGainCached, TypeInv, LocalFields
<1>12. CASE AutoGainMiss
  BY <1>12 DEF AutoGainMiss
<1>13. CASE Scan
  BY <1>13 DEF Scan, TypeInv, LocalFields
<1>14. CASE Mix
  BY <1>14 DEF Mix
<1>15. CASE UNCHANGED vars
  BY <1>15 DEF vars, engine
<1> QED
  BY <1>1, <1>2, <1>3, <1>4, <1>5, <1>6, <1>7, <1>8, <1>9, <1>10, <1>11,
     <1>12, <1>13, <1>14, <1>15 DEF AnyNext, Chunk

LEMMA MemIsFresh == TypeInv /\ MemInv => NoStaleState
<1> SUFFICES ASSUME TypeInv, MemInv, pc = "run", NEW m \in Running
             PROVE  mem[m] # "stale"
  BY DEF NoStaleState
<1>1. m \in BandSections \cup {"hpf", "lpf", "sat", "osA", "osB"}
  BY RunningIsKnown
<1>2. CASE m \in {"hpf", "lpf"}
  <2>1. m \in lastEnabled
    BY <1>2, RunningIsKnown
       DEF MemInv, PastFilters, PastCoeffs, PastConsole, PastFactor, Stages
  <2> QED
    BY <1>2, <2>1 DEF MemInv
<1>3. CASE m \in BandSections \cup {"sat", "osA", "osB"}
  BY <1>3 DEF MemInv
<1> QED
  BY <1>1, <1>2, <1>3

\* No section ever resumes from stale state, even while another thread moves
\* the enables, the gains and the oversampling between the stages of a block:
\* processChunk decides what to reset and what to run from one and the same
\* load of each switch ...
THEOREM FreshState == ConcurrentSpec => []NoStaleState
<1>1. Init => TypeInv /\ MemInv
  BY TypeInit, MemInit
<1>2. TypeInv /\ MemInv /\ [ConcurrentNext]_vars => (TypeInv /\ MemInv)'
  BY TypeNext, MemNext DEF ConcurrentNext, AnyNext
<1> QED
  BY <1>1, <1>2, MemIsFresh, PTL DEF ConcurrentSpec

\* ... and so in the serial discipline of the shell.
THEOREM FreshStateSerial == SerialSpec => []NoStaleState
<1>1. Init => TypeInv /\ MemInv
  BY TypeInit, MemInit
<1>2. TypeInv /\ MemInv /\ [SerialNext]_vars => (TypeInv /\ MemInv)'
  BY TypeNext, MemNext DEF SerialNext, AnyNext
<1> QED
  BY <1>1, <1>2, MemIsFresh, PTL DEF SerialSpec

-----------------------------------------------------------------------------
(* The auto-gain cache and the promise: the serial discipline. *)

LEMMA StageInit == Init => StageInv /\ CacheSound
  BY DEF Init, StageInv, CacheSound, PastBands, PastInput, PastFilters,
         PastCoeffs, PastConsole, PastFactor

\* The cache read through the key of the current settings.
LEMMA CompOfKey ==
  ASSUME TypeInv
  PROVE  CompOf(Key(p, curFactor)) = Comp
<1>1. p \in [Param -> Int]
  BY SettingsAssumption DEF TypeInv, TypeOK
<1>2. Key(p, curFactor).factor = curFactor
  BY DEF Key
<1> QED
  BY <1>1, <1>2, KeyCovers DEF CompOf, Comp

\* A stage that leaves the parameters, the rate and the factor alone leaves
\* the compensation alone.
LEMMA CompUnchanged ==
  ASSUME UNCHANGED <<p, rate, curFactor>>
  PROVE  Comp' = Comp
BY DEF Comp

LEMMA StageNext == IInv /\ [SerialNext]_vars => StageInv'
<1> SUFFICES ASSUME IInv, [SerialNext]_vars PROVE StageInv'
  OBVIOUS
<1> USE DEF IInv, StageInv, PastBands, PastInput, PastFilters, PastCoeffs,
            PastConsole, PastFactor, Stages
<1>0. DOMAIN local = LocalFields
  BY DEF TypeInv
<1>1. CASE Configure
  BY <1>1 DEF Configure, engine
<1>2. CASE Prepare
  <2>1. pc' = "idle" /\ satRate' = rate' * curFactor'
    BY <1>2 DEF Prepare
  <2> QED
    BY <2>1
<1>3. CASE Factor
  <2>1. pc' = "console" /\ UNCHANGED <<p, rate>>
    BY <1>3 DEF Factor
  <2>2. /\ curFactor' = ChooseFactor(rate, p["oversampling"])
        /\ satRate' = rate * curFactor'
    BY <1>3 DEF Factor, SwitchFactor
  <2> QED
    BY <2>1, <2>2
<1>4. CASE Console
  BY <1>0, <1>4 DEF Console, LocalFields
<1>5. CASE RecomputeCoeffs
  BY <1>5 DEF RecomputeCoeffs
<1>6. CASE Filters
  BY <1>0, <1>6 DEF Filters, LocalFields, EnabledFilters
<1>7. CASE Input
  BY <1>0, <1>7 DEF Input, LocalFields
<1>8. CASE Bands
  BY <1>0, <1>8 DEF Bands, LocalFields
<1>9. CASE Run
  BY <1>9 DEF Run
<1>10. CASE AutoGainCached
  <2>1. /\ pc = "autogain" /\ pc' = "mix"
        /\ UNCHANGED <<p, rate, curFactor, satRate, coef>>
    BY <1>10 DEF AutoGainCached
  <2>2. \A x \in LocalFields \ {"autoComp"} : local'[x] = local[x]
    BY <1>0, <1>10 DEF AutoGainCached
  <2>3. local'.autoComp = IF p["auto_gain"] = 1 THEN Comp ELSE Unity
    <3>1. CASE p["auto_gain"] # 1
      BY <1>0, <1>10, <3>1 DEF AutoGainCached, LocalFields
    <3>2. CASE p["auto_gain"] = 1
      <4>1. CacheHit /\ local'.autoComp = autoCompCached
        BY <1>0, <1>10, <3>2 DEF AutoGainCached, LocalFields
      <4>2. autoCompCached = CompOf(Key(p, curFactor))
        BY <2>1, <4>1 DEF CacheHit, CacheSound
      <4> QED
        BY <3>2, <4>1, <4>2, CompOfKey
    <3> QED
      BY <3>1, <3>2
  <2> QED
    BY <2>1, <2>2, <2>3, CompUnchanged DEF LocalFields
<1>11. CASE AutoGainMiss
  BY <1>11 DEF AutoGainMiss
<1>12. CASE Scan
  <2>1. /\ pc = "scan" /\ pc' = "mix"
        /\ UNCHANGED <<p, rate, curFactor, satRate, coef>>
        /\ autoCompCached' = Comp
    BY <1>12 DEF Scan, Comp
  <2>2. \A x \in LocalFields \ {"autoComp"} : local'[x] = local[x]
    BY <1>0, <1>12 DEF Scan
  <2>3. local'.autoComp = Comp
    BY <1>0, <1>12, <2>1 DEF Scan, LocalFields
  <2> QED
    BY <2>1, <2>2, <2>3, CompUnchanged DEF LocalFields
<1>13. CASE Mix
  BY <1>13 DEF Mix
<1>14. CASE UNCHANGED vars
  BY <1>14, CompUnchanged DEF vars, engine
<1> QED
  BY <1>1, <1>2, <1>3, <1>4, <1>5, <1>6, <1>7, <1>8, <1>9, <1>10, <1>11,
     <1>12, <1>13, <1>14 DEF SerialNext, Chunk

LEMMA CacheNext == IInv /\ [SerialNext]_vars => CacheSound'
<1> SUFFICES ASSUME IInv, [SerialNext]_vars PROVE CacheSound'
  OBVIOUS
\* Only three actions touch the cache, and one the rate it was measured at.
<1>1. CASE Prepare
  BY <1>1 DEF Prepare, CacheSound
<1>2. CASE AutoGainMiss
  BY <1>2 DEF AutoGainMiss, CacheSound
<1>3. CASE Scan
  <2>1. /\ autoCompCached' = Comp
        /\ autoGainSnap = Key(p, curFactor)
        /\ UNCHANGED <<rate, autoGainSnap>>
    BY <1>3 DEF Scan, IInv, StageInv, Comp, PastCoeffs, PastConsole,
                PastFactor, Stages
  <2>2. CompOf(autoGainSnap)' = CompOf(autoGainSnap)
    BY <2>1 DEF CompOf
  <2>3. autoCompCached' = CompOf(autoGainSnap)
    BY <2>1, CompOfKey DEF IInv
  <2> QED
    BY <2>2, <2>3 DEF CacheSound
<1>4. ASSUME /\ UNCHANGED <<rate, autoGainSnap, autoCompCached, autoCompValid>>
             /\ pc # "scan"
      PROVE  CacheSound'
  <2>1. CompOf(autoGainSnap)' = CompOf(autoGainSnap)
    BY <1>4 DEF CompOf
  <2> QED
    BY <1>4, <2>1 DEF IInv, CacheSound
<1>5. CASE UNCHANGED vars
  <2>1. CompOf(autoGainSnap)' = CompOf(autoGainSnap)
    BY <1>5 DEF CompOf, vars, engine
  <2> QED
    BY <1>5, <2>1 DEF IInv, CacheSound, vars, engine
<1>6. CASE Configure
  <2>1. CompOf(autoGainSnap)' = CompOf(autoGainSnap)
    BY <1>6 DEF CompOf, Configure, engine
  <2> QED
    BY <1>6, <2>1 DEF IInv, CacheSound, Configure, engine
<1>7. CASE Factor \/ Console \/ RecomputeCoeffs \/ Filters
  BY <1>4, <1>7 DEF Factor, Console, RecomputeCoeffs, Filters
<1>8. CASE Input \/ Bands \/ Run \/ AutoGainCached \/ Mix
  BY <1>4, <1>8 DEF Input, Bands, Run, AutoGainCached, Mix
<1> QED
  BY <1>1, <1>2, <1>3, <1>5, <1>6, <1>7, <1>8 DEF SerialNext, Chunk

LEMMA IInvInit == Init => IInv
  BY TypeInit, StageInit DEF IInv

LEMMA IInvNext == IInv /\ [SerialNext]_vars => IInv'
<1>1. TypeInv /\ [SerialNext]_vars => TypeInv'
  BY TypeNext DEF SerialNext, AnyNext
<1> QED
  BY <1>1, StageNext, CacheNext DEF IInv

\* The auto-gain cache never lies: whatever sequence of control callbacks, new
\* sample rates and blocks the host makes, a valid cache holds the
\* compensation of the parameters in its key.
THEOREM CacheIsSound == SerialSpec => []CacheSound
<1>1. IInv => CacheSound
  BY DEF IInv
<1> QED
  BY <1>1, IInvInit, IInvNext, PTL DEF SerialSpec

\* A finished block is made of exactly the voice of the settings in force.
LEMMA RenderedIsVoice ==
  ASSUME IInv, pc = "mix"
  PROVE  Rendered = Voice(p, rate)
<1> DEFINE factor == ChooseFactor(rate, p["oversampling"])
<1>1. /\ satRate = rate * factor
      /\ curFactor = factor
      /\ coef = Designs(p, rate, factor)
      /\ local.black = p["eq_type"]
      /\ local.filters \cup local.bands = Heard(p)
      /\ local.inGain = p["input_gain"]
      /\ local.ms = p["ms_mode"]
      /\ local.saturation = p["saturation"]
      /\ local.autoComp = IF p["auto_gain"] = 1 THEN Comp ELSE Unity
  BY DEF IInv, StageInv, PastBands, PastInput, PastFilters, PastCoeffs,
         PastConsole, PastFactor, Stages, Heard
<1>2. [s \in local.filters \cup local.bands |-> coef[s]]
        = [s \in Heard(p) |-> Designs(p, rate, factor)[s]]
  BY <1>1
<1>3. local.autoComp = IF p["auto_gain"] = 1
                         THEN AutoComp(Designs(p, rate, factor), p, rate * factor)
                         ELSE Unity
  BY <1>1 DEF Comp
<1> QED
  BY <1>1, <1>2, <1>3 DEF Rendered, Voice

\* The promise speaks of the same voices.
LEMMA SameVoice ==
  ASSUME NEW setting, NEW r
  PROVE  Promise!Voice(setting, r) = Voice(setting, r)
BY DEF Voice, ChooseFactor, Designs, Design, Inputs, Section, Heard,
       HeardFilters, HeardBands, AutoComp, Unity,
       Promise!Voice, Promise!ChooseFactor, Promise!Designs, Promise!Design,
       Promise!Inputs, Promise!Section, Promise!Heard, Promise!HeardFilters,
       Promise!HeardBands, Promise!AutoComp, Promise!Unity

LEMMA StepIsPromised ==
  IInv /\ [SerialNext]_vars => [Promise!Next]_(Promise!vars)
<1> SUFFICES ASSUME IInv, [SerialNext]_vars
             PROVE  [Promise!Next]_(Promise!vars)
  OBVIOUS
<1> USE DEF Promise!Next, Promise!vars
<1>1. CASE Configure
  BY <1>1 DEF Configure, engine, Promise!Configure
<1>2. CASE Prepare
  BY <1>2 DEF Prepare, Promise!Prepare
<1>3. CASE Mix
  <2>1. out' = Voice(p, rate)
    BY <1>3, RenderedIsVoice DEF Mix
  <2> QED
    BY <1>3, <2>1, SameVoice DEF Mix, Promise!Render
<1>4. CASE Factor \/ Console \/ RecomputeCoeffs \/ Filters \/ Input
  BY <1>4 DEF Factor, Console, RecomputeCoeffs, Filters, Input
<1>5. CASE Bands \/ Run \/ AutoGainCached \/ AutoGainMiss \/ Scan
  BY <1>5 DEF Bands, Run, AutoGainCached, AutoGainMiss, Scan
<1>6. CASE UNCHANGED vars
  BY <1>6 DEF vars, engine
<1> QED
  BY <1>1, <1>2, <1>3, <1>4, <1>5, <1>6 DEF SerialNext, Chunk

\* The core implements the memoryless promise: with its caches, its stages and
\* its recursive state, it renders every block with exactly the voice of the
\* settings in force.
THEOREM PromiseIsKept == SerialSpec => PromiseKept
<1>1. Init => Promise!Init
  BY DEF Init, Promise!Init, Silent, Promise!Silent
<1>2. IInv /\ [SerialNext]_vars => [Promise!Next]_(Promise!vars)
  BY StepIsPromised
<1> QED
  BY <1>1, <1>2, IInvInit, IInvNext, PTL
     DEF SerialSpec, PromiseKept, Promise!Spec

\* The drawn curve designs each section from the parameters and at the rate
\* the coefficients are, and multiplies the sections in the signal path.
LEMMA CurveIsDesign ==
  ASSUME NEW c \in [Param -> Int], NEW r
  PROVE  LET factor == ChooseFactor(r, c["oversampling"])
             d == DesignCurve(c, r)
         IN  /\ d.has = Heard(c)
             /\ \A s \in Section : d.coef[s] = Design(s, c, r, factor)
             /\ d.baseSampleRate = r
             /\ d.sampleRate = r * factor
             /\ d.saturation = ConsoleSat(c["eq_type"], c["saturation"],
                                          r * factor)
<1> DEFINE factor == ChooseFactor(r, c["oversampling"])
           d == DesignCurve(c, r)
<1>1. /\ d.baseSampleRate = r
      /\ d.sampleRate = r * factor
      /\ d.saturation = ConsoleSat(c["eq_type"], c["saturation"], r * factor)
  BY DEF DesignCurve, CurveRate
<1>2. d.has = Heard(c)
  BY DEF DesignCurve, Heard, HeardFilters, HeardBands, Section
<1>3. ASSUME NEW s \in Section
      PROVE  d.coef[s] = Design(s, c, r, factor)
  <2> DEFINE controls == Inputs(s) \ {"eq_type"}
             fs == IF s = "hpf" THEN r ELSE r * factor
  <2>1. d.coef[s] = [from |-> [q \in controls \cup {"eq_type"} |-> c[q]],
                     fs |-> fs]
    BY <1>3 DEF DesignCurve, CurveRate, Section, Inputs
  <2>2. controls \cup {"eq_type"} = Inputs(s)
    BY <1>3 DEF Section, Inputs
  <2> QED
    BY <2>1, <2>2 DEF Design
<1> HIDE DEF d, factor
<1>4. /\ d.has = Heard(c)
      /\ \A s \in Section : d.coef[s] = Design(s, c, r, factor)
      /\ d.baseSampleRate = r
      /\ d.sampleRate = r * factor
      /\ d.saturation = ConsoleSat(c["eq_type"], c["saturation"], r * factor)
  BY <1>1, <1>2, <1>3
<1> QED
  BY <1>4 DEF d, factor

\* The sections in the path are sections.
LEMMA HeardAreSections ==
  ASSUME NEW c
  PROVE  Heard(c) \subseteq Section
BY DEF Heard, HeardFilters, HeardBands, Section

\* Mix leaves the block with what the curve of the settings shows.
LEMMA CurveOfMix ==
  ASSUME IInv, Mix
  PROVE  CurveAt(DesignCurve(p, rate)) = HeardResponse'
<1> DEFINE factor == ChooseFactor(rate, p["oversampling"])
           d == DesignCurve(p, rate)
<1>1. p \in [Param -> Int]
  BY SettingsAssumption DEF IInv, TypeInv, TypeOK
<1>2. /\ out' = Voice(p, rate)
      /\ UNCHANGED <<rate, curFactor, satRate>>
  BY RenderedIsVoice DEF Mix
<1>3. curFactor = factor /\ satRate = rate * factor
  BY DEF Mix, IInv, StageInv, PastFactor, Stages
<1>4. /\ d.has = Heard(p)
      /\ \A s \in Section : d.coef[s] = Design(s, p, rate, factor)
      /\ d.baseSampleRate = rate
      /\ d.sampleRate = rate * factor
      /\ d.saturation = ConsoleSat(p["eq_type"], p["saturation"], rate * factor)
  BY <1>1, CurveIsDesign
<1>5. /\ out'.chain = [s \in Heard(p) |-> Designs(p, rate, factor)[s]]
      /\ out'.console = p["eq_type"]
      /\ out'.saturation = p["saturation"]
  BY <1>2 DEF Voice
<1>6. \A s \in Heard(p) : out'.chain[s] = Design(s, p, rate, factor)
  BY <1>5, HeardAreSections DEF Designs
<1> HIDE DEF d, factor
<1>7. DOMAIN (out'.chain) = Heard(p)
  BY <1>5
<1>8. ASSUME NEW s \in Heard(p)
      PROVE  [coef |-> d.coef[s],
              omegaAt |-> IF s = "hpf" THEN d.baseSampleRate ELSE d.sampleRate]
             = [coef |-> out'.chain[s],
                omegaAt |-> IF s = "hpf" THEN rate' ELSE rate' * curFactor']
  BY <1>2, <1>3, <1>4, <1>6, <1>8, HeardAreSections
<1>9. CurveAt(d).sections = HeardResponse'.sections
  BY <1>4, <1>7, <1>8 DEF CurveAt, HeardResponse
<1>10. CurveAt(d).saturator = HeardResponse'.saturator
  BY <1>2, <1>3, <1>4, <1>5 DEF CurveAt, HeardResponse
<1>11. CurveAt(d) = HeardResponse'
  BY <1>9, <1>10 DEF CurveAt, HeardResponse
<1> QED
  BY <1>11 DEF d

\* Only Mix ends a block.
LEMMA OnlyMixEnds ==
  ASSUME [SerialNext]_vars, pc = "mix", pc' = "idle"
  PROVE  Mix
BY DEF SerialNext, Configure, Prepare, Chunk, Factor, Console, RecomputeCoeffs,
       Filters, Input, Bands, Run, AutoGainCached, AutoGainMiss, Scan, vars,
       engine

\* The curve an editor draws is the sound: designed apart from the core's
\* coefficients, from the same controls, it shows the very sections the block
\* went through, at the rates they ran at.
THEOREM CurveIsTrue == SerialSpec => CurveIsHeard
<1>1. ASSUME IInv, [SerialNext]_vars
      PROVE  [pc = "mix" /\ pc' = "idle" =>
                CurveAt(DesignCurve(p, rate)) = HeardResponse']_vars
  BY <1>1, OnlyMixEnds, CurveOfMix
<1> QED
  BY <1>1, IInvInit, IInvNext, PTL DEF SerialSpec, CurveIsHeard
=============================================================================
