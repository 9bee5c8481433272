--------------------------- MODULE FourKEQPlugin ---------------------------
(***************************************************************************)
(* The audio_fx shell of fourk_eq_plugin.cpp: the published values, the    *)
(* parameter atomics of the core they are pushed to, the preset browser,   *)
(* the state blob and the clip counter.  Every entry point runs on the     *)
(* host's one audio callback, so each is one action.                       *)
(*                                                                         *)
(* A value is an integer number of hundredths of the unit the surface      *)
(* shows; the ranges and defaults are those of fkq_params.  A switch is    *)
(* off at 0 and on at 100.  What arrives as text (an option's name, or     *)
(* digits) is the number it is read as.                                    *)
(***************************************************************************)
EXTENDS FourKEQResponse, FourKEQCalibration

CONSTANTS
  Moves,     \* <<key, value>> pairs the surfaces set by name
  Programs,  \* the factory presets, in the order of kFactoryPresets
  Recalls,   \* the indices the preset browser may send
  OldBlobs,  \* blobs of earlier builds, which may name fewer values
  MaxClip    \* bound on the clipped samples that are counted

VARIABLES
  values,      \* the published value of every parameter
  p,           \* the parameter atomics of the core
  preset,      \* the preset browser's position
  clip_count,  \* samples clipped since the counter was last read
  saved,       \* the host's copy of the state blob, or NoBlob
  clipped,     \* samples clipped since the instance was created
  told         \* ... of which each reader of the counter was told

vars == <<values, p, preset, clip_count, saved, clipped, told>>

\* <<min, max, default>> of the parameter table.
Table ==
  LET gain == <<-1500, 1500, 0>>
      trim == <<-1200, 1200, 0>>
      q    == <<50, 300, 150>>
      onoff == <<0, 100, 0>>
  IN [lf_gain |-> gain, lm_gain |-> gain, hm_gain |-> gain, hf_gain |-> gain,
      hpf_freq |-> <<1600, 35000, 1600>>,
      lpf_freq |-> <<300000, 1520100, 1520100>>,
      input_gain |-> trim, output_gain |-> trim,
      lf_freq |-> <<3000, 45000, 20000>>,
      lm_freq |-> <<20000, 250000, 100000>>,
      hm_freq |-> <<60000, 700000, 300000>>,
      hf_freq |-> <<150000, 1600000, 800000>>,
      lm_q |-> q, hm_q |-> q, lf_bell |-> onoff, hf_bell |-> onoff,
      hpf_enabled |-> onoff, lpf_enabled |-> onoff, eq_type |-> onoff,
      auto_gain |-> onoff, oversampling |-> <<0, 200, 100>>, bypass |-> onoff]

Keys == DOMAIN Table
Enums == {"lf_bell", "hf_bell", "hpf_enabled", "lpf_enabled", "eq_type",
          "auto_gain", "oversampling", "bypass"}

Default(key) == Table[key][3]

ClampAboveOnly(key, v) ==
  IF v > Table[key][2] THEN Table[key][2] ELSE v

Clamp(key, v) ==
  IF v < Table[key][1] THEN Table[key][1]
  ELSE IF v > Table[key][2] THEN Table[key][2] ELSE v

\* fkq_push: a switch above one half is on, the oversampling mode is rounded
\* to the nearest, everything else is handed over as it is.
PushRoundingDown(key, v) ==
  IF key \in Enums THEN v \div 100 ELSE v

Push(key, v) ==
  IF key = "oversampling" THEN (v + 50) \div 100
  ELSE IF key \in Enums THEN IF v > 50 THEN 1 ELSE 0
  ELSE v

\* The option get_param answers for an enum: the nearest.
Readback(key, v) ==
  LET option == (v + 50) \div 100
      last   == Table[key][2] \div 100
  IN  IF option > last THEN last ELSE option

\* "%.6g" keeps six digits: all of a value below 10 kHz, tenths above it.
Printed(v) == IF v < 1000000 THEN v ELSE ((v + 5) \div 10) * 10

-----------------------------------------------------------------------------
(* Writing parameters. *)

\* fkq_set_index for every key of f: clamp, publish, push.  The keys of one
\* callback differ, so their order does not show.
SetIndexPushingUnclamped(f) ==
  /\ values' = [k \in Keys |-> IF k \in DOMAIN f THEN Clamp(k, f[k]) ELSE values[k]]
  /\ p' = [k \in Param |-> IF k \in DOMAIN f THEN Push(k, f[k]) ELSE p[k]]

SetIndex(f) ==
  /\ values' = [k \in Keys |-> IF k \in DOMAIN f THEN Clamp(k, f[k]) ELSE values[k]]
  /\ p' = [k \in Param |->
             IF k \in DOMAIN f THEN Push(k, Clamp(k, f[k])) ELSE p[k]]

\* The dial positions the console prints as OUT.
OffOut(dial, v) ==
  IF dial = "hpf_freq" THEN v > 1600 + 50 ELSE v < 1520100 - 50

EnableOf(dial) == IF dial = "hpf_freq" THEN "hpf_enabled" ELSE "lpf_enabled"

\* What a named key writes: itself, and the enable of a filter dial.
NamedWithoutFanOut(key, v) == [k \in {key} |-> v]

Named(key, v) ==
  IF key \in {"hpf_freq", "lpf_freq"}
    THEN [k \in {key, EnableOf(key)} |->
            IF k = key THEN v ELSE IF OffOut(key, v) THEN 100 ELSE 0]
    ELSE [k \in {key} |-> v]

\* fkq_set_param on the name of a parameter; other names are ignored.
SetNamed(key, v) ==
  /\ key \in Keys
  /\ SetIndex(Named(key, v))
  /\ UNCHANGED <<preset, clip_count, saved, clipped, told>>

-----------------------------------------------------------------------------
(* Programs. *)

\* fkIsPresetParam, over upstream's input parameters: what a program owns.
PresetOwned == Param \ {"bypass", "saturation", "oversampling", "ms_mode"}

\* fkq_index_for_upstream: the upstream parameters that have a knob here.
MappedUpstreamButHmQ ==
  {"hpf_freq", "hpf_enabled", "lpf_freq", "lpf_enabled", "lf_gain", "lf_freq",
   "lf_bell", "lm_gain", "lm_freq", "lm_q", "hm_gain", "hm_freq",
   "hf_gain", "hf_freq", "hf_bell", "eq_type", "input_gain", "output_gain",
   "auto_gain"}

MappedUpstream ==
  {"hpf_freq", "hpf_enabled", "lpf_freq", "lpf_enabled", "lf_gain", "lf_freq",
   "lf_bell", "lm_gain", "lm_freq", "lm_q", "hm_gain", "hm_freq", "hm_q",
   "hf_gain", "hf_freq", "hf_bell", "eq_type", "input_gain", "output_gain",
   "auto_gain"}

\* The dials a program states in audible frequencies, and the band or filter of
\* each.
BandOf == [lf_freq |-> "lf", lm_freq |-> "lm", hm_freq |-> "hm", hf_freq |-> "hf"]
FilterOf == [hpf_freq |-> "hpf", lpf_freq |-> "lpf"]

GainOf == [lf_freq |-> "lf_gain", lm_freq |-> "lm_gain", hm_freq |-> "hm_gain",
           hf_freq |-> "hf_gain"]

\* Whether the outer bands, as given, are bells; the inner two always are.
IsBell(dial, of) ==
  CASE dial = "lf_freq" -> of["lf_bell"] > 50
    [] dial = "hf_freq" -> of["hf_bell"] > 50
    [] OTHER -> TRUE

Voicing(of) == IF of["eq_type"] > 50 THEN 1 ELSE 0

\* The switches a program does not author: the filter enables, decided from the
\* audible frequencies, and auto-gain, which every program leaves off.
Decided(program) ==
  [hpf_enabled |-> IF program["hpf_freq"] > 1650 THEN 100 ELSE 0,
   lpf_enabled |-> IF program["lpf_freq"] < 1520050 THEN 100 ELSE 0,
   auto_gain |-> 0]

\* What forEachFourKEQFactoryPresetParam emits for a program: those, the control
\* coordinates of its frequencies, and its gains and shapes as authored.
Emitted(program) ==
  [u \in PresetOwned |->
     IF u \in DOMAIN Decided(program) THEN Decided(program)[u]
     ELSE IF u \in DOMAIN BandOf
       THEN 10 * ControlForCalibratedEqFrequency(
                   program[u] \div 10, program[GainOf[u]], BandOf[u],
                   Voicing(program), IsBell(u, program))
     ELSE IF u \in DOMAIN FilterOf
       THEN 10 * ControlForCalibratedFilterFrequency(
                   program[u] \div 10, FilterOf[u], Voicing(program))
     ELSE program[u]]

Emissions == [i \in 1..Len(Programs) |-> Emitted(Programs[i])]

\* What recalling an index writes: INIT every default, a program its own.
Recalled(index) ==
  [k \in MappedUpstream \cap PresetOwned |->
     IF index = 0 THEN Default(k) ELSE Emissions[index][k]]

\* fkq_apply_preset; an index that is no program changes nothing.
Recall(index) ==
  /\ index \in 0..Len(Programs)
  /\ preset' = index
  /\ SetIndex(Recalled(index))
  /\ UNCHANGED <<clip_count, saved, clipped, told>>

-----------------------------------------------------------------------------
(* The state blob. *)

NoBlob == [none |-> TRUE]

Blob == [values |-> [k \in Keys |-> Printed(values[k])], preset |-> preset]

\* get_param("state") and get_param("clip") both read the counter and clear
\* it.  The host stores the blob it reads for a set; the panel is only shown
\* what it polls.  An answer that did not fit would lose the clips it read; 22
\* values fit the 1536 bytes of state_buf, and the host's buffer is taken to be
\* as large.
Read(reader) ==
  /\ told' = [told EXCEPT ![reader] = @ + clip_count]
  /\ clip_count' = 0
  /\ saved' = IF reader = "set" THEN Blob ELSE saved
  /\ UNCHANGED <<values, p, preset, clipped>>

\* A blob without a preset (NoPreset) leaves the browser where it is.
NoPreset == -1

RestoredPreset(blob) ==
  IF blob.preset = NoPreset THEN preset
  ELSE IF blob.preset > Len(Programs) THEN Len(Programs) ELSE blob.preset

\* set_param("state"): every value the blob names, literally, and the
\* browser's position without recalling it.
RestoreThroughNames(blob) ==
  /\ SetIndex([k \in DOMAIN blob.values |->
                 IF k = "hpf_enabled"
                   THEN IF OffOut("hpf_freq", blob.values["hpf_freq"]) THEN 100 ELSE 0
                   ELSE blob.values[k]])
  /\ preset' = RestoredPreset(blob)
  /\ UNCHANGED <<clip_count, saved, clipped, told>>

Restore(blob) ==
  /\ SetIndex(blob.values)
  /\ preset' = RestoredPreset(blob)
  /\ UNCHANGED <<clip_count, saved, clipped, told>>

RestoreSaved == saved # NoBlob /\ Restore(saved)

-----------------------------------------------------------------------------

\* The values of a fresh instance, and the core seeded with them.
FreshValues == [k \in Keys |-> Default(k)]

Pushed(vals) == [k \in Param |-> IF k \in Keys THEN Push(k, vals[k]) ELSE 0]

\* destroy_instance and create_instance: the host keeps only its blob.
Recreate ==
  /\ values' = FreshValues
  /\ p' = Pushed(FreshValues)
  /\ preset' = 0
  /\ clip_count' = 0
  /\ clipped' = 0
  /\ told' = [panel |-> 0, set |-> 0]
  /\ UNCHANGED saved

\* process_block: n samples of the block were clamped at the conversion.
ProcessOverwriting(n) ==
  /\ clipped + n <= MaxClip
  /\ n > 0
  /\ clip_count' = n
  /\ clipped' = clipped + n
  /\ UNCHANGED <<values, p, preset, saved, told>>

Process(n) ==
  /\ clipped + n <= MaxClip
  /\ n > 0
  /\ clip_count' = clip_count + n
  /\ clipped' = clipped + n
  /\ UNCHANGED <<values, p, preset, saved, told>>

\* What a program is recalled as it was authored.
Authored ==
  (MappedUpstream \cap PresetOwned)
    \ ({"hpf_enabled", "lpf_enabled", "auto_gain"} \cup DOMAIN BandOf \cup DOMAIN FilterOf)

\* The coordinates of a calibration table, in tenths of a hertz, run from one to
\* another of its dial.
CoversDial(dial, control, n) ==
  /\ control[1] \in Int /\ control[n] \in Int
  /\ Table[dial][1] <= 10 * control[1]
  /\ control[1] <= control[n]
  /\ 10 * control[n] <= Table[dial][2]

\* What the constants stand for: digits or options read as numbers, programs
\* authored within the dials, tables of coordinates that the dials have, blobs of
\* earlier builds that name some of the keys.
ASSUME MovesAssumption == \A m \in Moves : m[2] \in Int
ASSUME RecallsAssumption == Recalls \subseteq Int
ASSUME ProgramsAssumption ==
  /\ Len(Programs) \in Nat
  /\ \A i \in 1..Len(Programs), k \in Authored :
       Programs[i][k] \in Table[k][1]..Table[k][2]
ASSUME CalibrationAssumption ==
  /\ \A dial \in DOMAIN BandOf :
       CoversDial(dial, EqFrequencyControls[BandOf[dial]], 21)
  /\ \A dial \in DOMAIN FilterOf, type \in 0..1 :
       LET control == FilterCalibrations[type][FilterOf[dial]].control
       IN  CoversDial(dial, control, Len(control))
ASSUME OldBlobsAssumption ==
  \A blob \in OldBlobs : /\ DOMAIN blob.values \subseteq Keys
                         /\ \A k \in DOMAIN blob.values : blob.values[k] \in Int
                         /\ blob.preset \in Nat \cup {NoPreset}
ASSUME ClipAssumption == MaxClip \in Nat

Init ==
  /\ values = FreshValues
  /\ p = Pushed(FreshValues)
  /\ preset = 0
  /\ clip_count = 0
  /\ saved = NoBlob
  /\ clipped = 0
  /\ told = [panel |-> 0, set |-> 0]

Next ==
  \/ \E m \in Moves : SetNamed(m[1], m[2])
  \/ \E index \in Recalls : Recall(index)
  \/ \E reader \in {"panel", "set"} : Read(reader)
  \/ RestoreSaved
  \/ \E blob \in OldBlobs : Restore(blob)
  \/ Recreate
  \/ \E n \in 1..2 : Process(n)

Spec == Init /\ [][Next]_vars

-----------------------------------------------------------------------------
(* Properties. *)

TypeOK ==
  /\ DOMAIN values = Keys
  /\ \A k \in Keys : values[k] \in Table[k][1]..Table[k][2]
  /\ p \in [Param -> Int]
  /\ preset \in 0..Len(Programs)
  /\ clip_count \in 0..MaxClip
  /\ clipped \in 0..MaxClip
  /\ told \in [{"panel", "set"} -> 0..MaxClip]

\* The core runs on exactly what the surface publishes: after any sequence of
\* named sets, recalls, restores and restarts, every atomic is the push of the
\* published value, and the two parameters without a knob are at default.
VoicedAsShown == p = Pushed(values)

\* An enum reads back as the option the core runs, at every value but exactly
\* one half between two options, where fkq_push compares with > and get_param
\* rounds up.
ReadbackIsHeard ==
  \A k \in Enums : values[k] % 100 # 50 => Readback(k, values[k]) = p[k]

\* A recall leaves nothing of what was there before: every parameter a program
\* owns is the program's, inside its dial's range, and the others keep theirs.
RecallIsWhole ==
  [][\A index \in Recalls : Recall(index) =>
       \A k \in Keys :
         values'[k] = IF k \notin PresetOwned THEN values[k]
                      ELSE IF index = 0 THEN Default(k)
                      ELSE Emissions[index][k]]_vars

\* The frequency a dial is heard at, in tenths of a hertz, under a setting of the
\* core: the calibration recomputeCoeffs applies.
HeardAt(dial, at, core) ==
  IF dial \in DOMAIN BandOf
    THEN CalibratedEqFrequency(at \div 10, core[GainOf[dial]], BandOf[dial],
                               core["eq_type"],
                               CASE dial = "lf_freq" -> core["lf_bell"] = 1
                                 [] dial = "hf_freq" -> core["hf_bell"] = 1
                                 [] OTHER -> TRUE)
    ELSE CalibratedFilterFrequency(at \div 10, FilterOf[dial], core["eq_type"])

\* Within half a hertz, or half a percent, of each other.
Close(x, y) == 200 * Abs(x - y) <= IF x > 1000 THEN x ELSE 1000

\* A program sounds where it was authored: "frequency fields are authored in
\* audible Hz", and every dial it leaves in the core, clamped and pushed, is
\* heard there, under the gains, shapes and voicing it was recalled with, or
\* stands at the end of its range nearest to it.
RecallSoundsAuthored ==
  [][\A index \in Recalls : Recall(index) /\ index > 0 =>
       \A dial \in DOMAIN BandOf \cup DOMAIN FilterOf :
         LET authored == Programs[index][dial] \div 10
             heard    == HeardAt(dial, p'[dial], p')
         IN  \/ Close(authored, heard)
             \/ p'[dial] = Table[dial][1] /\ authored < heard
             \/ p'[dial] = Table[dial][2] /\ authored > heard]_vars

\* A restore is literal: the instance comes to hold what the blob says, filter
\* enables included, whatever it held, and would save that same blob again.
RestoreIsLiteral ==
  [][RestoreSaved => /\ values' = saved.values
                     /\ preset' = saved.preset
                     /\ Blob' = saved]_vars

\* Turning a filter dial carries OUT: the filter runs after it exactly when the
\* dial, as published, stands off its OUT detent.
DialCarriesOut ==
  [][\A m \in Moves : m[1] \in {"hpf_freq", "lpf_freq"} /\ SetNamed(m[1], m[2]) =>
       (p'[EnableOf(m[1])] = 1 <=> OffOut(m[1], values'[m[1]]))]_vars

\* No clipped sample is lost or told twice: whoever reads, every one is either
\* still pending or was told to one reader.
ClipConserved == clipped = clip_count + told["panel"] + told["set"]

\* "the dial and a recalled preset cannot disagree": after a recall each filter
\* runs exactly when its dial stands off OUT.
DialAgreesWithPreset ==
  [][\A index \in Recalls : Recall(index) =>
       \A dial \in {"hpf_freq", "lpf_freq"} :
         p'[EnableOf(dial)] = 1 <=> OffOut(dial, values'[dial])]_vars

\* "did it clip since I last looked": a panel that has just looked knows of
\* every clipped sample.
PanelToldOfClips == [][Read("panel") => told'["panel"] = clipped]_vars
=============================================================================
