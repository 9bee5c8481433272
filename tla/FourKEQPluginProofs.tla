------------------------- MODULE FourKEQPluginProofs -------------------------
(***************************************************************************)
(* Theorems about FourKEQPlugin, for every list of programs, every move of *)
(* a surface and every blob an earlier build may have written.             *)
(***************************************************************************)
EXTENDS FourKEQPlugin, NumberFacts, TLAPS

-----------------------------------------------------------------------------
(* The parameter table. *)

InRange(k, v) == v \in Table[k][1]..Table[k][2]

\* Every range of the table holds its default, and both of its ends survive
\* being printed with six digits.
LEMMA TableIsSound ==
  \A k \in Keys : /\ Table[k][1] \in Int /\ Table[k][2] \in Int
                  /\ InRange(k, Default(k))
                  /\ Table[k][1] % 10 = 0 /\ Table[k][2] % 10 = 0
BY DEF Keys, Table, Default, InRange

LEMMA KeysAreParams == Keys \subseteq Param
BY DEF Keys, Table, Param

LEMMA ClampIsInRange ==
  ASSUME NEW k \in Keys, NEW v \in Int
  PROVE  /\ InRange(k, Clamp(k, v))
         /\ InRange(k, v) => Clamp(k, v) = v
<1>1. /\ Table[k][1] \in Int /\ Table[k][2] \in Int
      /\ Table[k][1] <= Table[k][2]
  BY TableIsSound DEF InRange
<1> QED
  BY <1>1 DEF Clamp, InRange

\* Six digits of a value are in range if the value is, and print as themselves.
LEMMA PrintedIsStable ==
  ASSUME NEW k \in Keys, NEW v \in Int, InRange(k, v)
  PROVE  InRange(k, Printed(v)) /\ Printed(Printed(v)) = Printed(v)
<1>1. /\ Table[k][1] \in Int /\ Table[k][2] \in Int
      /\ Table[k][1] % 10 = 0 /\ Table[k][2] % 10 = 0
  BY TableIsSound
<1> QED
  BY <1>1 DEF Printed, InRange

\* What fkq_push hands over for an enum is what get_param answers.
LEMMA ReadbackIsPush ==
  ASSUME NEW k \in Enums, NEW v \in Int, InRange(k, v), v % 100 # 50
  PROVE  Readback(k, v) = Push(k, v)
<1>1. Table[k][1] = 0 /\ Table[k][2] = IF k = "oversampling" THEN 200 ELSE 100
  BY DEF Table, Enums
<1> QED
  BY <1>1 DEF Readback, Push, InRange

-----------------------------------------------------------------------------
(* The inductive invariant. *)

\* The published values, each in its range.
ValuesOK ==
  /\ DOMAIN values = Keys
  /\ \A k \in Keys : InRange(k, values[k])

PresetOK == preset \in 0..Len(Programs)

\* A saved blob is one this build has printed, and would print again.
SavedOK ==
  saved = NoBlob \/
    /\ DOMAIN saved = {"values", "preset"}
    /\ saved = [values |-> saved.values, preset |-> saved.preset]
    /\ saved.values = [k \in Keys |-> saved.values[k]]
    /\ \A k \in Keys : /\ InRange(k, saved.values[k])
                       /\ Printed(saved.values[k]) = saved.values[k]
    /\ saved.preset \in 0..Len(Programs)

\* No more is pending or told than was clipped.
ClipOK ==
  /\ clip_count \in Nat /\ told \in [{"panel", "set"} -> Nat]
  /\ clipped \in 0..MaxClip
  /\ ClipConserved

\* A value in range is an integer.
LEMMA InRangeIsInt ==
  ASSUME NEW k \in Keys, NEW v, InRange(k, v)
  PROVE  v \in Int
BY TableIsSound DEF InRange

-----------------------------------------------------------------------------
(* Every write goes through SetIndex. *)

\* What a callback may write: integers, to keys of the table.
Writable(f) == DOMAIN f \subseteq Keys /\ \A k \in DOMAIN f : f[k] \in Int

\* fkq_set_index keeps the published values in range, and the core on them.
LEMMA SetIndexKeeps ==
  ASSUME NEW f, Writable(f), SetIndex(f), ValuesOK, VoicedAsShown
  PROVE  ValuesOK' /\ VoicedAsShown'
<1>1. ValuesOK'
  BY ClampIsInRange DEF SetIndex, ValuesOK, Writable
<1>2. VoicedAsShown'
  <2>1. p' = [k \in Param |-> IF k \in DOMAIN f THEN Push(k, Clamp(k, f[k]))
                              ELSE p[k]]
    BY DEF SetIndex
  <2>2. ASSUME NEW k \in Param
        PROVE  p'[k] = IF k \in Keys THEN Push(k, values'[k]) ELSE 0
    <3>1. CASE k \in DOMAIN f
      BY <2>1, <3>1 DEF SetIndex, Writable
    <3>2. CASE k \notin DOMAIN f
      BY <2>1, <3>2 DEF SetIndex, VoicedAsShown, Pushed
    <3> QED
      BY <3>1, <3>2
  <2> QED
    BY <2>1, <2>2 DEF VoicedAsShown, Pushed
<1> QED
  BY <1>1, <1>2

LEMMA NamedIsWritable ==
  ASSUME NEW m \in Moves, m[1] \in Keys
  PROVE  Writable(Named(m[1], m[2]))
<1>1. {"hpf_enabled", "lpf_enabled"} \subseteq Keys
  BY DEF Keys, Table
<1> QED
  BY <1>1, MovesAssumption DEF Writable, Named, EnableOf

-----------------------------------------------------------------------------
(* What a program is recalled as. *)

\* Halving a range once leaves two coordinates of the range.
LEMMA HalvesStayBetween ==
  ASSUME NEW first \in Int, NEW last \in Int,
         NEW range \in (first..last) \X (first..last), NEW frequency, NEW heard
  PROVE  /\ (range[1] + range[2]) \div 2 \in first..last
         /\ Halve(range, frequency, heard) \in (first..last) \X (first..last)
<1>1. PICK a \in first..last, b \in first..last : range = <<a, b>>
  OBVIOUS
<1>2. (a + b) \div 2 \in first..last
  OBVIOUS
<1>3. PICK mid \in first..last : mid = (range[1] + range[2]) \div 2
  BY <1>1, <1>2
<1>4. \/ Halve(range, frequency, heard) = <<mid, b>>
      \/ Halve(range, frequency, heard) = <<a, mid>>
  BY <1>1, <1>3, Zenon DEF Halve
<1> QED
  BY <1>1, <1>3, <1>4

\* However a calibration bends, its inverse answers a coordinate of its table.
LEMMA BisectStaysBetween ==
  ASSUME NEW first \in Int, NEW last \in Int, first <= last,
         NEW frequency, NEW heard
  PROVE  Bisect(frequency, first, last, heard) \in first..last
<1> DEFINE Ranges == (first..last) \X (first..last)
           base == <<first, last>>
<1>1. base \in Ranges
  OBVIOUS
<1>2. PICK g : g = [k \in 1..18 |-> [r \in Ranges |-> Halve(r, frequency, heard)]]
  OBVIOUS
<1>3. \A k \in 1..18, r \in Ranges :
        g[k][r] = Halve(r, frequency, heard) /\ g[k][r] \in Ranges
  BY <1>2, HalvesStayBetween
<1> HIDE DEF Ranges, base
<1>4. Steps(g, 18, Ranges)
  BY <1>3 DEF Steps
<1>5. PICK f : Recurs(f, base, g, 18, Ranges)
  BY <1>1, <1>4, Recursion
<1>6. /\ f \in [0..18 -> Ranges] /\ f[0] = base
      /\ \A k \in 1..18 : f[k] = Halve(f[k - 1], frequency, heard)
  <2>1. f \in [0..18 -> Ranges] /\ f[0] = base /\ \A k \in 1..18 : f[k] = g[k][f[k - 1]]
    BY <1>5 DEF Recurs
  <2>2. ASSUME NEW k \in 1..18 PROVE f[k - 1] \in Ranges
    BY <2>1
  <2> QED
    BY <1>3, <2>1, <2>2
<1>7. f = [k \in 0..18 |-> IF k = 0 THEN base ELSE Halve(f[k - 1], frequency, heard)]
  <2>1. \A k \in 0..18 : f[k] = IF k = 0 THEN base ELSE Halve(f[k - 1], frequency, heard)
    BY <1>6
  <2> QED
    BY <1>6, <2>1
<1> DEFINE Is(h) ==
      h = [k \in 0..18 |-> IF k = 0 THEN base ELSE Halve(h[k - 1], frequency, heard)]
           range == CHOOSE h : Is(h)
<1>8. Is(range)
  BY <1>7
<1>9. Halved(frequency, first, last, heard) = range
  BY Zenon DEF Halved, base
<1> HIDE DEF range
<1>10. range[0] = base /\ \A k \in 1..18 : range[k] = Halve(range[k - 1], frequency, heard)
  BY <1>8
<1>11. range[18] \in Ranges
  <2> DEFINE Good == {k \in 0..18 : range[k] \in Ranges}
  <2>1. 0 \in Good
    BY <1>1, <1>10
  <2>2. ASSUME NEW k \in 1..18, k - 1 \in Good
        PROVE  k \in Good
    <3>1. range[k - 1] \in Ranges
      BY <2>2
    <3>2. Halve(range[k - 1], frequency, heard) \in Ranges
      BY <3>1, HalvesStayBetween DEF Ranges
    <3> QED
      BY <1>10, <3>2
  <2>3. 0..18 \subseteq Good
    <3> HIDE DEF Good
    <3> QED
      BY <2>1, <2>2, InductionUpTo
  <2> QED
    BY <2>3
<1>12. (range[18][1] + range[18][2]) \div 2 \in first..last
  BY <1>11, HalvesStayBetween DEF Ranges
<1>13. \/ Bisect(frequency, first, last, heard) = first
       \/ Bisect(frequency, first, last, heard) = last
       \/ Bisect(frequency, first, last, heard) = (range[18][1] + range[18][2]) \div 2
  BY <1>9, Zenon DEF Bisect
<1> QED
  BY <1>12, <1>13

\* Ten times a coordinate of a table that covers part of a dial is on the dial.
LEMMA CoveredIsInRange ==
  ASSUME NEW dial \in Keys, NEW control, NEW n, CoversDial(dial, control, n),
         NEW frequency, NEW heard
  PROVE  InRange(dial, 10 * Bisect(frequency, control[1], control[n], heard))
<1>1. /\ control[1] \in Int /\ control[n] \in Int /\ control[1] <= control[n]
      /\ Table[dial][1] <= 10 * control[1] /\ 10 * control[n] <= Table[dial][2]
  BY DEF CoversDial
<1>2. PICK x : x = Bisect(frequency, control[1], control[n], heard)
  OBVIOUS
<1>3. x \in control[1]..control[n]
  BY <1>1, <1>2, BisectStaysBetween
<1>4. Table[dial][1] \in Int /\ Table[dial][2] \in Int
  BY TableIsSound
<1>5. 10 * x \in Table[dial][1]..Table[dial][2]
  BY <1>1, <1>3, <1>4
<1> QED
  BY <1>2, <1>5 DEF InRange

\* Whatever a program is authored as, what it emits is on the dials.
LEMMA EmittedIsInRange ==
  ASSUME NEW i \in 1..Len(Programs), NEW k \in MappedUpstream \cap PresetOwned
  PROVE  InRange(k, Emissions[i][k])
<1> DEFINE program == Programs[i]
<1>1. Emissions[i][k] = Emitted(program)[k] /\ k \in PresetOwned /\ k \in Keys
  BY DEF Emissions, MappedUpstream, Keys, Table
<1>2. CASE k \in {"hpf_enabled", "lpf_enabled", "auto_gain"}
  <2>1. Table[k][1] = 0 /\ Table[k][2] = 100
    <3>1. /\ Table["hpf_enabled"] = <<0, 100, 0>>
          /\ Table["lpf_enabled"] = <<0, 100, 0>>
          /\ Table["auto_gain"] = <<0, 100, 0>>
      BY DEF Table
    <3> QED
      BY <1>2, <3>1
  <2>2. Emitted(program)[k] = 0 \/ Emitted(program)[k] = 100
    BY <1>1, <1>2 DEF Emitted, Decided
  <2> QED
    BY <1>1, <2>1, <2>2 DEF InRange
<1>3. CASE k \in DOMAIN BandOf
  <2>1. PICK frequency, heard :
          Emitted(program)[k] =
            10 * Bisect(frequency, EqFrequencyControls[BandOf[k]][1],
                        EqFrequencyControls[BandOf[k]][21], heard)
    <3>1. k \notin {"hpf_enabled", "lpf_enabled", "auto_gain"}
      BY <1>3 DEF BandOf
    <3>2. Emitted(program)[k] =
            10 * ControlForCalibratedEqFrequency(
                   program[k] \div 10, program[GainOf[k]], BandOf[k],
                   Voicing(program), IsBell(k, program))
      BY <1>1, <1>3, <3>1 DEF Emitted, Decided
    <3> QED
      BY <3>2, Zenon DEF ControlForCalibratedEqFrequency
  <2>2. CoversDial(k, EqFrequencyControls[BandOf[k]], 21)
    BY <1>3, CalibrationAssumption
  <2> QED
    BY <1>1, <2>1, <2>2, CoveredIsInRange
<1>4. CASE k \in DOMAIN FilterOf
  <2> DEFINE control == FilterCalibrations[Voicing(program)][FilterOf[k]].control
  <2>1. PICK frequency, heard :
          Emitted(program)[k] =
            10 * Bisect(frequency, control[1], control[Len(control)], heard)
    <3>1. k \notin {"hpf_enabled", "lpf_enabled", "auto_gain"} /\ k \notin DOMAIN BandOf
      BY <1>4 DEF FilterOf, BandOf
    <3>2. Emitted(program)[k] =
            10 * ControlForCalibratedFilterFrequency(
                   program[k] \div 10, FilterOf[k], Voicing(program))
      BY <1>1, <1>4, <3>1 DEF Emitted, Decided
    <3> QED
      BY <3>2, Zenon DEF ControlForCalibratedFilterFrequency
  <2>2. Voicing(program) \in 0..1
    BY DEF Voicing
  <2>3. CoversDial(k, control, Len(control))
    BY <1>4, <2>2, CalibrationAssumption
  <2> QED
    BY <1>1, <2>1, <2>3, CoveredIsInRange
<1>5. CASE k \in Authored
  <2>1. /\ k \notin {"hpf_enabled", "lpf_enabled", "auto_gain"}
        /\ k \notin DOMAIN BandOf /\ k \notin DOMAIN FilterOf
    BY <1>5 DEF Authored
  <2>2. Emitted(program)[k] = program[k]
    BY <1>1, <2>1 DEF Emitted, Decided
  <2> QED
    BY <1>1, <1>5, <2>2, ProgramsAssumption DEF InRange
<1> QED
  BY <1>2, <1>3, <1>4, <1>5 DEF Authored

\* A recall writes every key a program owns, with a value on its dial.
LEMMA RecalledIsInRange ==
  ASSUME NEW index \in 0..Len(Programs)
  PROVE  /\ DOMAIN Recalled(index) = Keys \cap PresetOwned
         /\ \A k \in Keys \cap PresetOwned :
              /\ Recalled(index)[k] = IF index = 0 THEN Default(k)
                                      ELSE Emissions[index][k]
              /\ InRange(k, Recalled(index)[k])
<1>1. MappedUpstream \cap PresetOwned = Keys \cap PresetOwned
  BY DEF MappedUpstream, PresetOwned, Keys, Table, Param
<1>2. \A k \in Keys : InRange(k, Default(k))
  BY TableIsSound
<1>3. index # 0 => index \in 1..Len(Programs)
  BY ProgramsAssumption
<1>4. index # 0 => \A k \in Keys \cap PresetOwned : InRange(k, Emissions[index][k])
  BY <1>1, <1>3, EmittedIsInRange
<1> QED
  BY <1>1, <1>2, <1>4 DEF Recalled

LEMMA RecalledIsWritable ==
  ASSUME NEW index \in 0..Len(Programs)
  PROVE  Writable(Recalled(index))
BY RecalledIsInRange, InRangeIsInt DEF Writable

\* A restore leaves the browser on a program.
LEMMA RestoredPresetOK ==
  ASSUME PresetOK, NEW blob, blob.preset \in Nat \cup {NoPreset}
  PROVE  RestoredPreset(blob) \in 0..Len(Programs)
BY ProgramsAssumption DEF PresetOK, RestoredPreset, NoPreset

-----------------------------------------------------------------------------
(* Every step keeps the invariant. *)

PInv == ValuesOK /\ VoicedAsShown /\ PresetOK /\ SavedOK /\ ClipOK

LEMMA FreshIsOK ==
  ASSUME values = FreshValues, p = Pushed(FreshValues)
  PROVE  ValuesOK /\ VoicedAsShown
BY TableIsSound DEF ValuesOK, VoicedAsShown, FreshValues

LEMMA PInvInit == Init => PInv
<1> SUFFICES ASSUME Init PROVE PInv
  OBVIOUS
<1>1. ValuesOK /\ VoicedAsShown
  BY FreshIsOK DEF Init
<1>2. PresetOK /\ SavedOK
  BY ProgramsAssumption DEF Init, PresetOK, SavedOK
<1>3. ClipOK
  BY ClipAssumption DEF Init, ClipOK, ClipConserved
<1> QED
  BY <1>1, <1>2, <1>3 DEF PInv

\* What a callback that writes parameters leaves alone.
LEMMA WriteKeeps ==
  ASSUME PInv, NEW f, Writable(f), SetIndex(f), PresetOK',
         UNCHANGED <<clip_count, saved, clipped, told>>
  PROVE  PInv'
<1>1. ValuesOK' /\ VoicedAsShown'
  BY SetIndexKeeps DEF PInv
<1>2. SavedOK' /\ ClipOK'
  BY DEF PInv, SavedOK, ClipOK, ClipConserved
<1> QED
  BY <1>1, <1>2 DEF PInv

LEMMA BlobIsOK ==
  ASSUME ValuesOK, PresetOK, saved' = Blob
  PROVE  SavedOK'
<1>1. \A k \in Keys : values[k] \in Int /\ InRange(k, values[k])
  BY InRangeIsInt DEF ValuesOK
<1>2. \A k \in Keys : /\ InRange(k, Printed(values[k]))
                      /\ Printed(Printed(values[k])) = Printed(values[k])
  BY <1>1, PrintedIsStable
<1> QED
  BY <1>2 DEF Blob, SavedOK, PresetOK

LEMMA PInvNext == PInv /\ [Next]_vars => PInv'
<1> SUFFICES ASSUME PInv, [Next]_vars PROVE PInv'
  OBVIOUS
<1>1. ASSUME NEW m \in Moves, SetNamed(m[1], m[2])
      PROVE  PInv'
  <2>1. Writable(Named(m[1], m[2]))
    BY <1>1, NamedIsWritable DEF SetNamed
  <2>2. PresetOK'
    BY <1>1 DEF SetNamed, PInv, PresetOK
  <2> QED
    BY <1>1, <2>1, <2>2, WriteKeeps DEF SetNamed
<1>2. ASSUME NEW index \in Recalls, Recall(index)
      PROVE  PInv'
  <2>1. Writable(Recalled(index)) /\ PresetOK'
    BY <1>2, RecalledIsWritable DEF Recall, PresetOK
  <2> QED
    BY <1>2, <2>1, WriteKeeps DEF Recall
<1>3. ASSUME NEW reader \in {"panel", "set"}, Read(reader)
      PROVE  PInv'
  <2>1. ValuesOK' /\ VoicedAsShown' /\ PresetOK'
    BY <1>3 DEF Read, PInv, ValuesOK, VoicedAsShown, PresetOK
  <2>2. SavedOK'
    <3>1. CASE reader = "set"
      BY <1>3, <3>1, BlobIsOK DEF Read, PInv
    <3>2. CASE reader # "set"
      BY <1>3, <3>2 DEF Read, PInv, SavedOK
    <3> QED
      BY <3>1, <3>2
  <2>3. ClipOK'
    <3>1. /\ told' \in [{"panel", "set"} -> Nat]
          /\ told'["panel"] + told'["set"]
               = told["panel"] + told["set"] + clip_count
      BY <1>3 DEF Read, PInv, ClipOK
    <3> QED
      BY <1>3, <3>1 DEF Read, PInv, ClipOK, ClipConserved
  <2> QED
    BY <2>1, <2>2, <2>3 DEF PInv
<1>4. CASE RestoreSaved
  <2>1. SetIndex(saved.values) /\ Writable(saved.values)
    BY <1>4, InRangeIsInt DEF RestoreSaved, Restore, PInv, SavedOK, Writable
  <2>2. PresetOK'
    BY <1>4, RestoredPresetOK
       DEF RestoreSaved, Restore, PInv, SavedOK, PresetOK
  <2> QED
    BY <1>4, <2>1, <2>2, WriteKeeps DEF RestoreSaved, Restore
<1>5. ASSUME NEW blob \in OldBlobs, Restore(blob)
      PROVE  PInv'
  <2>1. Writable(blob.values)
    BY OldBlobsAssumption DEF Writable
  <2>2. PresetOK'
    BY <1>5, OldBlobsAssumption, RestoredPresetOK DEF Restore, PInv, PresetOK
  <2> QED
    BY <1>5, <2>1, <2>2, WriteKeeps DEF Restore
<1>6. CASE Recreate
  <2>1. ValuesOK' /\ VoicedAsShown'
    BY <1>6, TableIsSound DEF Recreate, ValuesOK, VoicedAsShown, FreshValues
  <2>2. PresetOK' /\ SavedOK'
    BY <1>6, ProgramsAssumption DEF Recreate, PInv, PresetOK, SavedOK
  <2>3. ClipOK'
    BY <1>6, ClipAssumption DEF Recreate, ClipOK, ClipConserved
  <2> QED
    BY <2>1, <2>2, <2>3 DEF PInv
<1>7. ASSUME NEW n \in 1..2, Process(n)
      PROVE  PInv'
  <2>1. ValuesOK' /\ VoicedAsShown' /\ PresetOK' /\ SavedOK'
    BY <1>7 DEF Process, PInv, ValuesOK, VoicedAsShown, PresetOK, SavedOK
  <2>2. ClipOK'
    BY <1>7, ClipAssumption DEF Process, PInv, ClipOK, ClipConserved
  <2> QED
    BY <2>1, <2>2 DEF PInv
<1>8. CASE UNCHANGED vars
  BY <1>8 DEF vars, PInv, ValuesOK, VoicedAsShown, PresetOK, SavedOK, ClipOK,
              ClipConserved
<1> QED
  BY <1>1, <1>2, <1>3, <1>4, <1>5, <1>6, <1>7, <1>8 DEF Next

-----------------------------------------------------------------------------
(* Theorems. *)

LEMMA Invariance == Spec => []PInv
BY PInvInit, PInvNext, PTL DEF Spec

\* The core runs on exactly what the surface publishes, after any sequence of
\* named sets, recalls, restores and restarts: fkq_set_index is the only
\* writer, and it publishes and pushes the one clamped value.
THEOREM CoreRunsWhatIsShown == Spec => []VoicedAsShown
BY Invariance, PTL DEF PInv

\* An enum reads back as the option the core runs, whatever text set it.
THEOREM EnumsReadBack == Spec => []ReadbackIsHeard
<1>1. PInv => ReadbackIsHeard
  <2> SUFFICES ASSUME PInv, NEW k \in Enums, values[k] % 100 # 50
               PROVE  Readback(k, values[k]) = p[k]
    BY DEF ReadbackIsHeard
  <2>1. k \in Keys /\ k \in Param
    BY DEF Enums, Keys, Table, Param
  <2>2. values[k] \in Int /\ InRange(k, values[k])
    BY <2>1, InRangeIsInt DEF PInv, ValuesOK
  <2> QED
    BY <2>1, <2>2, ReadbackIsPush DEF PInv, VoicedAsShown, Pushed
<1> QED
  BY <1>1, Invariance, PTL

\* No clipped sample is lost, or told to two readers.
THEOREM ClipsAreConserved == Spec => []ClipConserved
<1>1. PInv => ClipConserved
  BY DEF PInv, ClipOK
<1> QED
  BY <1>1, Invariance, PTL

\* A restore is literal: the instance comes to hold what the blob says, and
\* would save that same blob again.
THEOREM RestoreLiterally == Spec => RestoreIsLiteral
<1>1. ASSUME PInv, RestoreSaved
      PROVE  values' = saved.values /\ preset' = saved.preset /\ Blob' = saved
  <2>1. /\ saved = [values |-> saved.values, preset |-> saved.preset]
        /\ saved.values = [k \in Keys |-> saved.values[k]]
        /\ \A k \in Keys : /\ InRange(k, saved.values[k])
                           /\ saved.values[k] \in Int
                           /\ Printed(saved.values[k]) = saved.values[k]
        /\ saved.preset \in 0..Len(Programs)
    BY <1>1, InRangeIsInt DEF PInv, SavedOK, RestoreSaved
  <2>2. values' = [k \in Keys |-> Clamp(k, saved.values[k])]
    BY <1>1, <2>1 DEF RestoreSaved, Restore, SetIndex
  <2>3. values' = saved.values
    BY <2>1, <2>2, ClampIsInRange
  <2>4. preset' = saved.preset
    BY <1>1, <2>1, ProgramsAssumption
       DEF RestoreSaved, Restore, RestoredPreset, NoPreset
  <2>5. [k \in Keys |-> Printed(values'[k])] = saved.values
    BY <2>1, <2>3
  <2> QED
    BY <2>1, <2>3, <2>4, <2>5 DEF Blob
<1> QED
  BY <1>1, Invariance, PTL DEF RestoreIsLiteral

\* Turning a filter dial carries OUT: the enable derived from the value that
\* arrived agrees with the dial as clamped and published.
THEOREM DialsCarryOut == Spec => DialCarriesOut
<1>1. ASSUME PInv, NEW m \in Moves, m[1] \in {"hpf_freq", "lpf_freq"},
             SetNamed(m[1], m[2])
      PROVE  p'[EnableOf(m[1])] = 1 <=> OffOut(m[1], values'[m[1]])
  <2> DEFINE dial == m[1]
             f    == Named(m[1], m[2])
  <2>1. /\ dial \in Keys /\ EnableOf(dial) \in Keys /\ EnableOf(dial) # dial
        /\ EnableOf(dial) \in Enums \ {"oversampling"}
        /\ m[2] \in Int
    BY <1>1, MovesAssumption DEF EnableOf, Keys, Table, Enums
  <2>2. /\ DOMAIN f = {dial, EnableOf(dial)}
        /\ f[dial] = m[2]
        /\ f[EnableOf(dial)] = IF OffOut(dial, m[2]) THEN 100 ELSE 0
    BY <1>1, <2>1 DEF Named
  <2>3. values'[dial] = Clamp(dial, m[2])
    BY <1>1, <2>1, <2>2 DEF SetNamed, SetIndex
  <2>4. p'[EnableOf(dial)] = Push(EnableOf(dial), Clamp(EnableOf(dial), f[EnableOf(dial)]))
    BY <1>1, <2>1, <2>2, KeysAreParams DEF SetNamed, SetIndex
  <2>5. Table[EnableOf(dial)][1] = 0 /\ Table[EnableOf(dial)][2] = 100
    BY <1>1 DEF EnableOf, Table
  <2>6. p'[EnableOf(dial)] = IF OffOut(dial, m[2]) THEN 1 ELSE 0
    BY <2>1, <2>2, <2>4, <2>5 DEF Push, Clamp
  <2>7. OffOut(dial, m[2]) <=> OffOut(dial, Clamp(dial, m[2]))
    <3>1. CASE dial = "hpf_freq"
      <4>1. Table["hpf_freq"][1] = 1600 /\ Table["hpf_freq"][2] = 35000
        BY DEF Table
      <4> QED
        BY <2>1, <3>1, <4>1 DEF OffOut, Clamp
    <3>2. CASE dial = "lpf_freq"
      <4>1. Table["lpf_freq"][1] = 300000 /\ Table["lpf_freq"][2] = 1520100
        BY DEF Table
      <4> QED
        BY <2>1, <3>2, <4>1 DEF OffOut, Clamp
    <3> QED
      BY <1>1, <3>1, <3>2
  <2> QED
    BY <2>3, <2>6, <2>7
<1>2. PInv => \A m \in Moves :
        m[1] \in {"hpf_freq", "lpf_freq"} /\ SetNamed(m[1], m[2]) =>
          (p'[EnableOf(m[1])] = 1 <=> OffOut(m[1], values'[m[1]]))
  BY <1>1
<1> QED
  BY <1>2, Invariance, PTL DEF DialCarriesOut

\* A recall leaves nothing of what was there before (fkq_apply_preset): every
\* parameter a program owns becomes the program's, as emitted, since its dial
\* holds it without a clamp; every other keeps its value.
THEOREM RecallsAreWhole == Spec => RecallIsWhole
<1>1. ASSUME PInv, NEW index \in Recalls, Recall(index), NEW k \in Keys
      PROVE  values'[k] = IF k \notin PresetOwned THEN values[k]
                          ELSE IF index = 0 THEN Default(k)
                          ELSE Emissions[index][k]
  <2> DEFINE f == Recalled(index)
  <2>1. index \in 0..Len(Programs) /\ SetIndex(f)
    BY <1>1 DEF Recall
  <2>2. DOMAIN f = Keys \cap PresetOwned
    BY <2>1, RecalledIsInRange
  <2>3. values'[k] = IF k \in DOMAIN f THEN Clamp(k, f[k]) ELSE values[k]
    BY <1>1, <2>1 DEF SetIndex
  <2>4. CASE k \in PresetOwned
    <3>1. /\ f[k] = IF index = 0 THEN Default(k) ELSE Emissions[index][k]
          /\ InRange(k, f[k])
      BY <1>1, <2>1, <2>4, RecalledIsInRange
    <3>2. Clamp(k, f[k]) = f[k]
      BY <1>1, <3>1, InRangeIsInt, ClampIsInRange
    <3> QED
      BY <1>1, <2>2, <2>3, <2>4, <3>1, <3>2
  <2> QED
    BY <1>1, <2>2, <2>3, <2>4
<1>2. PInv => \A index \in Recalls : Recall(index) =>
        \A k \in Keys :
          values'[k] = IF k \notin PresetOwned THEN values[k]
                       ELSE IF index = 0 THEN Default(k)
                       ELSE Emissions[index][k]
  BY <1>1
<1> QED
  BY <1>2, Invariance, PTL DEF RecallIsWhole

\* Every published value stays in the range its dial shows.
THEOREM PluginTypeCorrect == Spec => []TypeOK
<1>1. PInv => TypeOK
  <2> SUFFICES ASSUME PInv PROVE TypeOK
    OBVIOUS
  <2>1. DOMAIN values = Keys /\ \A k \in Keys : values[k] \in Table[k][1]..Table[k][2]
    BY DEF PInv, ValuesOK, InRange
  <2>2. ASSUME NEW k \in Keys, NEW v \in Int
        PROVE  Push(k, v) \in Int
    BY DEF Push
  <2>3. p \in [Param -> Int]
    BY <2>2, InRangeIsInt DEF PInv, ValuesOK, VoicedAsShown, Pushed
  <2>4. /\ clip_count \in 0..MaxClip
        /\ clipped \in 0..MaxClip
        /\ told \in [{"panel", "set"} -> 0..MaxClip]
    BY ClipAssumption DEF PInv, ClipOK, ClipConserved
  <2> QED
    BY <2>1, <2>3, <2>4 DEF PInv, PresetOK, TypeOK
<1> QED
  BY <1>1, Invariance, PTL
=============================================================================
