# 4K EQ: a verification development

TLA+ models of the 4K EQ audio effect for Schwung: the EQ core it ports from
Dusk Audio (`duskaudio::FourKEQDSP`), the `audio_fx` shell around it
(`fourk_eq_plugin.cpp`), the remote panel that controls it (`web_ui.html`) and
the scripts that bring a new build onto the device, with the TLC runs that check
them on small instances and the theorems TLAPS proves of them for every instance.

`PROJECT.json` lists the components, the runs, the lines each definition
stands for, the hazards and the theorems. All paths below are relative to the
repository.

## 1. The system

| component | state | operations | talks to |
|---|---|---|---|
| EQ core, `src/ported/shared-daf/dsp/FourKEQDSP.{hpp,cpp}` | 24 parameter atomics; coefficients; recursive state of 13 biquads per channel, two oversampler stages, one saturator; factor and latency; auto-gain cache; bypass one-pole | `set*`, `prepare`, `reset`, `processBlock`/`processChunk`, `getLatencySamples`, the drawn curve, meters | called by the shell and by editors |
| Oversampler, smoother, biquads, saturation, same directory | FIR and IIR histories, one-pole value | `setFactor`, `reset`, `processSample`, `next` | owned by the core |
| Spectrum rings, `FourKEQDSP.hpp` 36-66 | slots and a write position, before and after the EQ | `push` by the audio thread, `snapshot` by an editor | core, editors |
| Calibration, `FourKEQDSP.cpp` 15-846, `.inc` tables | none | control coordinate to audible frequency, gain and Q, and back | core, programs |
| Programs, `src/ported/daf-plugin/` | none | `fkIsPresetParam`, `forEachFourKEQFactoryPresetParam` | shell |
| Plugin shell, `src/dsp/` | published values, preset position, clip counter, two conversion buffers | `create_instance`, `set_param`, `get_param`, `process_block` | host, core |
| Remote panel, `src/web_ui.html` | optimistic copies of the values, the dial that is held, the track and the component, a websocket | gestures, track changes, messages of the manager | host manager, shell |
| Deploy and reload, `scripts/` | files on the device, the build the host has mapped, what the script has read | upload, swap, loadtest, clear, set, subscribe, verify | host manager |
| Host headers, gates, descriptions | none | - | - |

How they interact. The host is documented to call every entry point of the shell
from one callback (`fourk_eq_plugin.cpp` 12-13), so that control calls and blocks
alternate and never overlap; nothing in the code enforces it. The shell publishes each value in its own atomic and pushes it
into the core's; the core loads its atomics again at each stage of a block. The
core's own contract is wider than the shell needs: "`set*()` atomic from any
thread" (`FourKEQDSP.hpp` 18-19), and a spectrum snapshot from any thread too.
The host stores the `state` blob an instance prints and hands it back to a later
instance, of a later build perhaps. The panel and the reload script speak to the
host's manager over websockets of their own: commands one way, `slot_info`,
`chain_params` and `param_update` the other, answers and pushes in one stream.

What is hard here:

- `processChunk` is a pipeline of some ten stages that load the parameters
  separately; caches and recursive states link one block to the next. What the
  code must get right is *when* each is reset, retuned or rebuilt.
- The auto-gain compensation is cached under a key that has to name everything
  it is computed from; the drawn curve is designed a second time, elsewhere.
- A block is cut twice, in place, through buffers that are used again, while the
  crossfade and the filter histories must run on as though it were not.
- One value lives in several places (published, pushed, printed, read back, shown
  on a panel), and is clamped, rounded, calibrated and printed on the way.
- Three writers with three rules: a named key fans a filter dial out to its
  enable, a blob is literal, a program decides the enables for itself.
- One clip counter is cleared by two kinds of reader.
- The panel shows what it sends before the device has it, and hears of its own
  changes late, among those of others and of the track before.
- The reload script asks a device that ignores writes, serves an old inode, or
  answers twice, and has to say in the end what is running.

What makes each component correct: the core renders every block with the voice
of the settings in force, as though nothing were cached, nothing it runs resumes
from an old state, its crossfade ends, and its curve is its sound; the shell's
core runs what the surface shows, a recall is whole and sounds as authored, a
restore is literal, no clip is lost, and the samples do not know how they were
cut; the panel never takes a dial from the hand and comes to show the device;
mapped code is never written over and no verdict is made up.

## 2. The modules

| module | models |
|---|---|
| `FourKEQResponse` | the pure part: what a setting is, what each section is designed from, what is in the signal path, the auto-gain compensation and its key, the oversampling factor and its latency, the `Voice` of a setting, and the drawn curve |
| `EQPromise` | the abstract specification of the core: a block is rendered with `Voice(settings, rate)`; no cache, no stage, no memory |
| `FourKEQDSP` | the core: setters, `prepare`, one action per stage of `processChunk`; `SerialSpec` and `ConcurrentSpec` |
| `HalfbandFIR`, `DuskOversampler` | the oversampler on integer samples: rings, filters, stages nested and split |
| `OversamplerLatency` | an impulse through it, against the latency it claims |
| `SpectrumRing` | `push` in two stores, `snapshot` in its loads |
| `Int16Samples` | the conversions between int16 and float |
| `StreamPromise` | the abstract specification of the sample path: one convolution and one fade of the whole stream |
| `FourKEQBlock` | the path of the samples: pieces, chunks, taps, oversampler, crossfade, clip count, and an editor's snapshots meanwhile |
| `FourKEQCalibration` | control coordinate to audible frequency and back |
| `FourKEQPlugin` | the shell: published values, atomics, programs, blobs, clip counter; one action per callback |
| `FourKEQInstance` | the shell around the core, sharing the atomics `p` |
| `RemotePanel` | the panel, and a manager and devices (external) it talks to |
| `SlotReload` | `deploy.sh`, `reload_fx_slot.py`, and the device (external) they work on |
| `FourKEQDSPProofs`, `FourKEQPluginProofs`, `FourKEQInstanceProofs`, `FourKEQBlockProofs`, `RemotePanelProofs`, `SlotReloadProofs` | theorems and their proofs |
| `SpectrumRingProofs` | lemmas about one ring, for any interleaving of its two threads; `FourKEQBlockProofs` instantiates it for both taps |
| `NumberFacts` | lemmas the proofs share: remainders and quotients, induction, definition by recursion |
| `MCFourKEQDSP`, `MCFourKEQPlugin`, `MCFourKEQInstance`, `MCFourKEQBlock`, `MCOversamplerLatency`, `MCRemotePanel`, and `MCCalibration` (the tables and programs as they stand in the code) | small instances for TLC |

**Data.** A biquad's coefficients are abstracted to what they are computed from
(`Design`: the parameters and the sample rate), so two designs are equal exactly
when the code computes the same numbers: that is what a cache or a stage can get
wrong. A compensation is likewise the designs it measured, and the curve the
designs it multiplies. A block of samples is
the voice it was rendered with (`out`). In the shell a value is an integer number
of hundredths, with the real ranges, thresholds, rounding and printing.

**The core.** `p` is the atomics; `rate`, `curFactor`, `reportedLatency`,
`lastEnabled`, `autoGainSnap`, `autoCompCached`, `autoCompValid`, `power` and
`lastSmoothedPower` are the members of those names (`lastEnabled` is the set of
`lastHpfEnabled` and `lastLpfEnabled`; `power` is the smoother's value);
`satRate` is the rate `consoleSat` was tuned for; `coef` the coefficients;
`mem` the age of every recursive state: `clean` after a reset, `live` while
it runs, `stale` once a block has passed without it. `pc` and `local` are the
stage and the local variables of `processChunk`.

| action | lines of `processChunk` |
|---|---|
| `Factor` | 1093-1104: a new factor retunes the saturator and clears every state |
| `Console` | 1106-1109 |
| `RecomputeCoeffs` | 1111 and 944-1017 |
| `Filters` | 1113-1119: enables, and a clear state for a filter that comes back |
| `Input` | 1121-1146 |
| `Bands` | 1148-1195: active bands, and a clear state for every band that is out |
| `Run` | 1196-1246: the sample loop |
| `AutoGainCached`, `AutoGainMiss`, `Scan` | 1248-1267 and 1019-1064 |
| `Mix` | 1268-1304: output gain, bypass crossfade, end of the block |

A stage is one step: the loads within a stage are a few instructions of each
other, and only between two stages is anything decided from the difference. The
one exception matters and is split: the auto-gain snapshot (`AutoGainMiss`) and
the scan's own loads (`Scan`) are two steps.

`SerialSpec` lets parameters and rate change between blocks only (`Configure`,
`Prepare`), as the shell does. `ConcurrentSpec` lets one setter at a time store
its atomic between any two stages (`Set`), as the header allows; `Prepare` stays
between blocks ("prepare()/reset() on the main thread").

**The shell.** `SetNamed`, `Recall`, `Restore`, `Read`, `Recreate` and `Process`
are `set_param` on a name, on `preset`, on `state`, `get_param` of `state` or
`clip`, destroy and create, and the conversion to int16. All writes go through
`SetIndex`, as in the code (`fkq_set_index`). `saved` is the host's copy of the
blob; `clipped` and `told` are history, for the counter.

**The instance.** `ControlCall` runs a callback of the shell at `pc = "idle"`;
`BlockStage` and `BlockEnd` run the core's stages and the shell's conversion. That
guard is the host's contract, assumed: it translates no line of code, and what the
module shows holds under it. What a setter in the middle of a block does is asked of
the core alone (`dsp_racing`, `dsp_autogain_race`). The module covers one life of an instance: `Recreate` and a second `prepare` never happen
within one, since `create_instance` is the only caller of `prepare`.

**The samples.** `FourKEQBlock` has what `FourKEQDSP` leaves out: integer samples
through `fkq_process_block`, `processBlock` and `processChunk`. Its actions are
the loops of the code, in order: `ConvertIn` and `ConvertOut` a piece, `Input`,
`Run` and `Mix` a chunk, `PreTap` and `PostTap` a sample in two stores. Filters and
bands are at rest in it; the oversampler, the overload of the console and the
crossfade are at work. `StreamKept` is refinement of `StreamPromise`, which
computes each answer from the whole stream by convolution; a block under way is
mapped to the crossfade it began with. `EditorPre` and `EditorPost` are a snapshot
under way on another thread.

**The calibration.** Frequencies are tenths of a hertz, gains hundredths of a dB.
`FourKEQPlugin` expands a program through `FourKEQCalibration` as
`forEachFourKEQFactoryPresetParam` does, with the tables of `MCCalibration`. A
frequency beyond a table is held at its end, as in the code: Telephone EQ's
brown HF shelf, authored at 8 kHz, ends at the top of its dial, near 5.5 kHz.
`RecallSoundsAuthored` allows for that, and for nothing else.

**The panel.** Three parameters stand for all: the HPF dial, its enable and
bypass. Messages are records in two queues; the manager handles what it is sent
in order and answers a subscription with everything it has. `Receive` is `onmessage`,
with a case for each type of message: `Discover`, `Describe`, `ShowUpdate`. A track
may be without the EQ; the panel then keeps the component of the track before, and
may take another effect's `chain_params` for its own. The code also lets messages
without a track through; the manager is taken to put one on each. `Close` loses what
is on the wire. `ever` and `informed` are history: what each track's device has had
and was sent, and whether the track the panel is on has told it where its EQ sits.

**The deployment.** Files are inodes, so that `mv` is a change of name and a
mapping outlives it. The device may ignore a write, keep the inode it has mapped,
and answer at any time; with `Prompt` it does what it is told before the script's
sleep is over. A handshake that times out and a send that fails are errors nothing
catches (`Raise`): the script ends without a verdict, and what it sent may still be
handled. `ran` is history: what has been in the slot since the script connected.

## 3. The runs

| run | checks | distinct states |
|---|---|---|
| `dsp_serial` | `TypeOK`, `CacheSound`, `NoStaleState`, `PromiseKept`, `CurveIsHeard` | 260 968 |
| `dsp_racing` | `NoStaleState`, `VoiceSettles`, `BypassSettles` | 937 685 |
| `plugin` | `TypeOK`, `VoicedAsShown`, `ReadbackIsHeard`, `ClipConserved`, `RecallIsWhole`, `RestoreIsLiteral`, `DialCarriesOut` | 168 304 |
| `instance` | `HeardIsShown`, `RecallSoundsAuthored` | 896 235 |
| `sample_path` | `SplitIsWhole`, `SnapshotsAreRecent`, `StreamKept`, `DryIsBitExact` | 442 522 |
| `panel` | `TypeOK`, `HandIsTruth`, `ShowsItsTrack`, `SendsGoToTheEq`, `PanelSettles` | 581 419 |
| `reload` | `TypeOK`, `MappedCodeIntact`, `VerdictWasTrue`, `ScriptsEnd` | 25 992 |
| `dsp_autogain_race`, `oversampler_latency`, `reload_verdict`, `plugin_dial_vs_preset`, `plugin_clip_panel` | one sentence of a comment each, found not to hold (section 5) | - |

`dsp_serial` explores every order of control callbacks, re-prepares and blocks.
`PromiseKept` is refinement: `INSTANCE EQPromise WITH settings <- p`. `dsp_racing`
lets a setter land anywhere. `plugin` starts from a fresh instance and applies any
sequence of callbacks; `instance` composes both. `sample_path` plays a stream in
every choice of blocks, at every factor, switching bypass between them, while an
editor takes snapshots. `panel` and `reload` let users, timers, the network and
the device act in any order. The reload and impulse runs end, and are the ones that
do not check for deadlock; in `sample_path` the host may always toggle bypass,
in `panel` the timers keep firing.

Bounds, and why they are enough:

- Settings. `VoicingSettings` has a band, a filter and auto-gain in every
  combination, so each switches with the others in or out (LF is off 0 dB
  throughout: LM brings the low pair correction with it), then a Q, which only
  the key of the cache can tell apart, and the factor. The other bands and the
  other filter go through the same lines. `RacingSettings` keeps those that reach
  a reset or the crossfade: a band, a filter, the factor, bypass, one parameter
  apart so that every `Set` is one store.
- Rates. 44.1, 96 and 192 kHz lie on the three sides of `chooseFactor`'s caps.
- `PowerMax` and `Settled`: a crossfade in a few steps with the gate one above
  the end, a quarter of the distance per block on the way up and three quarters on
  the way down, rounded as a float one-pole is: its steps die out just short of a
  target of 1, and far below what an int16 can show for a target of 0.
- Programs. In `plugin` Drum Bus Punch (black, filters out, control coordinates off
  OUT) and Telephone EQ (brown, filters in); in `instance` Bass Guitar Polish in
  its place; indices one past both ends.
- Moves: a dial off OUT, a dial below its range, an enable alone, a switch at a
  fraction, a key nobody knows. `OldBlobs`: one without enables and preset, one with
  a preset beyond the list, in `instance` one with a gain beyond its range. `MaxClip`,
  two clipped samples, is what it takes for one to be pending when the next comes.
- The sample path. Blocks of one frame and of five, pieces of three, chunks of
  two: a piece that is not full, a chunk that is not full, a block in one piece and
  in two. A 4-bit int16 whose rails the stream reaches, and the console's at twice
  the gain; filters of two taps and of one in rings of eight, which the stream
  laps; a spectrum ring of two slots, a position that wraps at four, snapshots
  shorter and longer than the ring.
- The calibration has its real tables, to a tenth of a hertz.
- The panel. Three tracks, with the EQ in the first effect of one, in the second of
  another and nowhere in the third; a dial of two positions and one below, four acts of users and network
  in all, up to two messages each way before one more act is taken; timers and
  deliveries are not counted.
- The reload. A file uploaded in part or whole; a slot that is empty, has the EQ
  or another effect; a build expected or none; four waiting messages before the
  device pushes no more.

Fairness. `ConcurrentSpec` has `WF_vars(Chunk)` and nothing else: the host calls
`process_block` every audio period and it never blocks; nobody has to move a
parameter. The liveness properties start from quiet: `VoiceSettles` from the
moment parameters and rate stay put, `BypassSettles` from the moment bypass does.
In `RemotePanel` the panel's timers fire (`Connect` 2.5 s after a close,
`Resubscribe` every four seconds), and what is on an open connection is handled and
arrives (`Handle`, `Receive`); nobody has to let go of a dial, which
`PanelSettles` supposes, as it does that the track the panel stays on has the EQ,
and the network may break as often as the bound allows.
In `SlotReload` the script goes on (`Script`), and its reads time out (`TimeOut`, a
deadline that passes whatever is read); the device owes it nothing.

## 4. What is proved

TLAPS proves these for every set of settings and rates, every list of programs and
every calibration, every move and every old blob, every stream, block length, buffer,
ring and filter, every number of tracks and of messages under way.
Assumptions are the named `ASSUME`s of the modules, evaluated by TLC on the small
instances:

- settings are functions from `Param` to integers, rates are naturals,
  `0 <= Settled < PowerMax`;
- moves and blobs hold integers; programs are authored within the ranges of the dials
  (`kFactoryPresets`, all fourteen), and the ends of the calibration tables are
  coordinates of their dials, in order (`kEqFrequencyControls`,
  `kFilterCalibrations`);
- the stream is frames of int16, block lengths and buffers are not empty, a filter has
  a tap and its span fits its ring, a spectrum ring has a slot, and its position wraps
  at a multiple of its size, as 2^32 is of 4096;
- the panel's dial has a position, and no track is the missing one;
- the host keeps the one-thread contract (`SerialSpec`, `InstanceSpec` and the shell's
  actions; `ConcurrentSpec` does without it).

`FourKEQDSPProofs`

- `TypeCorrect`, `TypeCorrectSerial`: `TypeOK` under both specifications.
- `FreshState`, `FreshStateSerial`: `NoStaleState` under both. It is not inductive:
  it speaks of one stage. `MemInv` says where stale state may be at all: in a filter
  that is out (`lastEnabled` remembers), never in a band section (cleared whenever
  out), never in the oversampler (clean below the factor that uses it). Nothing in
  it mentions `p`, which is why racing setters cannot break it.
- `CacheIsSound`: `CacheSound` under `SerialSpec`, and
- `PromiseIsKept`: `SerialSpec` implements `EQPromise`. Both rest on `IInv`: types,
  what each stage leaves for the later ones while `p` stands still (`StageInv`),
  and the cache. The heart is the lemma `KeyCovers`: the compensation measured
  from the key's seventeen parameters and the factor is the one measured from all.
  A key without `lm_q` fails there.
- `CurveIsTrue`: `CurveIsHeard` under `SerialSpec`. `CurveIsDesign` shows that
  `designCurve` and `recomputeCoeffs` take the same parameters at the same rate,
  section by section; the rest is the lemma that gives `PromiseIsKept`.

`FourKEQPluginProofs`: `CoreRunsWhatIsShown`, `EnumsReadBack`, `ClipsAreConserved`,
`RestoreLiterally`, `DialsCarryOut`, `RecallsAreWhole`, `PluginTypeCorrect`, all from
one inductive invariant `PInv`: published values in range, atomics their push, the
saved blob printed by this build and stable under printing again (`PrintedIsStable`),
and no clip unaccounted for. `RecallsAreWhole` is about what a program becomes on its
way: the clamp of `fkq_set_index` takes nothing from it, because the inverse of a
calibration answers a coordinate of its table (`BisectStaysBetween`, whichever way
each of the halvings turns, so that it asks nothing of the fitted curve), and because
`fkq_index_for_upstream` knows every parameter a program owns.

`FourKEQInstanceProofs`: `WhatIsShownIsHeard`. `PInv` says that the core is handed
settings, so that the core's own invariant holds around the shell (`FourKEQDSPProofs`
is instantiated for the core of the composition); what `Mix` renders is then the voice
of `p`, which `PInv` says is what the surface publishes.

`RemotePanelProofs`: `PanelTypeCorrect` and `OnlyItsTrackIsShown` from `PanelInv`:
every value shown, and every value in an answer still on its way, is on its
parameter's dial and is one its track has had; `ever` only grows, so that a late
answer stays true. `TheHandIsTruth` needs `HandInv` besides: a held dial shows what
the hand gave it unless the component has moved from under it, and then it has
moved to where the EQ is, so that no later message moves it back. `SendsReachTheEq`:
`SendsGoToTheEq`, from the conjunct of `PanelInv` that ties the component to the track
the panel is on (a `slot_info` of another never gets past `IsForUs`), and from
`PutGoesToComp`, that a gesture names the component it has. It says nothing of what is
sent before `slot_info`, or in a track without the EQ: that does go to the component
of the track before, and the code has no guard against it.

`SlotReloadProofs`: `MappedCodeStaysIntact`, from `FilesInv`: the old inode is never
written, the new one only while no name leads to it. `VerdictsWereTrue`, from
`TruthInv`: every message waiting, read or concluded from says what was once so
since the script connected.

`ReloadTypeCorrect`: `TypeOK` of the deployment. Its hard conjunct is the queue of
answers, which has a bound though the device may answer at any time: `RoomInv` counts
the answers still owed to commands together with those waiting, and a push is only
taken while the queue, with all four of them, stays within its bound. It uses `TruthInv` for what the
messages are.

`FourKEQBlockProofs`, about the samples:

- `EditorsSeeTheLatest`: `SnapshotsAreRecent`, for rings of any size. `RingsInv` is the
  invariant of `SpectrumRingProofs` for each tap: the latest samples pushed, as many as
  the ring has slots, are in their slots, the one that is stored and not yet published
  among them; a position stands for its remainder by the wrap, and `RemainderOfRemainder` is where the wrap has to be a
  multiple of the size. What a snapshot has loaded so far is the sample asked for or
  one that is later by whole laps, and stays so while the audio thread goes on.
- `SplitKeepsTheSound`: `SplitIsWhole`, that `upsample`, an edit of each phase and
  `downsample` leave the samples and the filters as `processSample` does. `Shape` gives
  it the types of every history that is reached; the rest is the lemma
  `SplitIsProcess`, factor by factor.
- `StreamIsKept`: the path implements `StreamPromise`, in which there is no block, no
  piece, no chunk and no delay line. The invariant `Path` ties each of them to the
  stream: `Along` says that every filter of both channels holds the signal of its
  stage, as convolved from the start, for exactly the samples that have passed;
  `Underway` says what the host's buffer, the instance's buffers and the scratch hold
  at each frame, before and after the place the loops have come to, where the
  crossfade is (`PowerIs`) and which clips have been counted (`ClipsAre`). It has to
  say all of it, since each is overwritten from another. `ConvolvedIs` is the heart: a
  folded half-band filter in a ring answers the convolution of all it was ever pushed.
  `AlongStep` carries that through the nested stages, `GlideGoesOn` the crossfade from
  one block to the next.
- `BypassIsBitExact`: `DryIsBitExact`, from the same invariant: at rest in bypass the
  fade stays at nought (`RestIsDry`), and int16 to float and back is the identity
  without a clip, at either rail (`SamplesComeBack`).

The recursions of this module (sums, crossfades, the sample loop) are recursive
functions. The library's induction theorems take an operator as a parameter and cannot
be used, so `NumberFacts` derives induction over sets from well-foundedness
(`Induction`, `InductionUpTo`), and from that the existence of a function with given
steps (`Recursion`), which is what makes the definition of a recursive function say
what it computes. `FourKEQPluginProofs` takes the bisection of the calibration apart in
the same way.

Only model-checked:

- the liveness properties `VoiceSettles`, `BypassSettles`, `PanelSettles` and
  `ScriptsEnd`: fairness and `ENABLED` are out of the prover's reach;
- `RecallSoundsAuthored`, which is a fact about the fitted tables of the code: how far
  a frequency lies from where it was authored depends on each of their entries and on
  the roundings of a division, and a table without them may be heard anywhere;
- the five runs of section 5, which are counterexamples.

Every other property of the passing runs is a theorem.

## 5. Where a comment and the code part

- **Auto-gain** (`dsp_autogain_race`). `FourKEQDSP.hpp` 324-330 has the cache
  re-scanned "only on change" of its parameters and "stepping in lock-step" with the
  coefficients, and 18-19 lets any thread store them. `processChunk` loads the key
  (1254) after designing the coefficients (1111): a store in between is cached with
  the old coefficients' compensation under the new key, and stays. The shell here
  stores from the rendering thread, by the host's contract, and is then not affected
  (`HeardIsShown`).
- **Oversampler latency** (`oversampler_latency`). `DuskOversampler.hpp` 108-109:
  "Fixed group delay of the up+down FIR round trip", 23 samples at 2x and 3.5 more at
  4x. `down` takes the second sample of each pair, one sample of its rate later than
  the first, so that the response is centred on 22.5 and 25.75 samples. The run has
  filters of the real lengths and symmetric taps of its own: where a symmetric
  response is centred does not depend on their values.
- **Verdict** (`reload_verdict`). `reload_fx_slot.py` 116-117: "so re-subscribe and
  ask the manager what is actually in the slot". Nothing has been read since the first
  subscription of line 92; its answer comes first, has the `slot_info` the loop of 124
  waits for and the build from before the reload. A reload that worked is called stale.
  The other direction, a good verdict about a reload that did not work, is excluded
  when a build is expected (`VerdictWasTrue`).
- **Dial and program** (`plugin_dial_vs_preset`). `fourk_params.h` 92-94: "the dial
  and a recalled preset cannot disagree". The thresholds are the same, the
  frequencies are not: programs decide by the audible one and publish the control
  coordinate.
- **Clip** (`plugin_clip_panel`). `fourk_eq_plugin.cpp` 641-643: "did it clip since I
  last looked". Reading `state` clears the same counter (620).

Seen while modelling, and not a run: while the HPF dial is held, `KeptButHeld` drops
the echo of the dial and takes that of its enable, which may be an earlier one; a
dial under the hand can be shown as OUT until the next echo. `PanelSettles` shows that
it does not last.

## 6. Not modelled

- The arithmetic of biquads and saturation (floating point); gain, Q and
  pair-correction curves, which are named by their inputs; peak meters, which only
  their own decay reads.
- Text: formatting, parsing, the JSON layout answers, and with them the answers that
  are refused because they do not fit their buffer (`fourk_eq_plugin.cpp` 84). The
  refusal of `state` at 621 would lose the clips it has just read; 22 values fit the
  1536 bytes of the buffer, and `Read` leaves it out.
- A value that is not a number, which passes both comparisons of the clamp
  (`fourk_eq_plugin.cpp` 94).
- The painting of the panel, its preset arrows, and its embedded mode, whose bridge is
  the host page's (`web_ui.html` 441).
- The panel's files, which are moved one after the other (`deploy.sh` 36); build
  scripts and gates, which are sequential; static descriptions.

A breach of the host's one-thread contract is modelled for the core and not for the
shell around it.
