---------------------------- MODULE FourKEQBlock ----------------------------
(***************************************************************************)
(* The path of the samples through one process_block of the shell: pieces  *)
(* of at most Frames, converted into the instance's two buffers and        *)
(* processed in place by the core, in chunks of at most MaxBlock, through  *)
(* the input gain, the spectrum taps, the oversampler with the console in  *)
(* it, and the bypass crossfade.  Beside the audio thread an editor's      *)
(* thread takes snapshots of the two taps.                                 *)
(*                                                                         *)
(* Bands, filters, saturation, M/S and auto-gain are at rest here, where   *)
(* FourKEQDSP has them and leaves the samples out; parameters move between *)
(* two blocks, as in the shell.                                            *)
(***************************************************************************)
EXTENDS Int16Samples, DuskOversampler, FiniteSets

CONSTANTS Stream,     \* the frames the host has to play, <<left, right>>
          Blocks,     \* the block lengths it may choose
          Frames,     \* MOVE_FRAMES_PER_BLOCK, the length of the buffers
          MaxBlock,   \* maxBlock, what the core was prepared for
          Gain,       \* the input gain
          Rail,       \* the overload of the console, in samples
          PowerMax,   \* 1.0f of the crossfade
          TapUnit,    \* 1.0f of a filter tap
          KSize,      \* slots of a spectrum ring
          Wrap,       \* where its position wraps
          Snapshots   \* how many samples an editor may ask for

ASSUME BlockAssumption ==
  /\ Blocks \subseteq Nat \ {0}
  /\ Frames \in Nat \ {0}
  /\ MaxBlock \in Nat \ {0}

ASSUME SignalAssumption ==
  /\ Stream \in Seq(Int16 \X Int16)
  /\ Gain \in Int
  /\ Rail \in Nat
  /\ PowerMax \in Nat \ {0}
  /\ TapUnit \in Nat \ {0}

ASSUME RingsAssumption ==
  /\ KSize \in Nat \ {0}
  /\ Wrap \in Nat \ {0}
  /\ Wrap % KSize = 0
  /\ Snapshots \subseteq Int

VARIABLES
  taken,       \* frames of the stream played in finished blocks
  bypass,      \* pBypass
  power,       \* powerSmoother's value
  powerBefore, \* ... when the block under way began (history)
  os,          \* the oversampler of each channel
  audio,       \* audio_inout
  done,        \* frames of it that have been processed
  bufs,        \* bufL and bufR, as frames
  offset,      \* how far into them the core is
  wet,         \* the scratch buffers of the core
  pushes,      \* samples of the chunk that are in the tap being fed
  clipped,     \* clips of the block so far
  clip_count,  \* the instance's count
  answer,      \* audio_inout as the last block left it
  pc           \* what the audio thread does next

blockVars == <<taken, bypass, power, powerBefore, os, audio, done, bufs, offset,
               wet, pushes, clipped, clip_count, answer, pc>>

VARIABLES preBuf, preWritePos, preStoring, preSnap, prePushed
preVars == <<preBuf, preWritePos, preStoring, preSnap, prePushed>>

VARIABLES postBuf, postWritePos, postStoring, postSnap, postPushed
postVars == <<postBuf, postWritePos, postStoring, postSnap, postPushed>>

vars == <<blockVars, preVars, postVars>>

Pre == INSTANCE SpectrumRing WITH buf <- preBuf, writePos <- preWritePos,
         storing <- preStoring, snap <- preSnap, pushed <- prePushed
Post == INSTANCE SpectrumRing WITH buf <- postBuf, writePos <- postWritePos,
          storing <- postStoring, snap <- postSnap, pushed <- postPushed

Lesser(m, n) == IF m < n THEN m ELSE n

-----------------------------------------------------------------------------
(* The audio thread. *)

\* Bypass from a callback, which shares the thread of process_block.
Toggle ==
  /\ pc = "idle"
  /\ bypass' = ~bypass
  /\ UNCHANGED <<taken, power, powerBefore, os, audio, done, bufs, offset, wet,
                 pushes, clipped, clip_count, answer, pc, preVars, postVars>>

\* process_block is called with the next frames.
Begin(frames) ==
  /\ pc = "idle"
  /\ taken + frames <= Len(Stream)
  /\ audio' = SubSeq(Stream, taken + 1, taken + frames)
  /\ done' = 0
  /\ clipped' = 0
  /\ powerBefore' = power
  /\ pc' = "convert"
  /\ UNCHANGED <<taken, bypass, power, os, bufs, offset, wet, pushes, clip_count,
                 answer, preVars, postVars>>

\* The next piece of the block, as floats.
ConvertIn ==
  /\ pc = "convert"
  /\ LET n == Lesser(Len(audio) - done, Frames)
     IN  bufs' = [i \in 1..n |-> <<ToFloat(audio[done + i][1]),
                                   ToFloat(audio[done + i][2])>>]
  /\ offset' = 0
  /\ pc' = "input"
  /\ UNCHANGED <<taken, bypass, power, powerBefore, os, audio, done, wet, pushes,
                 clipped, clip_count, answer, preVars, postVars>>

\* The next chunk of the piece, through the input gain into the scratch.
Input ==
  /\ pc = "input"
  /\ LET n == Lesser(Len(bufs) - offset, MaxBlock)
     IN  wet' = [i \in 1..n |-> <<Gain * bufs[offset + i][1],
                                  Gain * bufs[offset + i][2]>>]
  /\ pushes' = 0
  /\ pc' = "pre"
  /\ UNCHANGED <<taken, bypass, power, powerBefore, os, audio, done, bufs, offset,
                 clipped, clip_count, answer, preVars, postVars>>

\* Twice the mono sample of a frame.
Mono(frame) == frame[1] + frame[2]

\* A published sample moves the loop on, and after the last the chunk.
Pushed(next) ==
  /\ pushes' = IF pushes + 1 = Len(wet) THEN 0 ELSE pushes + 1
  /\ pc' = IF pushes + 1 = Len(wet) THEN next ELSE pc
  /\ UNCHANGED <<taken, bypass, power, powerBefore, os, audio, done, bufs, offset,
                 wet, clipped, clip_count, answer>>

PreTap ==
  /\ pc = "pre"
  /\ \/ Pre!PushStore(Mono(wet[pushes + 1])) /\ UNCHANGED blockVars
     \/ Pre!PushPublish /\ Pushed("run")
  /\ UNCHANGED postVars

\* The console at rest: its overload alone, at the scale the taps left.
Stages(f) == IF f = 4 THEN TapUnit * TapUnit ELSE IF f = 2 THEN TapUnit ELSE 1

Overload(factor) ==
  LET rail == Rail * Unit * Stages(factor)
  IN  [x \in Int |-> IF x > rail THEN rail ELSE IF x < -rail THEN -rail ELSE x]

\* One channel of the sample loop: the oversampler and the answer after each of
\* the samples.
Processed(c) ==
  LET at[i \in 0..Len(wet)] ==
        IF i = 0 THEN [os |-> os[c], y |-> 0]
        ELSE ProcessSample(at[i - 1].os, wet[i][c], Overload(os[c].factor))
  IN  at

\* Back from the scale the taps left.
Rescaled(y, f) == y \div (Stages(f) * Stages(f))

Run ==
  /\ pc = "run"
  /\ LET both == [c \in 1..2 |-> Processed(c)]
     IN  /\ os' = [c \in 1..2 |-> both[c][Len(wet)].os]
         /\ wet' = [i \in 1..Len(wet) |-> <<Rescaled(both[1][i].y, os[1].factor),
                                           Rescaled(both[2][i].y, os[2].factor)>>]
  /\ pc' = "post"
  /\ UNCHANGED <<taken, bypass, power, powerBefore, audio, done, bufs, offset,
                 pushes, clipped, clip_count, answer, preVars, postVars>>

PostTap ==
  /\ pc = "post"
  /\ \/ Post!PushStore(Mono(wet[pushes + 1])) /\ UNCHANGED blockVars
     \/ Post!PushPublish /\ Pushed("mix")
  /\ UNCHANGED preVars

\* One sample of the bypass one-pole, as floats round it.
NextPower(current, target) ==
  IF target < current THEN target + (current - target) \div 2
                      ELSE current + (target - current) \div 2

BypassTarget == IF bypass THEN 0 ELSE PowerMax

\* Where the crossfade is at each sample of a chunk.
FadePerChunk(n) == [i \in 0..n |-> NextPower(power, BypassTarget)]

Fade(n) ==
  LET at[i \in 0..n] == IF i = 0 THEN power ELSE NextPower(at[i - 1], BypassTarget)
  IN  at

\* The crossfade, over the input it reads from the same buffers.
Mix ==
  /\ pc = "mix"
  /\ LET at == Fade(Len(wet))
         mixed(i, c) ==
           LET dry == bufs[offset + i][c]
           IN  dry + (at[i] * (wet[i][c] - dry)) \div PowerMax
     IN  /\ bufs' = [k \in 1..Len(bufs) |->
                       IF k - offset \in 1..Len(wet)
                         THEN <<mixed(k - offset, 1), mixed(k - offset, 2)>>
                         ELSE bufs[k]]
         /\ power' = at[Len(wet)]
  /\ offset' = offset + Len(wet)
  /\ pc' = IF offset' < Len(bufs) THEN "input" ELSE "out"
  /\ UNCHANGED <<taken, bypass, powerBefore, os, audio, done, wet, pushes, clipped,
                 clip_count, answer, preVars, postVars>>

\* The piece goes back to the host as int16, and with the last of them the
\* block is over.
ConvertOut ==
  /\ pc = "out"
  /\ audio' = [i \in 1..Len(audio) |->
                 IF i - done \in 1..Len(bufs)
                   THEN <<ToInt16(bufs[i - done][1]), ToInt16(bufs[i - done][2])>>
                   ELSE audio[i]]
  /\ done' = done + Len(bufs)
  /\ clipped' = clipped
       + Cardinality({x \in (1..Len(bufs)) \X (1..2) : Clips(bufs[x[1]][x[2]])})
  /\ IF done' < Len(audio)
       THEN pc' = "convert" /\ UNCHANGED <<taken, answer, clip_count>>
       ELSE /\ taken' = taken + Len(audio)
            /\ answer' = audio'
            /\ clip_count' = clip_count + clipped'
            /\ pc' = "idle"
  /\ UNCHANGED <<bypass, power, powerBefore, os, bufs, offset, wet, pushes,
                 preVars, postVars>>

-----------------------------------------------------------------------------
(* The editor's thread: one snapshot at a time, of either tap. *)

EditorPre ==
  /\ postSnap = Post!NoSnapshot
  /\ \/ \E n \in Snapshots : Pre!SnapBegin(n)
     \/ Pre!SnapLoad
     \/ Pre!SnapEnd
  /\ UNCHANGED <<blockVars, postVars>>

EditorPost ==
  /\ preSnap = Pre!NoSnapshot
  /\ \/ \E n \in Snapshots : Post!SnapBegin(n)
     \/ Post!SnapLoad
     \/ Post!SnapEnd
  /\ UNCHANGED <<blockVars, preVars>>

-----------------------------------------------------------------------------

Init ==
  /\ taken = 0
  /\ bypass \in BOOLEAN
  /\ power = BypassTarget
  /\ powerBefore = power
  /\ os \in {[c \in 1..2 |-> FreshOversampler(f)] : f \in {1, 2, 4}}
  /\ audio = <<>>
  /\ done = 0
  /\ bufs = <<>>
  /\ offset = 0
  /\ wet = <<>>
  /\ pushes = 0
  /\ clipped = 0
  /\ clip_count = 0
  /\ answer = <<>>
  /\ pc = "idle"
  /\ Pre!InitRing
  /\ Post!InitRing

Audio ==
  \/ Toggle
  \/ \E frames \in Blocks : Begin(frames)
  \/ ConvertIn \/ Input \/ PreTap \/ Run \/ PostTap \/ Mix \/ ConvertOut

Next == Audio \/ EditorPre \/ EditorPost

Spec == Init /\ [][Next]_vars

-----------------------------------------------------------------------------
(* Properties. *)

\* Cutting the stream into blocks, the blocks into pieces and the pieces into
\* chunks leaves no trace in it: the path implements the one signal of
\* StreamPromise, for either channel, with the buffers processed in place, the
\* delay lines in rings and the clips counted once.
Promise == INSTANCE StreamPromise WITH
             power <- IF pc = "idle" THEN power ELSE powerBefore,
             factor <- os[1].factor
StreamKept == Promise!Spec

\* "A bit-exact dry path": once the crossfade has come to rest in bypass, a
\* block leaves the buffer it was given as it found it, and counts no clip.
DryIsBitExact ==
  [][pc = "out" /\ pc' = "idle" /\ bypass /\ powerBefore = 0 =>
       /\ answer' = SubSeq(Stream, taken + 1, taken')
       /\ clip_count' = clip_count]_vars

\* A caller that takes all phases up, processes them, and takes all of them
\* down again hears what processSample would have it hear, and leaves the same
\* history behind, from wherever the stream has brought the filters.
SplitIsWhole ==
  pc = "post" =>
  \A x \in {-Unit, Unit} :
    LET o     == os[1]
        up    == UpsampleSample(o, x)
        split == DownsampleSample(up.os, [k \in DOMAIN up.phases |->
                                            Overload(o.factor)[up.phases[k]]])
    IN  split = ProcessSample(o, x, Overload(o.factor))

\* What an editor draws of either tap is the latest of its signal, in order,
\* but for samples the audio thread has lapped since the snapshot began.
SnapshotsAreRecent == Pre!SnapshotIsRecent /\ Post!SnapshotIsRecent
=============================================================================
