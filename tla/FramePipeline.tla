---------------------------- MODULE FramePipeline ----------------------------
(***************************************************************************)
(* The frame loop of one interpolation job: process_frames in              *)
(* src/src/pipeline.rs and the OutputScheduler it drives, in               *)
(* src/src/pipeline/scheduler.rs.                                          *)
(*                                                                         *)
(* Decoded source frames arrive in order on the decoder's pipe.  The loop  *)
(* holds an anchor frame, reads candidates, decides how far the interval   *)
(* from the anchor reaches and whether it may be synthesized, and lets the *)
(* scheduler emit every output frame whose position falls in the interval. *)
(* Positions are compared as integers scaled by both frame rates: output n *)
(* stands at n * FactorDen, source frame i at i * FactorNum.               *)
(*                                                                         *)
(* A frame's pixels are abstracted to a picture, and the thresholds of     *)
(* cadence.rs to the class of an ordered pair of pictures.                 *)
(***************************************************************************)
EXTENDS Integers, Sequences, FiniteSets

CONSTANTS
  FactorNum,       \* target_fps_num * source_fps_den
  FactorDen,       \* target_fps_den * source_fps_num
  FrameMax,        \* OUTPUT_FRAME_COUNT_MAX
  TimestepBits,    \* significant bits of the f32 timestep (24)
  Configurations,  \* the presets and scene settings a job may have
  Pictures,        \* what a decoded frame can show
  Difference,      \* class of each pair <<anchor picture, candidate picture>>
  SourceMax        \* bound: source frames the decoder delivers at most

ASSUME FactorAssumption ==
  /\ FactorNum \in Nat /\ FactorDen \in Nat
  /\ 0 < FactorDen /\ FactorDen < FactorNum   \* validate_target_fps

ASSUME LimitAssumption ==
  /\ FrameMax \in Nat \ {0, 1}
  /\ TimestepBits \in Nat
  /\ SourceMax \in Nat

ASSUME ConfigurationAssumption == Configurations \subseteq [anime : BOOLEAN, scene : BOOLEAN]

Classes == {"duplicate", "motion", "cut"}

ASSUME PictureAssumption == Difference \in [Pictures \X Pictures -> Classes]

VARIABLES
  configuration, \* content_preset == Anime and scene_detection of the job
  pc,            \* where the worker is in process_frames
  cancelled,     \* the job's cancellation flag, set by the desktop
  decoded,       \* frames read so far; frame i of the source is decoded[i + 1]
  anchor,        \* anchor_index
  candidate,     \* candidate_index
  run,           \* cadence_run_frame_count
  preserving,    \* preserving_long_hold
  span,          \* the interval being written: anchor .. candidate
  encoded,       \* frames written to the encoder's pipe
  output_index,  \* OutputScheduler.output_index
  inferences,    \* OutputScheduler.inference_count
  diagnostics,   \* OutputScheduler.cadence_diagnostics
  result         \* what process_frames returned

vars == <<configuration, pc, cancelled, decoded, anchor, candidate, run, preserving, span,
          encoded, output_index, inferences, diagnostics, result>>

jobVars == <<configuration, cancelled>>
loopVars == <<anchor, candidate, run, preserving>>
outputVars == <<encoded, output_index, inferences>>

Errors == {"no_frames", "decode_error", "source_limit", "cancelled", "overlap",
           "timestep", "inference_error", "encode_error", "output_limit"}
Results == Errors \cup {"running", "ok", "panicked"}

-----------------------------------------------------------------------------
(* Positions on the common timeline *)

OutputAt(n) == n * FactorDen
SourceAt(i) == i * FactorNum

relative_scaled == OutputAt(output_index) - SourceAt(anchor)
duration_scaled == SourceAt(candidate) - SourceAt(anchor)

(* (relative / duration) as f32 is 1.0 when the quotient lies within half an
   ulp of 1: the timestep then leaves the half-open range the code accepts. *)
TimestepIsOne ==
  (duration_scaled - relative_scaled) * 2^(TimestepBits + 1) <= duration_scaled

(* What the encoder receives: the source frame at `before` when after = before,
   otherwise the frame RIFE synthesizes between the two. *)
Frame(before, after) == [before |-> before, after |-> after]

-----------------------------------------------------------------------------
(* Classification of the candidate against the anchor *)

AnimeMode == configuration.anime
scene_detection == configuration.scene \/ AnimeMode

Class(i, j) == Difference[<<decoded[i + 1], decoded[j + 1]>>]

confident_duplicate == AnimeMode /\ Class(anchor, candidate) = "duplicate"
(* Mutant: the preset does not turn scene protection on. *)
scene_change_manual == configuration.scene /\ Class(anchor, candidate) = "cut"

scene_change == scene_detection /\ Class(anchor, candidate) = "cut"

(* Mutant: a hold of four is still short. *)
is_smoothable_cadence_run_four(length) == length \in 2..4

is_smoothable_cadence_run(length) == length \in 2..3

-----------------------------------------------------------------------------
NoSpan == [interpolate |-> FALSE, hold |-> FALSE, last |-> FALSE]

Diagnostics == [duplicates : Nat, runs : Nat, holds : Nat, cuts : Nat, bypassed : Nat]

NoDiagnostics == [duplicates |-> 0, runs |-> 0, holds |-> 0, cuts |-> 0, bypassed |-> 0]

Init ==
  /\ configuration \in Configurations
  /\ pc = "anchor" /\ result = "running"
  /\ cancelled \in BOOLEAN      \* the flag may be set before the loop starts
  /\ decoded = <<>>
  /\ anchor = 0 /\ candidate = 1 /\ run = 1 /\ preserving = FALSE
  /\ span = NoSpan
  /\ encoded = <<>> /\ output_index = 0 /\ inferences = 0
  /\ diagnostics = NoDiagnostics

(* process_frames returns (or its thread unwinds) *)
Return(outcome) ==
  /\ pc' = "done"
  /\ result' = outcome

(* The desktop sets the flag at any moment; nothing ever clears it. *)
Cancel ==
  /\ pc # "done" /\ ~cancelled
  /\ cancelled' = TRUE
  /\ UNCHANGED <<configuration, pc, decoded, loopVars, span, outputVars, diagnostics, result>>

-----------------------------------------------------------------------------
(* Reading the source *)

ReadAnchor ==
  /\ pc = "anchor"
  /\ SourceMax > 0
  /\ \E picture \in Pictures : decoded' = <<picture>>
  /\ pc' = "head"
  /\ UNCHANGED <<jobVars, loopVars, span, outputVars, diagnostics, result>>

NoAnchor ==
  /\ pc = "anchor"
  /\ \E outcome \in {"no_frames", "decode_error"} : Return(outcome)
  /\ UNCHANGED <<jobVars, decoded, loopVars, span, outputVars, diagnostics>>

(* The checks at the head of the loop, in the code's order *)
StopAtHead ==
  /\ pc = "head"
  /\ \/ cancelled /\ Return("cancelled")
     \/ ~cancelled /\ candidate >= FrameMax /\ Return("source_limit")
  /\ UNCHANGED <<jobVars, decoded, loopVars, span, outputVars, diagnostics>>

(* Mutant: the limit on source frames is looked at one frame too late. *)
MayRead_late == pc = "head" /\ ~cancelled /\ candidate <= FrameMax

MayRead == pc = "head" /\ ~cancelled /\ candidate < FrameMax

ReadCandidate ==
  /\ MayRead
  /\ Len(decoded) < SourceMax
  /\ \E picture \in Pictures : decoded' = Append(decoded, picture)
  /\ pc' = "compare"
  /\ UNCHANGED <<jobVars, loopVars, span, outputVars, diagnostics, result>>

(* The pipe breaks, or ends in the middle of a frame *)
ReadError ==
  /\ MayRead
  /\ Return("decode_error")
  /\ UNCHANGED <<jobVars, decoded, loopVars, span, outputVars, diagnostics>>

(* The decoder closed its pipe between two frames: the rest of the timeline,
   up to the candidate that never came, shows the anchor. *)
EndOfStream ==
  /\ MayRead
  /\ pc' = "span"
  /\ span' = [interpolate |-> FALSE, hold |-> FALSE, last |-> TRUE]
  /\ UNCHANGED <<jobVars, decoded, loopVars, outputVars, diagnostics, result>>

-----------------------------------------------------------------------------
(* Deciding what the interval anchor .. candidate becomes *)

WriteSpan(interpolate, hold) ==
  /\ pc' = "span"
  /\ span' = [interpolate |-> interpolate, hold |-> hold, last |-> FALSE]

(* Mutant: the run is not counted. *)
ExtendRun_uncounted ==
  /\ pc = "compare" /\ confident_duplicate /\ ~preserving
  /\ is_smoothable_cadence_run(run + 1)
  /\ diagnostics' = [diagnostics EXCEPT !.duplicates = @ + 1]
  /\ candidate' = candidate + 1
  /\ pc' = "head"
  /\ UNCHANGED <<jobVars, decoded, anchor, run, preserving, span, outputVars, result>>

(* A second or third copy of the drawing: wait for the drawing to change. *)
ExtendRun ==
  /\ pc = "compare" /\ confident_duplicate /\ ~preserving
  /\ is_smoothable_cadence_run(run + 1)
  /\ diagnostics' = [diagnostics EXCEPT !.duplicates = @ + 1]
  /\ run' = run + 1
  /\ candidate' = candidate + 1
  /\ pc' = "head"
  /\ UNCHANGED <<jobVars, decoded, anchor, preserving, span, outputVars, result>>

(* Mutant: the hold is forgotten after its first interval. *)
BeginLongHold_forgotten ==
  /\ pc = "compare" /\ confident_duplicate /\ ~preserving
  /\ ~is_smoothable_cadence_run(run + 1)
  /\ diagnostics' = [diagnostics EXCEPT !.duplicates = @ + 1, !.holds = @ + 1]
  /\ run' = run + 1
  /\ WriteSpan(FALSE, FALSE)
  /\ UNCHANGED <<jobVars, decoded, anchor, candidate, preserving, outputVars, result>>

(* A fourth copy: the hold is long, and is copied from its first frame on. *)
BeginLongHold ==
  /\ pc = "compare" /\ confident_duplicate /\ ~preserving
  /\ ~is_smoothable_cadence_run(run + 1)
  /\ diagnostics' = [diagnostics EXCEPT !.duplicates = @ + 1, !.holds = @ + 1]
  /\ run' = run + 1
  /\ WriteSpan(FALSE, TRUE)
  /\ UNCHANGED <<jobVars, decoded, anchor, candidate, preserving, outputVars, result>>

ContinueLongHold ==
  /\ pc = "compare" /\ confident_duplicate /\ preserving
  /\ diagnostics' = [diagnostics EXCEPT !.duplicates = @ + 1]
  /\ WriteSpan(FALSE, TRUE)
  /\ UNCHANGED <<jobVars, decoded, loopVars, outputVars, result>>

(* Mutant: smoothing a run comes before protecting a cut. *)
NewPicture_smooth_first ==
  /\ pc = "compare" /\ ~confident_duplicate
  /\ diagnostics' = [diagnostics EXCEPT !.cuts = IF scene_change THEN @ + 1 ELSE @]
  /\ WriteSpan(~scene_change \/ is_smoothable_cadence_run(run), FALSE)
  /\ UNCHANGED <<jobVars, decoded, loopVars, outputVars, result>>

(* The candidate shows something new: synthesize up to it, unless it is the
   first frame of another shot.  A pending run of two or three is smoothed. *)
NewPicture ==
  /\ pc = "compare" /\ ~confident_duplicate
  /\ LET smoothed == ~preserving /\ AnimeMode /\ is_smoothable_cadence_run(run)
                       /\ ~scene_change
     IN  diagnostics' = [diagnostics EXCEPT
                           !.cuts = IF scene_change THEN @ + 1 ELSE @,
                           !.runs = IF smoothed THEN @ + 1 ELSE @]
  /\ WriteSpan(~scene_change, FALSE)
  /\ UNCHANGED <<jobVars, decoded, loopVars, outputVars, result>>

-----------------------------------------------------------------------------
(* OutputScheduler::write_span, one output frame at a time *)

(* Mutant: the end of the interval belongs to it. *)
InSpan_closed == OutputAt(output_index) <= SourceAt(candidate)

InSpan == OutputAt(output_index) < SourceAt(candidate)

(* Mutant: the flag is looked at between intervals only. *)
Refusal_deaf ==
  IF output_index >= FrameMax THEN "output_limit"
  ELSE IF InSpan /\ relative_scaled < 0 THEN "overlap"
  ELSE "none"

(* The checks in front of each output frame, in the code's order *)
Refusal ==
  IF output_index >= FrameMax THEN "output_limit"
  ELSE IF cancelled THEN "cancelled"
  ELSE IF ~InSpan THEN "none"
  ELSE IF relative_scaled < 0 THEN "overlap"
  ELSE IF span.interpolate /\ relative_scaled > 0 /\ TimestepIsOne THEN "timestep"
  ELSE "none"

StopInSpan ==
  /\ pc = "span" /\ Refusal # "none"
  /\ Return(Refusal)
  /\ UNCHANGED <<jobVars, decoded, loopVars, span, outputVars, diagnostics>>

(* Mutant: an output that coincides with a source frame is synthesized too. *)
Synthesized_always == span.interpolate

Synthesized == span.interpolate /\ relative_scaled > 0

BeginOutput ==
  /\ pc = "span" /\ Refusal = "none" /\ InSpan
  /\ pc' = IF Synthesized THEN "infer" ELSE "write"
  /\ UNCHANGED <<jobVars, decoded, loopVars, span, outputVars, diagnostics, result>>

(* backend.interpolate_rgb24: counted whether or not it succeeds *)
Infer ==
  /\ pc = "infer"
  /\ inferences' = inferences + 1
  /\ \/ pc' = "write" /\ UNCHANGED result
     \/ Return("inference_error")
  /\ UNCHANGED <<jobVars, decoded, loopVars, span, encoded, output_index, diagnostics>>

(* Mutant: every copy counts as a bypassed inference. *)
WriteOutput_all_bypassed ==
  /\ pc = "write"
  /\ encoded' = Append(encoded, Frame(anchor, IF Synthesized THEN candidate ELSE anchor))
  /\ output_index' = output_index + 1
  /\ diagnostics' = [diagnostics EXCEPT !.bypassed = IF Synthesized THEN @ ELSE @ + 1]
  /\ pc' = "span"
  /\ UNCHANGED <<jobVars, decoded, loopVars, span, inferences, result>>

(* write_output_frame or write_frame, then the counters and report_progress,
   which asserts that the index it reports is below the limit. *)
WriteOutput ==
  /\ pc = "write"
  /\ encoded' = Append(encoded, Frame(anchor, IF Synthesized THEN candidate ELSE anchor))
  /\ output_index' = output_index + 1
  /\ diagnostics' = IF ~Synthesized /\ relative_scaled > 0
                    THEN [diagnostics EXCEPT !.bypassed = @ + 1]
                    ELSE diagnostics
  /\ IF output_index + 1 < FrameMax
     THEN pc' = "span" /\ UNCHANGED result
     ELSE Return("panicked")
  /\ UNCHANGED <<jobVars, decoded, loopVars, span, inferences>>

(* The encoder exited: the pipe is broken. *)
WriteError ==
  /\ pc = "write"
  /\ Return("encode_error")
  /\ UNCHANGED <<jobVars, decoded, loopVars, span, outputVars, diagnostics>>

(* Mutant: the tail after the last source frame is not waited for. *)
SpanWritten_without_tail == pc = "span" /\ Refusal = "none" /\ (span.last \/ ~InSpan)

(* Mutant: an output at the very end of the interval belongs to neither side. *)
SpanWritten_strict ==
  pc = "span" /\ Refusal = "none" /\ OutputAt(output_index) > SourceAt(candidate)

SpanWritten == pc = "span" /\ Refusal = "none" /\ ~InSpan

(* The interval is complete: the candidate becomes the anchor. *)
AdvanceAnchor ==
  /\ SpanWritten /\ ~span.last
  /\ anchor' = candidate
  /\ candidate' = candidate + 1
  /\ run' = 1
  /\ preserving' = span.hold
  /\ pc' = "head"
  /\ UNCHANGED <<jobVars, decoded, span, outputVars, diagnostics, result>>

(* OutputScheduler::finish, whose assertions guard the frame count *)
Finish ==
  /\ SpanWritten /\ span.last
  /\ Return(IF output_index > 0 THEN "ok" ELSE "panicked")
  /\ UNCHANGED <<jobVars, decoded, loopVars, span, outputVars, diagnostics>>

Returned == pc = "done" /\ UNCHANGED vars

-----------------------------------------------------------------------------
Step ==
  \/ ReadAnchor \/ NoAnchor
  \/ StopAtHead \/ ReadCandidate \/ ReadError \/ EndOfStream
  \/ ExtendRun \/ BeginLongHold \/ ContinueLongHold \/ NewPicture
  \/ StopInSpan \/ BeginOutput \/ Infer \/ WriteOutput \/ WriteError
  \/ AdvanceAnchor \/ Finish

Next == Step \/ Cancel \/ Returned

Spec == Init /\ [][Next]_vars

(* The worker is a running thread: it takes the step it can take.  That a read,
   a write and an inference call return is what FFmpeg and the backend owe. *)
FairSpec == Spec /\ WF_vars(Step)

-----------------------------------------------------------------------------
TypeOK ==
  /\ configuration \in Configurations
  /\ pc \in {"anchor", "head", "compare", "span", "infer", "write", "done"}
  /\ cancelled \in BOOLEAN
  /\ decoded \in Seq(Pictures)
  /\ anchor \in Nat /\ candidate \in Nat
  /\ run \in Nat /\ preserving \in BOOLEAN
  /\ span \in [interpolate : BOOLEAN, hold : BOOLEAN, last : BOOLEAN]
  /\ encoded \in Seq([before : Nat, after : Nat])
  /\ output_index \in Nat /\ inferences \in Nat
  /\ diagnostics \in Diagnostics
  /\ result \in Results

(* Consecutive intervals meet: no position of the output timeline is claimed
   twice or skipped, so the scheduler's own "overlapping source span" error is
   never returned, whatever the two frame rates and the cadence decisions. *)
SpansTile ==
  /\ result # "overlap"
  /\ pc \in {"head", "compare"} => /\ relative_scaled >= 0
                                   /\ relative_scaled < FactorDen

(* The n-th output stands inside the interval it was made from: at or after its
   first frame, strictly between both when it is synthesized, and never three
   source frames or more after the frame it shows. *)
OnTimeline ==
  \A n \in 1..Len(encoded) :
    LET f == encoded[n]
    IN  /\ SourceAt(f.before) <= OutputAt(n - 1)
        /\ OutputAt(n - 1) < SourceAt(f.before + 3)
        /\ f.after # f.before => /\ SourceAt(f.before) < OutputAt(n - 1)
                                 /\ OutputAt(n - 1) < SourceAt(f.after)

(* A job that succeeds has written one output frame for every output position
   before the end of the source, and none beyond it: the duration is kept. *)
DurationKept ==
  result = "ok" => /\ OutputAt(Len(encoded)) >= SourceAt(Len(decoded))
                   /\ OutputAt(Len(encoded) - 1) < SourceAt(Len(decoded))

(* Scene protection takes precedence over everything else: when it is on, no
   output mixes two frames that a shot boundary separates. *)
SceneProtected ==
  scene_detection =>
    \A n \in 1..Len(encoded) :
      Class(encoded[n].before, encoded[n].after) = "cut" =>
        encoded[n].before = encoded[n].after

(* Cadence protection: a synthesized frame either joins two neighbours, or the
   first of two or three copies of one drawing and the drawing that follows. *)
OnlyShortHoldsSmoothed ==
  \A n \in 1..Len(encoded) :
    LET f == encoded[n]
    IN  f.after > f.before + 1 =>
          /\ AnimeMode
          /\ f.after <= f.before + 3
          /\ \A i \in (f.before + 1)..(f.after - 1) : Class(f.before, i) = "duplicate"
          /\ Class(f.before, f.after) = "motion"

(* A drawing, entered from a different picture, is held from frame i on, at least
   up to frame j. *)
Held(i, j) ==
  /\ AnimeMode
  /\ \A k, l \in i..j : Class(k, l) = "duplicate"
  /\ i > 0 => \A k \in i..j, e \in 0..(i - 1) : Class(e, k) # "duplicate"

LongHold(i, j) == i + 3 <= j /\ Held(i, j)

(* A drawing held for four frames or more is left alone in Anime mode: every
   output that stands before its last frame shows one of its copies. *)
LongHoldsKept ==
  \A i \in 0..(Len(decoded) - 1), j \in 0..(Len(decoded) - 1) :
    LongHold(i, j) =>
      \A n \in 1..Len(encoded) :
        SourceAt(i) <= OutputAt(n - 1) /\ OutputAt(n - 1) < SourceAt(j) =>
          encoded[n].before = encoded[n].after /\ encoded[n].before \in i..j

(* Without cadence analysis, an output that coincides with a source frame is
   that source frame, untouched. *)
SourceFramesKept ==
  ~AnimeMode =>
    \A n \in 1..Len(encoded) : \A i \in 0..(Len(decoded) - 1) :
      OutputAt(n - 1) = SourceAt(i) => encoded[n] = Frame(i, i)

(* The counters the progress view and the log report add up: every output frame
   is one inference or one copy, the copies that replace an inference are the
   bypassed ones, a smoothed run has a duplicate and a long hold has three. *)
CountersAgree ==
  LET Blends == {n \in 1..Len(encoded) : encoded[n].before # encoded[n].after}
      Bypasses == {n \in 1..Len(encoded) :
                     /\ encoded[n].before = encoded[n].after
                     /\ OutputAt(n - 1) # SourceAt(encoded[n].before)}
      Unwritten == \/ pc = "write" /\ Synthesized
                   \/ result = "encode_error" /\ Synthesized
                   \/ result = "inference_error"
  IN  /\ inferences = Cardinality(Blends) + IF Unwritten THEN 1 ELSE 0
      /\ diagnostics.bypassed = Cardinality(Bypasses)
      /\ diagnostics.runs + 3 * diagnostics.holds <= diagnostics.duplicates
      /\ diagnostics.duplicates + diagnostics.cuts < Len(decoded) \/ decoded = <<>>

(* The limit holds on both sides of the loop: neither more frames are read nor
   more are written, what the encoder received is what the scheduler counts, no
   output is begun at the limit, and an output that reached it is never taken
   for a complete one.  How the loop ends at the limit is left open. *)
OutputBounded ==
  /\ Len(decoded) <= FrameMax /\ Len(encoded) <= FrameMax
  /\ Len(encoded) = output_index
  /\ pc \in {"infer", "write"} => output_index < FrameMax
  /\ result = "ok" => output_index < FrameMax

(* Once the flag is set no further output is started: only a frame whose
   inference or write was already under way still reaches the encoder. *)
NothingStartedAfterCancel ==
  [][cancelled /\ pc' \in {"infer", "write"} => pc \in {"infer", "write"}]_vars

(* The loop implements the abstract resampling: the decoder's frames are the
   source, and an output is pending from its checks to its write. *)
Abstract == INSTANCE Resampling WITH
  source <- decoded,
  pending <- pc \in {"infer", "write"},
  outcome <- IF result \in {"running", "ok"} THEN result ELSE "failed"

ResamplingSpec == Abstract!Spec

(* The source is finite, so the loop returns; and it returns after a
   cancellation, as long as the calls it makes return. *)
Terminates == <>(pc = "done")
=============================================================================
