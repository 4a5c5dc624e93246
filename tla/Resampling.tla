------------------------------ MODULE Resampling ------------------------------
(***************************************************************************)
(* What the frame loop promises to the encoder, with no anchor, no run     *)
(* counting and no intervals: source frames arrive, output frames leave,   *)
(* and the output at every position is one of the frames the position      *)
(* admits.  FramePipeline implements this specification.                   *)
(***************************************************************************)
EXTENDS Integers, Sequences

CONSTANTS FactorNum, FactorDen, Pictures, Difference, Configurations

VARIABLES
  configuration,  \* is the preset Anime, is scene detection on
  source,     \* pictures of the source frames seen so far
  encoded,    \* output frames the encoder has received
  pending,    \* an output has been started and not yet written
  cancelled,  \* the user gave up
  outcome     \* "running", "ok" or "failed"

vars == <<configuration, source, encoded, pending, cancelled, outcome>>

Class(i, j) == Difference[<<source[i + 1], source[j + 1]>>]

(* An output names the source frames it was made from: one, or two to blend. *)
Frames == LET Indices == 0..(Len(source) - 1)
          IN  [before : Indices, after : Indices]

(* A copy shows a frame of the recent past. *)
IsCopy(f, position) ==
  /\ f.after = f.before
  /\ f.before * FactorNum <= position
  /\ position < (f.before + 3) * FactorNum

(* Frames synthesis may join: neighbours, or in Anime mode the first of two or
   three copies of one drawing and the drawing that follows; two frames on
   different sides of a shot boundary in no case. *)
Joins(i, j) ==
  /\ configuration.scene \/ configuration.anime => Class(i, j) # "cut"
  /\ j > i + 1 => /\ configuration.anime /\ j <= i + 3
                  /\ \A k \in (i + 1)..(j - 1) : Class(i, k) = "duplicate"

IsBlend(f, position) ==
  /\ f.before < f.after /\ Joins(f.before, f.after)
  /\ f.before * FactorNum < position
  /\ position < f.after * FactorNum

Admissible(position) == {f \in Frames : IsCopy(f, position) \/ IsBlend(f, position)}

Complete ==
  /\ Len(encoded) > 0
  /\ Len(encoded) * FactorDen >= Len(source) * FactorNum
  /\ (Len(encoded) - 1) * FactorDen < Len(source) * FactorNum

-----------------------------------------------------------------------------
Init ==
  /\ configuration \in Configurations
  /\ source = <<>> /\ encoded = <<>>
  /\ pending = FALSE /\ cancelled \in BOOLEAN
  /\ outcome = "running"

Arrive ==
  /\ outcome = "running" /\ ~pending
  /\ \E picture \in Pictures : source' = Append(source, picture)
  /\ UNCHANGED <<configuration, encoded, pending, cancelled, outcome>>

Start ==
  /\ outcome = "running" /\ ~pending /\ ~cancelled
  /\ pending' = TRUE
  /\ UNCHANGED <<configuration, source, encoded, cancelled, outcome>>

(* The write may be the last one: the loop gives up right after it. *)
Emit ==
  /\ outcome = "running" /\ pending
  /\ \E frame \in Admissible(Len(encoded) * FactorDen) : encoded' = Append(encoded, frame)
  /\ pending' = FALSE
  /\ outcome' \in {"running", "failed"}
  /\ UNCHANGED <<configuration, source, cancelled>>

Succeed ==
  /\ outcome = "running" /\ ~pending /\ ~cancelled /\ Complete
  /\ outcome' = "ok"
  /\ UNCHANGED <<configuration, source, encoded, pending, cancelled>>

Fail ==
  /\ outcome = "running"
  /\ outcome' = "failed"
  /\ pending' = FALSE
  /\ UNCHANGED <<configuration, source, encoded, cancelled>>

Cancel ==
  /\ outcome = "running" /\ ~cancelled
  /\ cancelled' = TRUE
  /\ UNCHANGED <<configuration, source, encoded, pending, outcome>>

Next == Arrive \/ Start \/ Emit \/ Succeed \/ Fail \/ Cancel

Spec == Init /\ [][Next]_vars
=============================================================================
