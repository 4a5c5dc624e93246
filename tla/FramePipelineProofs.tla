------------------------- MODULE FramePipelineProofs -------------------------
(***************************************************************************)
(* Theorems about the frame loop, for every pair of frame rates, every     *)
(* frame limit, every set of pictures and every classification of them.    *)
(***************************************************************************)
EXTENDS FramePipeline, FiniteSetTheorems, TLAPS

-----------------------------------------------------------------------------
(* Arithmetic of the common timeline *)

(* The position of an output is an integer, and outputs are FactorDen apart. *)
LEMMA OutputStep ==
  ASSUME NEW n \in Int
  PROVE  /\ OutputAt(n) \in Int
         /\ OutputAt(n + 1) = OutputAt(n) + FactorDen
  BY FactorAssumption DEF OutputAt

(* The end of an interval lies at least one source frame after its start. *)
LEMMA SourceMonotone ==
  ASSUME NEW i \in Nat, NEW j \in Nat, i < j
  PROVE  SourceAt(i) + FactorNum <= SourceAt(j)
<1>1. PICK k \in Nat : j = i + 1 + k
  <2>1. j - i - 1 \in Nat /\ j = i + 1 + (j - i - 1)
    OBVIOUS
  <2> QED
    BY <2>1
<1>2. k * FactorNum \in Nat
  BY FactorAssumption
<1>3. SourceAt(j) = SourceAt(i) + FactorNum + k * FactorNum
  BY <1>1, FactorAssumption DEF SourceAt
<1>4. SourceAt(i) \in Int
  BY FactorAssumption DEF SourceAt
<1> QED
  BY <1>2, <1>3, <1>4, FactorAssumption

(* Both timelines start at zero. *)
LEMMA Origin == OutputAt(0) = 0 /\ SourceAt(0) = 0
  BY FactorAssumption DEF OutputAt, SourceAt

-----------------------------------------------------------------------------
(* Counting in the diagnostics record *)

LEMMA NoDiagnosticsType == NoDiagnostics \in Diagnostics
  BY DEF NoDiagnostics, Diagnostics

(* One more duplicate, or a duplicate that makes a hold long *)
LEMMA DuplicateCounted ==
  ASSUME NEW d \in Diagnostics
  PROVE  /\ [d EXCEPT !.duplicates = @ + 1] \in Diagnostics
         /\ [d EXCEPT !.duplicates = @ + 1, !.holds = @ + 1] \in Diagnostics
<1>1. \A e \in Diagnostics : [e EXCEPT !.duplicates = @ + 1] \in Diagnostics
  BY DEF Diagnostics
<1>2. \A e \in Diagnostics : [e EXCEPT !.holds = @ + 1] \in Diagnostics
  BY DEF Diagnostics
<1>3. [d EXCEPT !.duplicates = @ + 1, !.holds = @ + 1]
        = [[d EXCEPT !.duplicates = @ + 1] EXCEPT !.holds = @ + 1]
  OBVIOUS
<1> QED
  BY <1>1, <1>2, <1>3

(* A new picture: one more cut, one more run, or neither *)
LEMMA PictureCounted ==
  ASSUME NEW d \in Diagnostics, NEW cut \in BOOLEAN, NEW smoothed \in BOOLEAN
  PROVE  [d EXCEPT !.cuts = IF cut THEN @ + 1 ELSE @,
                   !.runs = IF smoothed THEN @ + 1 ELSE @] \in Diagnostics
<1>1. \A e \in Diagnostics : [e EXCEPT !.cuts = IF cut THEN @ + 1 ELSE @] \in Diagnostics
  BY DEF Diagnostics
<1>2. \A e \in Diagnostics : [e EXCEPT !.runs = IF smoothed THEN @ + 1 ELSE @] \in Diagnostics
  BY DEF Diagnostics
<1>3. [d EXCEPT !.cuts = IF cut THEN @ + 1 ELSE @, !.runs = IF smoothed THEN @ + 1 ELSE @]
        = [[d EXCEPT !.cuts = IF cut THEN @ + 1 ELSE @]
             EXCEPT !.runs = IF smoothed THEN @ + 1 ELSE @]
  OBVIOUS
<1> QED
  BY <1>1, <1>2, <1>3

(* One more bypassed inference *)
LEMMA BypassCounted ==
  ASSUME NEW d \in Diagnostics
  PROVE  [d EXCEPT !.bypassed = @ + 1] \in Diagnostics
  BY DEF Diagnostics

-----------------------------------------------------------------------------
(* Every reachable state is well typed. *)
THEOREM TypeCorrect == Spec => []TypeOK
<1>1. Init => TypeOK
  <2> SUFFICES ASSUME Init PROVE TypeOK
    OBVIOUS
  <2>1. decoded \in Seq(Pictures) /\ encoded \in Seq([before : Nat, after : Nat])
    BY DEF Init
  <2>2. span \in [interpolate : BOOLEAN, hold : BOOLEAN, last : BOOLEAN]
    BY DEF Init, NoSpan
  <2> QED
    BY <2>1, <2>2, NoDiagnosticsType DEF Init, TypeOK, Results, Errors
<1>2. TypeOK /\ [Next]_vars => TypeOK'
  <2> SUFFICES ASSUME TypeOK, [Next]_vars PROVE TypeOK'
    OBVIOUS
  <2> USE DEF TypeOK, Results, Errors, jobVars, loopVars, outputVars, Return
  <2>1. CASE ReadAnchor
    BY <2>1 DEF ReadAnchor
  <2>2. CASE NoAnchor
    BY <2>2 DEF NoAnchor
  <2>3. CASE StopAtHead
    BY <2>3 DEF StopAtHead
  <2>4. CASE ReadCandidate
    BY <2>4 DEF ReadCandidate, MayRead
  <2>5. CASE ReadError
    BY <2>5 DEF ReadError, MayRead
  <2>6. CASE EndOfStream
    BY <2>6 DEF EndOfStream, MayRead
  <2>7. CASE ExtendRun
    <3>1. diagnostics' \in Diagnostics
      BY <2>7, DuplicateCounted DEF ExtendRun
    <3> QED
      BY <2>7, <3>1, SMTT(30) DEF ExtendRun
  <2>8. CASE BeginLongHold
    <3>1. diagnostics' \in Diagnostics
      BY <2>8, DuplicateCounted DEF BeginLongHold
    <3> QED
      BY <2>8, <3>1, SMTT(30) DEF BeginLongHold, WriteSpan
  <2>9. CASE ContinueLongHold
    <3>1. diagnostics' \in Diagnostics
      BY <2>9, DuplicateCounted DEF ContinueLongHold
    <3> QED
      BY <2>9, <3>1, SMTT(30) DEF ContinueLongHold, WriteSpan
  <2>10. CASE NewPicture
    <3>1. diagnostics' \in Diagnostics
      BY <2>10, PictureCounted DEF NewPicture, scene_change, is_smoothable_cadence_run
    <3> QED
      BY <2>10, <3>1 DEF NewPicture, WriteSpan, scene_change
  <2>11. CASE StopInSpan
    BY <2>11 DEF StopInSpan, Refusal
  <2>12. CASE BeginOutput
    BY <2>12 DEF BeginOutput
  <2>13. CASE Infer
    BY <2>13 DEF Infer
  <2>14. CASE WriteOutput
    <3>1. diagnostics' \in Diagnostics
      BY <2>14, BypassCounted DEF WriteOutput
    <3>2. encoded' \in Seq([before : Nat, after : Nat])
      <4>1. Frame(anchor, IF Synthesized THEN candidate ELSE anchor) \in [before : Nat, after : Nat]
        BY DEF Frame
      <4> QED
        BY <2>14, <4>1 DEF WriteOutput
    <3> QED
      BY <2>14, <3>1, <3>2, SMTT(30) DEF WriteOutput
  <2>15. CASE WriteError
    BY <2>15 DEF WriteError
  <2>16. CASE AdvanceAnchor
    BY <2>16 DEF AdvanceAnchor, SpanWritten
  <2>17. CASE Finish
    BY <2>17 DEF Finish, SpanWritten
  <2>18. CASE Cancel
    BY <2>18 DEF Cancel
  <2>19. CASE UNCHANGED vars
    BY <2>19, SMTT(30) DEF vars
  <2> QED
    BY <2>1, <2>2, <2>3, <2>4, <2>5, <2>6, <2>7, <2>8, <2>9, <2>10, <2>11, <2>12, <2>13,
       <2>14, <2>15, <2>16, <2>17, <2>18, <2>19 DEF Next, Step, Returned
<1> QED
  BY <1>1, <1>2, PTL DEF Spec

-----------------------------------------------------------------------------
(* The inductive invariant.  Progress says how far reading, the interval and   *)
(* the output have come relative to each other; Cadence, what a pending run    *)
(* consists of; Decided, what an interval that is being written may become;    *)
(* Limits and Outcome, when the loop goes on and what it returned.             *)

Reading == {"head", "compare"}
Writing == {"span", "infer", "write"}

Progress ==
  /\ anchor < candidate
  /\ Len(encoded) = output_index
  /\ pc = "anchor" => decoded = <<>> /\ anchor = 0 /\ candidate = 1 /\ output_index = 0
  /\ pc = "head" => Len(decoded) = candidate
  /\ pc = "compare" => Len(decoded) = candidate + 1
  /\ pc \in Writing => Len(decoded) = IF span.last THEN candidate ELSE candidate + 1
  /\ pc # "done" => SourceAt(anchor) <= OutputAt(output_index)
  /\ pc \in Reading \cup {"anchor"} => OutputAt(output_index) < SourceAt(anchor) + FactorDen
  /\ pc \in Writing => OutputAt(output_index) < SourceAt(candidate) + FactorDen
  /\ pc \in {"infer", "write"} => InSpan

Cadence ==
  /\ candidate <= anchor + 3
  /\ pc \in Reading \cup {"anchor"} => run = candidate - anchor
  /\ pc # "done" => \A i \in (anchor + 1)..(candidate - 1) : Class(anchor, i) = "duplicate"
  /\ pc # "done" /\ candidate > anchor + 1 => AnimeMode

Decided ==
  pc \in Writing /\ span.interpolate => ~span.last /\ ~confident_duplicate /\ ~scene_change

Limits ==
  /\ Len(decoded) <= FrameMax /\ output_index <= FrameMax
  /\ pc # "done" => output_index < FrameMax /\ candidate <= FrameMax
  /\ pc \in Writing \cup {"compare"} => candidate < FrameMax

Outcome ==
  /\ pc # "done" => result = "running"
  /\ result # "overlap"
  /\ result = "ok" => output_index < FrameMax /\ Len(decoded) < FrameMax
  /\ DurationKept

LoopInv == Progress /\ Cadence /\ Decided /\ Limits /\ Outcome

(* What the encoder received as output n: a copy of a frame of the recent past,
   or a blend of two frames that may be joined. *)
Joined(i, j) ==
  /\ scene_detection => Class(i, j) # "cut"
  /\ j > i + 1 => /\ AnimeMode
                  /\ j <= i + 3
                  /\ \A k \in (i + 1)..(j - 1) : Class(i, k) = "duplicate"
                  /\ Class(i, j) = "motion"

Sound(f, n) ==
  /\ f.before \in Nat /\ f.after \in Nat
  /\ f.before <= f.after /\ f.after < Len(decoded)
  /\ SourceAt(f.before) <= OutputAt(n)
  /\ OutputAt(n) < SourceAt(f.before + 3)
  /\ f.after # f.before => /\ SourceAt(f.before) < OutputAt(n)
                           /\ OutputAt(n) < SourceAt(f.after)
                           /\ Joined(f.before, f.after)

FramesInv == \A n \in 1..Len(encoded) : Sound(encoded[n], n - 1)

-----------------------------------------------------------------------------
(* Progress: the positions of reading, interval and output fit together. *)

LEMMA ProgressStep ==
  ASSUME TypeOK, TypeOK', Progress, [Next]_vars
  PROVE  Progress'
<1> USE DEF Progress, Reading, Writing, InSpan, jobVars, loopVars, outputVars
<1>0. /\ pc \in {"anchor", "head", "compare", "span", "infer", "write", "done"}
      /\ anchor \in Nat /\ candidate \in Nat /\ output_index \in Nat
      /\ decoded \in Seq(Pictures) /\ encoded \in Seq([before : Nat, after : Nat])
      /\ SourceAt(anchor) \in Int /\ SourceAt(candidate) \in Int
      /\ OutputAt(output_index) \in Int
      /\ SourceAt(anchor) + FactorNum <= SourceAt(candidate)
  <2>1. /\ pc \in {"anchor", "head", "compare", "span", "infer", "write", "done"}
        /\ anchor \in Nat /\ candidate \in Nat /\ output_index \in Nat
        /\ decoded \in Seq(Pictures) /\ encoded \in Seq([before : Nat, after : Nat])
    BY DEF TypeOK
  <2>2. SourceAt(anchor) \in Int /\ SourceAt(candidate) \in Int
    BY <2>1, FactorAssumption DEF SourceAt
  <2>3. OutputAt(output_index) \in Int
    BY <2>1, OutputStep
  <2>4. SourceAt(anchor) + FactorNum <= SourceAt(candidate)
    BY <2>1, SourceMonotone
  <2> QED
    BY <2>1, <2>2, <2>3, <2>4
<1>1. CASE ReadAnchor
  <2>1. PICK picture \in Pictures : decoded' = <<picture>>
    BY <1>1 DEF ReadAnchor
  <2>2. Len(decoded') = 1 /\ candidate = 1
    BY <1>1, <2>1 DEF ReadAnchor
  <2> QED
    BY <1>1, <1>0, <2>2 DEF ReadAnchor
<1>2. CASE NoAnchor
  BY <1>2, <1>0 DEF NoAnchor, Return
<1>3. CASE StopAtHead
  BY <1>3, <1>0 DEF StopAtHead, Return
<1>4. CASE ReadCandidate
  <2>1. PICK picture \in Pictures : decoded' = Append(decoded, picture)
    BY <1>4 DEF ReadCandidate
  <2>2. Len(decoded') = Len(decoded) + 1
    BY <1>0, <2>1
  <2> QED
    BY <1>4, <1>0, <2>2 DEF ReadCandidate, MayRead
<1>5. CASE ReadError
  BY <1>5, <1>0 DEF ReadError, MayRead, Return
<1>20. ASSUME pc \in Reading, pc' = "span", span'.last = (pc = "head"),
              UNCHANGED <<decoded, anchor, candidate, encoded, output_index>>
       PROVE  Progress'
  <2>1. OutputAt(output_index) < SourceAt(candidate) + FactorDen
    BY <1>0, <1>20, FactorAssumption, SMTT(30)
  <2>2. SourceAt(anchor) <= OutputAt(output_index)
    BY <1>20
  <2>3. Len(decoded) = IF span'.last THEN candidate ELSE candidate + 1
    BY <1>20
  <2> QED
    BY <1>0, <1>20, <2>1, <2>2, <2>3
<1>6. CASE EndOfStream
  BY <1>6, <1>20 DEF EndOfStream, MayRead
<1>7. CASE ExtendRun
  <2>1. /\ pc = "compare" /\ pc' = "head" /\ candidate' = candidate + 1
        /\ UNCHANGED <<decoded, anchor, encoded, output_index>>
    BY <1>7 DEF ExtendRun
  <2> QED
    BY <1>0, <2>1
<1>8. CASE BeginLongHold
  BY <1>8, <1>20 DEF BeginLongHold, WriteSpan
<1>9. CASE ContinueLongHold
  BY <1>9, <1>20 DEF ContinueLongHold, WriteSpan
<1>10. CASE NewPicture
  BY <1>10, <1>20 DEF NewPicture, WriteSpan
<1>11. CASE StopInSpan
  BY <1>11, <1>0 DEF StopInSpan, Return
<1>12. CASE BeginOutput
  BY <1>12, <1>0 DEF BeginOutput
<1>13. CASE Infer
  BY <1>13, <1>0 DEF Infer, Return
<1>14. CASE WriteOutput
  <2>1. Len(encoded') = output_index'
    BY <1>14, <1>0, SMTT(30) DEF WriteOutput
  <2>2. OutputAt(output_index') = OutputAt(output_index) + FactorDen
    BY <1>14, <1>0, OutputStep DEF WriteOutput
  <2>3. /\ pc = "write" /\ pc' \in {"span", "done"}
        /\ UNCHANGED <<decoded, anchor, candidate, span>>
    BY <1>14 DEF WriteOutput, Return
  <2>4. /\ OutputAt(output_index') < SourceAt(candidate) + FactorDen
        /\ SourceAt(anchor) <= OutputAt(output_index')
    BY <1>0, <2>2, <2>3, FactorAssumption, SMTT(30)
  <2> QED
    BY <1>0, <2>1, <2>3, <2>4
<1>15. CASE WriteError
  BY <1>15, <1>0 DEF WriteError, Return
<1>16. CASE AdvanceAnchor
  BY <1>16, <1>0, FactorAssumption DEF AdvanceAnchor, SpanWritten
<1>17. CASE Finish
  BY <1>17, <1>0 DEF Finish, SpanWritten, Return
<1>18. CASE Cancel
  BY <1>18, <1>0 DEF Cancel
<1>19. CASE UNCHANGED vars
  BY <1>19, <1>0 DEF vars
<1> QED
  BY <1>1, <1>2, <1>3, <1>4, <1>5, <1>6, <1>7, <1>8, <1>9, <1>10, <1>11, <1>12, <1>13,
     <1>14, <1>15, <1>16, <1>17, <1>18, <1>19 DEF Next, Step, Returned

-----------------------------------------------------------------------------
(* Cadence: the frames of a pending run are copies of the anchor, and a run    *)
(* that is still read has at most three.                                       *)

(* A frame that was read never changes. *)
LEMMA DecodedKept ==
  ASSUME TypeOK, [Next]_vars, pc # "anchor", NEW i \in Nat, i < Len(decoded)
  PROVE  /\ decoded'[i + 1] = decoded[i + 1]
         /\ Len(decoded) <= Len(decoded')
<1>0. decoded \in Seq(Pictures) /\ i + 1 \in 1..Len(decoded)
  BY DEF TypeOK
<1>1. CASE ReadCandidate
  <2>1. PICK picture \in Pictures : decoded' = Append(decoded, picture)
    BY <1>1 DEF ReadCandidate
  <2> QED
    BY <1>0, <2>1
<1>2. CASE UNCHANGED decoded
  BY <1>0, <1>2
<1> QED
  BY <1>1, <1>2 DEF Next, Step, Returned, vars, ReadAnchor, NoAnchor, StopAtHead, ReadError,
     EndOfStream, ExtendRun, BeginLongHold, ContinueLongHold, NewPicture, StopInSpan,
     BeginOutput, Infer, WriteOutput, WriteError, AdvanceAnchor, Finish, Cancel

(* The preset and the scene setting of a job never change. *)
LEMMA ConfigurationKept ==
  ASSUME [Next]_vars PROVE configuration' = configuration
  BY DEF Next, Step, Returned, vars, jobVars, ReadAnchor, NoAnchor, StopAtHead, ReadCandidate,
     ReadError, EndOfStream, ExtendRun, BeginLongHold, ContinueLongHold, NewPicture, StopInSpan,
     BeginOutput, Infer, WriteOutput, WriteError, AdvanceAnchor, Finish, Cancel

(* Hence the class of two frames that were read never changes either. *)
LEMMA ClassKept ==
  ASSUME TypeOK, [Next]_vars, pc # "anchor",
         NEW i \in Nat, NEW j \in Nat, i < Len(decoded), j < Len(decoded)
  PROVE  Class(i, j)' = Class(i, j)
  BY DecodedKept DEF Class

LEMMA CadenceStep ==
  ASSUME TypeOK, TypeOK', Progress, Cadence, [Next]_vars
  PROVE  Cadence'
<1>0. /\ pc \in {"anchor", "head", "compare", "span", "infer", "write", "done"}
      /\ anchor \in Nat /\ candidate \in Nat /\ run \in Nat /\ anchor < candidate
      /\ AnimeMode' = AnimeMode
  BY ConfigurationKept DEF TypeOK, Progress, AnimeMode
<1>1. ASSUME pc \notin {"anchor", "done"} PROVE candidate <= Len(decoded)
  BY <1>0, <1>1 DEF Progress, Reading, Writing
<1> DEFINE Quiet == /\ UNCHANGED <<anchor, candidate>> /\ pc # "anchor" /\ pc' # "anchor"
                    /\ pc' # "done" => pc # "done"
                    /\ pc' \in Reading => pc \in Reading /\ run' = run
<1>2. CASE Quiet
  <2>1. ASSUME pc' # "done", NEW i \in (anchor + 1)..(candidate - 1)
        PROVE  Class(anchor, i)' = "duplicate"
    <3>1. i \in Nat /\ i < Len(decoded) /\ anchor < Len(decoded)
      BY <1>0, <1>1, <1>2, <2>1
    <3>2. Class(anchor, i) = "duplicate"
      BY <1>2, <2>1 DEF Cadence
    <3>3. \A k \in Nat : k < Len(decoded) => Class(k, i)' = Class(k, i)
      BY <1>2, <3>1, ClassKept
    <3>4. anchor' = anchor
      BY <1>2
    <3> QED
      BY <1>0, <3>1, <3>2, <3>3, <3>4 DEF Class
  <2> QED
    BY <1>0, <1>2, <2>1 DEF Cadence, Reading
<1>3. CASE ReadAnchor
  BY <1>0, <1>3 DEF ReadAnchor, Cadence, Progress, Reading, loopVars
<1>4. CASE NoAnchor
  BY <1>0, <1>4 DEF NoAnchor, Cadence, Return, Reading, loopVars
<1>5. CASE ExtendRun
  <2>1. /\ anchor' = anchor /\ candidate' = candidate + 1 /\ run' = run + 1
        /\ decoded' = decoded /\ configuration' = configuration
        /\ run + 1 <= 3 /\ run = candidate - anchor /\ pc = "compare" /\ pc' = "head"
        /\ AnimeMode /\ Class(anchor, candidate) = "duplicate"
    BY <1>0, <1>5 DEF ExtendRun, Cadence, Reading, confident_duplicate, jobVars,
       is_smoothable_cadence_run
  <2>2. \A i \in (anchor + 1)..candidate : Class(anchor, i) = "duplicate"
    BY <1>0, <2>1 DEF Cadence
  <2>3. \A i \in (anchor' + 1)..(candidate' - 1) : Class(anchor, i)' = "duplicate"
    BY <1>0, <2>1, <2>2 DEF Class
  <2> QED
    BY <1>0, <2>1, <2>3 DEF Cadence, Reading
<1>6. CASE AdvanceAnchor
  BY <1>0, <1>6 DEF AdvanceAnchor, Cadence, Reading
<1>7. CASE UNCHANGED vars
  BY <1>0, <1>7 DEF vars, Cadence, Class, AnimeMode
<1>8. CASE StopAtHead \/ ReadCandidate \/ ReadError \/ EndOfStream
  BY <1>2, <1>8 DEF StopAtHead, ReadCandidate, ReadError, EndOfStream, MayRead, Return, loopVars,
     Reading
<1>9. CASE BeginLongHold \/ ContinueLongHold \/ NewPicture
  BY <1>2, <1>9 DEF BeginLongHold, ContinueLongHold, NewPicture, WriteSpan, loopVars, Reading
<1>10. CASE StopInSpan \/ BeginOutput \/ Infer \/ Finish
  BY <1>2, <1>10 DEF StopInSpan, BeginOutput, Infer, Finish, SpanWritten, Return, loopVars, Reading
<1>11. CASE WriteOutput \/ WriteError
  BY <1>2, <1>11 DEF WriteOutput, WriteError, Return, loopVars, Reading
<1>12. CASE Cancel
  <2>1. CASE pc = "anchor"
    BY <1>0, <1>12, <2>1 DEF Cancel, Cadence, Class, AnimeMode, loopVars
  <2>2. CASE pc # "anchor"
    BY <1>2, <1>12, <2>2 DEF Cancel, loopVars, Reading
  <2> QED
    BY <2>1, <2>2
<1> QED
  BY <1>3, <1>4, <1>5, <1>6, <1>7, <1>8, <1>9, <1>10, <1>11, <1>12 DEF Next, Step, Returned

-----------------------------------------------------------------------------
(* Decided: an interval that is synthesized ends in a frame that is neither a  *)
(* copy of the anchor nor the first of another shot.                           *)
LEMMA DecidedStep ==
  ASSUME TypeOK, Decided, [Next]_vars
  PROVE  Decided'
<1> USE DEF Decided, Writing
<1>1. CASE EndOfStream
  BY <1>1 DEF EndOfStream
<1>2. CASE BeginLongHold \/ ContinueLongHold
  BY <1>2 DEF BeginLongHold, ContinueLongHold, WriteSpan
<1>3. CASE NewPicture
  BY <1>3 DEF NewPicture, WriteSpan, confident_duplicate, scene_change, AnimeMode,
     scene_detection, Class, loopVars, jobVars
<1>4. CASE /\ UNCHANGED <<configuration, decoded, anchor, candidate, span>>
           /\ pc' \in Writing => pc \in Writing
  BY <1>4 DEF confident_duplicate, scene_change, AnimeMode, scene_detection, Class
<1>5. CASE pc' \notin Writing
  BY <1>5
<1>6. CASE ReadAnchor \/ NoAnchor \/ StopAtHead \/ ReadCandidate \/ ReadError \/ ExtendRun
  BY <1>5, <1>6 DEF ReadAnchor, NoAnchor, StopAtHead, ReadCandidate, ReadError, ExtendRun, Return
<1>7. CASE StopInSpan \/ AdvanceAnchor \/ Finish \/ WriteError
  BY <1>5, <1>7 DEF StopInSpan, AdvanceAnchor, Finish, WriteError, Return
<1>8. CASE BeginOutput \/ Infer \/ WriteOutput
  BY <1>4, <1>8 DEF BeginOutput, Infer, WriteOutput, loopVars, jobVars
<1>9. CASE Cancel \/ UNCHANGED vars
  BY <1>4, <1>9 DEF Cancel, vars, loopVars
<1> QED
  BY <1>1, <1>2, <1>3, <1>6, <1>7, <1>8, <1>9 DEF Next, Step, Returned

-----------------------------------------------------------------------------
(* Limits: neither index passes the limit, and work goes on below it only. *)
LEMMA LimitsStep ==
  ASSUME TypeOK, Progress, Limits, [Next]_vars
  PROVE  Limits'
<1> USE DEF Limits, Writing, loopVars, outputVars
<1>0. /\ candidate \in Nat /\ output_index \in Nat /\ FrameMax \in Nat
      /\ decoded \in Seq(Pictures) /\ Len(decoded) \in Nat
  BY LimitAssumption DEF TypeOK
<1>1. CASE /\ UNCHANGED <<decoded, candidate, output_index>> /\ (pc' # "done" => pc # "done")
           /\ pc' \in Writing \cup {"compare"} => pc \in Writing \cup {"compare"}
  BY <1>1
<1>2. CASE pc' = "done" /\ UNCHANGED <<decoded, output_index>>
  BY <1>2
<1>3. CASE NoAnchor \/ StopAtHead \/ ReadError \/ StopInSpan \/ Finish \/ WriteError
  BY <1>2, <1>3 DEF NoAnchor, StopAtHead, ReadError, StopInSpan, Finish, WriteError, Return
<1>4. CASE ReadAnchor
  <2>1. PICK picture \in Pictures : decoded' = <<picture>>
    BY <1>4 DEF ReadAnchor
  <2>2. Len(decoded') = 1 /\ 1 <= FrameMax
    BY <2>1, LimitAssumption
  <2> QED
    BY <1>4, <2>2 DEF ReadAnchor
<1>5. CASE ReadCandidate
  <2>1. PICK picture \in Pictures : decoded' = Append(decoded, picture)
    BY <1>5 DEF ReadCandidate
  <2>2. Len(decoded') = Len(decoded) + 1 /\ Len(decoded) = candidate
    BY <1>0, <1>5, <2>1 DEF ReadCandidate, MayRead, Progress
  <2> QED
    BY <1>0, <1>5, <2>2 DEF ReadCandidate, MayRead
<1>6. CASE EndOfStream
  BY <1>6 DEF EndOfStream, MayRead
<1>7. CASE ExtendRun \/ AdvanceAnchor
  BY <1>0, <1>7 DEF ExtendRun, AdvanceAnchor, SpanWritten
<1>8. CASE BeginLongHold \/ ContinueLongHold \/ NewPicture
  BY <1>1, <1>8 DEF BeginLongHold, ContinueLongHold, NewPicture, WriteSpan
<1>9. CASE BeginOutput \/ Infer
  BY <1>1, <1>2, <1>9 DEF BeginOutput, Infer, Return
<1>10. CASE WriteOutput
  <2>1. output_index' = output_index + 1 /\ UNCHANGED <<decoded, candidate>>
    BY <1>10 DEF WriteOutput
  <2>2. pc' = "done" \/ (pc' = "span" /\ output_index + 1 < FrameMax)
    BY <1>10 DEF WriteOutput, Return
  <2> QED
    BY <1>0, <1>10, <2>1, <2>2 DEF WriteOutput
<1>11. CASE Cancel \/ UNCHANGED vars
  BY <1>1, <1>11 DEF Cancel, vars
<1> QED
  BY <1>3, <1>4, <1>5, <1>6, <1>7, <1>8, <1>9, <1>10, <1>11 DEF Next, Step, Returned

-----------------------------------------------------------------------------
(* Outcome: the scheduler never finds an output in front of its interval, and  *)
(* the job succeeds only in Finish, which keeps the duration.                  *)
LEMMA OutcomeStep ==
  ASSUME TypeOK, TypeOK', Progress, Limits, Outcome, [Next]_vars
  PROVE  Outcome'
<1>0. /\ pc # "done" => result = "running"
      /\ result # "overlap"
  BY DEF Outcome
<1>1. CASE UNCHANGED <<result, decoded, encoded, output_index>> /\ (pc' # "done" => pc # "done")
  BY <1>1 DEF Outcome, DurationKept
<1>2. CASE result' \notin {"ok", "overlap"} /\ (pc' # "done" => result' = "running")
  BY <1>2 DEF Outcome, DurationKept
<1>3. CASE ReadAnchor \/ ReadCandidate \/ BeginOutput
  BY <1>0, <1>2, <1>3 DEF ReadAnchor, ReadCandidate, MayRead, BeginOutput
<1>4. CASE NoAnchor \/ StopAtHead \/ ReadError \/ WriteError
  BY <1>2, <1>4 DEF NoAnchor, StopAtHead, ReadError, WriteError, Return
<1>5. CASE EndOfStream \/ ExtendRun \/ BeginLongHold \/ ContinueLongHold \/ NewPicture
  BY <1>0, <1>2, <1>5 DEF EndOfStream, MayRead, ExtendRun, BeginLongHold, ContinueLongHold,
     NewPicture, WriteSpan
<1>6. CASE StopInSpan
  <2>1. relative_scaled \in Int /\ relative_scaled >= 0
    <3>1. OutputAt(output_index) \in Int /\ SourceAt(anchor) \in Int
      BY FactorAssumption DEF OutputAt, SourceAt, TypeOK
    <3> QED
      BY <1>6, <3>1 DEF StopInSpan, Progress, relative_scaled
  <2>2. Refusal # "overlap" /\ Refusal # "ok"
    BY <2>1 DEF Refusal
  <2> QED
    BY <1>2, <1>6, <2>2 DEF StopInSpan, Return
<1>7. CASE Infer
  BY <1>0, <1>2, <1>7 DEF Infer, Return
<1>8. CASE WriteOutput
  BY <1>0, <1>2, <1>8 DEF WriteOutput, Return
<1>9. CASE AdvanceAnchor
  BY <1>0, <1>2, <1>9 DEF AdvanceAnchor, SpanWritten
<1>10. CASE Finish
  <2>1. /\ Len(decoded) = candidate /\ Len(encoded) = output_index
        /\ OutputAt(output_index) >= SourceAt(candidate)
        /\ OutputAt(output_index) < SourceAt(candidate) + FactorDen
        /\ OutputAt(output_index) \in Int /\ SourceAt(candidate) \in Int
        /\ candidate < FrameMax /\ output_index < FrameMax
    <3>1. OutputAt(output_index) \in Int /\ SourceAt(candidate) \in Int
      BY FactorAssumption DEF OutputAt, SourceAt, TypeOK
    <3> QED
      BY <1>10, <3>1 DEF Finish, SpanWritten, InSpan, Progress, Limits, Writing
  <2>2. OutputAt(output_index - 1) = OutputAt(output_index) - FactorDen
    BY FactorAssumption DEF OutputAt, TypeOK
  <2>3. DurationKept'
    BY <1>10, <2>1, <2>2, FactorAssumption DEF Finish, DurationKept, outputVars
  <2> QED
    BY <1>10, <2>1, <2>3 DEF Finish, Return, Outcome, outputVars
<1>11. CASE Cancel \/ UNCHANGED vars
  BY <1>1, <1>11 DEF Cancel, vars, outputVars
<1> QED
  BY <1>3, <1>4, <1>5, <1>6, <1>7, <1>8, <1>9, <1>10, <1>11 DEF Next, Step, Returned

-----------------------------------------------------------------------------
(* The invariant of the loop holds in every reachable state. *)
THEOREM LoopCorrect == Spec => []LoopInv
<1>1. Init => LoopInv
  <2> SUFFICES ASSUME Init PROVE LoopInv
    OBVIOUS
  <2> USE DEF Init
  <2>1. Progress
    BY Origin, FactorAssumption DEF Progress, Reading, Writing
  <2>2. Cadence
    BY DEF Cadence, Reading
  <2>3. Decided
    BY DEF Decided, Writing
  <2>4. Limits
    BY LimitAssumption DEF Limits, Writing
  <2>5. Outcome
    BY DEF Outcome, DurationKept
  <2> QED
    BY <2>1, <2>2, <2>3, <2>4, <2>5 DEF LoopInv
<1>2. TypeOK /\ TypeOK' /\ LoopInv /\ [Next]_vars => LoopInv'
  <2> SUFFICES ASSUME TypeOK, TypeOK', LoopInv, [Next]_vars PROVE LoopInv'
    OBVIOUS
  <2>1. Progress'
    BY ProgressStep DEF LoopInv
  <2>2. Cadence'
    BY CadenceStep DEF LoopInv
  <2>3. Decided'
    BY DecidedStep DEF LoopInv
  <2>4. Limits'
    BY LimitsStep DEF LoopInv
  <2>5. Outcome'
    BY OutcomeStep DEF LoopInv
  <2> QED
    BY <2>1, <2>2, <2>3, <2>4, <2>5 DEF LoopInv
<1> QED
  BY <1>1, <1>2, TypeCorrect, PTL DEF Spec

(* Consecutive intervals meet: between two intervals the next output stands
   within one output distance after the anchor, and process_frames never returns
   the scheduler's "overlapping source span". *)
THEOREM IntervalsTile == Spec => []SpansTile
<1>1. TypeOK /\ LoopInv => SpansTile
  <2> SUFFICES ASSUME TypeOK, LoopInv PROVE SpansTile
    OBVIOUS
  <2>1. OutputAt(output_index) \in Int /\ SourceAt(anchor) \in Int
    BY FactorAssumption DEF OutputAt, SourceAt, TypeOK
  <2> QED
    BY <2>1, FactorAssumption DEF LoopInv, Progress, Outcome, Reading, SpansTile, relative_scaled
<1> QED
  BY <1>1, TypeCorrect, LoopCorrect, PTL

(* Whatever the two frame rates, a job that succeeds has as many output frames
   as the duration of its source asks for: process_frames keeps the duration. *)
THEOREM DurationIsKept == Spec => []DurationKept
<1>1. LoopInv => DurationKept
  BY DEF LoopInv, Outcome
<1> QED
  BY <1>1, LoopCorrect, PTL

(* Neither more frames are read nor more are written than OUTPUT_FRAME_COUNT_MAX,
   no output is begun at the limit, and reaching it is never taken for success. *)
THEOREM OutputIsBounded == Spec => []OutputBounded
<1>1. TypeOK /\ LoopInv => OutputBounded
  BY LimitAssumption DEF LoopInv, Progress, Limits, Outcome, OutputBounded, TypeOK
<1> QED
  BY <1>1, TypeCorrect, LoopCorrect, PTL

-----------------------------------------------------------------------------
(* What the encoder received *)

(* A sound frame stays sound: what it was made from never changes. *)
LEMMA SoundKept ==
  ASSUME TypeOK, [Next]_vars, pc # "anchor", NEW f, NEW n, Sound(f, n)
  PROVE  Sound(f, n)'
<1>1. /\ f.before \in Nat /\ f.after \in Nat
      /\ f.before <= f.after /\ f.after < Len(decoded)
      /\ Len(decoded) \in Nat /\ Len(decoded') >= Len(decoded)
  BY DecodedKept DEF Sound, TypeOK
<1>2. \A i, j \in 0..f.after : Class(i, j)' = Class(i, j)
  BY <1>1, ClassKept
<1>3. AnimeMode' = AnimeMode /\ scene_detection' = scene_detection
  BY ConfigurationKept DEF AnimeMode, scene_detection
<1>4. ASSUME Joined(f.before, f.after) PROVE Joined(f.before, f.after)'
  <2>1. Class(f.before, f.after)' = Class(f.before, f.after)
    BY <1>1, <1>2
  <2>2. \A k \in (f.before + 1)..(f.after - 1) : Class(f.before, k)' = Class(f.before, k)
    BY <1>1, <1>2
  <2> QED
    BY <1>3, <1>4, <2>1, <2>2 DEF Joined
<1>5. Len(decoded') \in Int
  BY <1>1
<1> QED
  BY <1>1, <1>4 DEF Sound, SourceAt, OutputAt

(* The frame that is written is sound. *)
LEMMA WrittenSound ==
  ASSUME TypeOK, LoopInv, WriteOutput
  PROVE  Sound(Frame(anchor, IF Synthesized THEN candidate ELSE anchor), output_index)
<1>0. /\ anchor \in Nat /\ candidate \in Nat /\ output_index \in Nat
      /\ anchor < candidate /\ candidate <= anchor + 3
      /\ pc = "write" /\ Len(decoded) \in Nat
      /\ decoded \in Seq(Pictures)
      /\ OutputAt(output_index) \in Int /\ SourceAt(anchor) \in Int
      /\ SourceAt(candidate) \in Int /\ SourceAt(anchor + 3) \in Int
  <2>1. /\ anchor \in Nat /\ candidate \in Nat /\ output_index \in Nat
        /\ decoded \in Seq(Pictures)
    BY DEF TypeOK
  <2>2. Len(decoded) \in Nat
    BY <2>1
  <2>3. /\ OutputAt(output_index) \in Int /\ SourceAt(anchor) \in Int
        /\ SourceAt(candidate) \in Int /\ SourceAt(anchor + 3) \in Int
    BY <2>1, FactorAssumption DEF OutputAt, SourceAt
  <2> QED
    BY <2>1, <2>2, <2>3 DEF LoopInv, Progress, Cadence, WriteOutput
<1>1. /\ SourceAt(anchor) <= OutputAt(output_index)
      /\ OutputAt(output_index) < SourceAt(candidate)
  BY <1>0 DEF LoopInv, Progress, InSpan
<1>2. OutputAt(output_index) < SourceAt(anchor + 3)
  <2>1. CASE candidate = anchor + 3
    BY <1>1, <2>1
  <2>2. CASE candidate < anchor + 3
    <3>1. SourceAt(candidate) + FactorNum <= SourceAt(anchor + 3)
      BY <1>0, <2>2, SourceMonotone
    <3> QED
      BY <1>0, <1>1, <3>1, FactorAssumption, SMTT(30)
  <2> QED
    BY <1>0, <2>1, <2>2
<1>3. CASE ~Synthesized
  <2>1. Len(decoded) >= candidate
    BY <1>0 DEF LoopInv, Progress, Writing
  <2> QED
    BY <1>0, <1>1, <1>2, <1>3, <2>1 DEF Sound, Frame
<1>4. CASE Synthesized
  <2>1. span.interpolate /\ SourceAt(anchor) < OutputAt(output_index)
    BY <1>0, <1>4 DEF Synthesized, relative_scaled
  <2>2. ~span.last /\ ~confident_duplicate /\ ~scene_change
    BY <1>0, <2>1 DEF LoopInv, Decided, Writing
  <2>3. Len(decoded) = candidate + 1
    BY <1>0, <2>2 DEF LoopInv, Progress, Writing
  <2>4. /\ \A i \in (anchor + 1)..(candidate - 1) : Class(anchor, i) = "duplicate"
        /\ candidate > anchor + 1 => AnimeMode
    BY <1>0 DEF LoopInv, Cadence
  <2>5. Class(anchor, candidate) \in Classes
    <3>1. decoded[anchor + 1] \in Pictures /\ decoded[candidate + 1] \in Pictures
      BY <1>0, <2>3
    <3> QED
      BY <3>1, PictureAssumption DEF Class
  <2>6. Joined(anchor, candidate)
    BY <1>0, <2>2, <2>4, <2>5, SMTT(30)
       DEF Joined, confident_duplicate, scene_change, scene_detection, Classes
  <2> QED
    BY <1>0, <1>1, <1>2, <1>4, <2>1, <2>3, <2>6 DEF Sound, Frame
<1> QED
  BY <1>3, <1>4

(* Only WriteOutput sends a frame. *)
LEMMA OnlyWriteOutputWrites ==
  ASSUME [Next]_vars, ~WriteOutput
  PROVE  encoded' = encoded
  BY DEF Next, Step, Returned, vars, outputVars, ReadAnchor, NoAnchor, StopAtHead, ReadCandidate,
     ReadError, EndOfStream, ExtendRun, BeginLongHold, ContinueLongHold, NewPicture, StopInSpan,
     BeginOutput, Infer, WriteError, AdvanceAnchor, Finish, Cancel

LEMMA FramesStep ==
  ASSUME TypeOK, LoopInv, FramesInv, [Next]_vars
  PROVE  FramesInv'
<1>0. encoded \in Seq([before : Nat, after : Nat]) /\ Len(encoded) = output_index
      /\ output_index \in Nat
  BY DEF TypeOK, LoopInv, Progress
<1>1. CASE pc = "anchor"
  BY <1>0, <1>1, OnlyWriteOutputWrites DEF LoopInv, Progress, FramesInv, WriteOutput
<1>2. ASSUME pc # "anchor", NEW n \in 1..Len(encoded), encoded'[n] = encoded[n]
      PROVE  Sound(encoded[n], n - 1)'
  <2>1. PICK f : f = encoded[n]
    OBVIOUS
  <2>2. Sound(f, n - 1)'
    <3>1. Sound(f, n - 1)
      BY <2>1 DEF FramesInv
    <3> QED
      BY <1>2, <3>1, SoundKept
  <2> QED
    BY <1>2, <2>1, <2>2 DEF Sound, Joined, Class
<1>3. CASE pc # "anchor" /\ ~WriteOutput
  BY <1>2, <1>3, OnlyWriteOutputWrites DEF FramesInv
<1>4. CASE WriteOutput
  <2>1. PICK frame : /\ frame = Frame(anchor, IF Synthesized THEN candidate ELSE anchor)
                     /\ encoded' = Append(encoded, frame)
    BY <1>4 DEF WriteOutput
  <2>2. frame \in [before : Nat, after : Nat]
    BY <2>1 DEF Frame, TypeOK
  <2>3. /\ Len(encoded') = output_index + 1
        /\ \A n \in 1..Len(encoded) : encoded'[n] = encoded[n]
        /\ encoded'[output_index + 1] = frame
    BY <1>0, <2>1, <2>2
  <2>4. \A n \in 1..Len(encoded) : Sound(encoded[n], n - 1)'
    BY <1>2, <1>4, <2>3 DEF WriteOutput
  <2>5. ASSUME NEW n, n = output_index + 1 PROVE Sound(encoded[n], n - 1)'
    <3>1. n - 1 = output_index
      BY <1>0, <2>5
    <3>2. Sound(frame, n - 1)'
      <4>1. Sound(frame, n - 1)
        BY <1>4, <2>1, <3>1, WrittenSound
      <4> QED
        BY <1>4, <4>1, SoundKept DEF WriteOutput
    <3>3. encoded'[n] = frame
      BY <2>3, <2>5
    <3> QED
      BY <3>2, <3>3 DEF Sound, Joined, Class
  <2> QED
    BY <1>0, <2>3, <2>4, <2>5, SMTT(30) DEF FramesInv
<1> QED
  BY <1>1, <1>3, <1>4 DEF WriteOutput

(* Everything the encoder ever receives is sound. *)
THEOREM FramesCorrect == Spec => []FramesInv
<1>1. Init => FramesInv
  BY DEF Init, FramesInv
<1>2. TypeOK /\ LoopInv /\ FramesInv /\ [Next]_vars => FramesInv'
  BY FramesStep
<1> QED
  BY <1>1, <1>2, TypeCorrect, LoopCorrect, PTL DEF Spec

(* Every output stands inside the interval it was made from, and no output shows
   a frame that lies three source frames or more in the past. *)
THEOREM OutputsAreOnTimeline == Spec => []OnTimeline
<1>1. FramesInv => OnTimeline
  BY DEF FramesInv, Sound, OnTimeline
<1> QED
  BY <1>1, FramesCorrect, PTL

(* Scene protection: with scene detection or in Anime mode, no output blends two
   frames that a shot boundary separates. *)
THEOREM ShotsAreProtected == Spec => []SceneProtected
<1>1. FramesInv => SceneProtected
  <2> SUFFICES ASSUME FramesInv, scene_detection, NEW n \in 1..Len(encoded),
                      Class(encoded[n].before, encoded[n].after) = "cut"
               PROVE  encoded[n].before = encoded[n].after
    BY DEF SceneProtected
  <2> QED
    BY DEF FramesInv, Sound, Joined
<1> QED
  BY <1>1, FramesCorrect, PTL

(* Cadence protection: a blend that skips frames skips one or two copies of its
   first frame, in Anime mode only. *)
THEOREM CadenceIsProtected == Spec => []OnlyShortHoldsSmoothed
<1>1. FramesInv => OnlyShortHoldsSmoothed
  <2> SUFFICES ASSUME FramesInv, NEW n \in 1..Len(encoded),
                      encoded[n].after > encoded[n].before + 1
               PROVE  Joined(encoded[n].before, encoded[n].after)
    BY DEF FramesInv, Sound, Joined, OnlyShortHoldsSmoothed
  <2>1. Sound(encoded[n], n - 1)
    BY DEF FramesInv
  <2>2. encoded[n].after # encoded[n].before
    BY <2>1 DEF Sound
  <2> QED
    BY <2>1, <2>2 DEF Sound
<1> QED
  BY <1>1, FramesCorrect, PTL

-----------------------------------------------------------------------------
(* Refinement: the loop implements the abstract resampling. *)

(* The frame that is written is one the abstract specification admits. *)
LEMMA WrittenAdmissible ==
  ASSUME TypeOK, LoopInv, WriteOutput
  PROVE  Frame(anchor, IF Synthesized THEN candidate ELSE anchor)
           \in Abstract!Admissible(Len(encoded) * FactorDen)
<1> DEFINE f == Frame(anchor, IF Synthesized THEN candidate ELSE anchor)
           Source == 0..(Len(decoded) - 1)
<1>1. Sound(f, output_index)
  BY WrittenSound
<1>2. Len(encoded) = output_index /\ Len(decoded) \in Nat
  BY DEF TypeOK, LoopInv, Progress
<1>3. f.before \in Source /\ f.after \in Source
  BY <1>1, <1>2 DEF Sound
<1>4. f \in [before : Source, after : Source]
  BY <1>3 DEF Frame
<1>5. CASE f.after = f.before
  <2>1. Abstract!IsCopy(f, Len(encoded) * FactorDen)
    BY <1>1, <1>2, <1>5 DEF Abstract!IsCopy, Sound, SourceAt, OutputAt
  <2> QED
    BY <1>4, <2>1 DEF Abstract!Admissible, Abstract!Frames
<1>6. CASE f.after # f.before
  <2>1. Joined(f.before, f.after) /\ f.before < f.after
    BY <1>1, <1>6 DEF Sound
  <2>2. Abstract!Joins(f.before, f.after)
    BY <2>1 DEF Joined, Abstract!Joins, Abstract!Class, Class, scene_detection, AnimeMode
  <2>3. Abstract!IsBlend(f, Len(encoded) * FactorDen)
    BY <1>1, <1>2, <1>6, <2>1, <2>2 DEF Abstract!IsBlend, Sound, SourceAt, OutputAt
  <2> QED
    BY <1>4, <2>3 DEF Abstract!Admissible, Abstract!Frames
<1> QED
  BY <1>5, <1>6

(* Every step of the loop is a step of the abstract specification, or leaves what
   it can see as it was. *)
LEMMA StepRefines ==
  ASSUME TypeOK, TypeOK', LoopInv, LoopInv', [Next]_vars
  PROVE  [Abstract!Next]_(Abstract!vars)
<1> DEFINE pending == pc \in {"infer", "write"}
           outcome == IF result \in {"running", "ok"} THEN result ELSE "failed"
<1>0. pc # "done" => outcome = "running" /\ result = "running"
  BY DEF LoopInv, Outcome
<1>1. CASE UNCHANGED <<configuration, decoded, encoded, cancelled, outcome, pending>>
  BY <1>1 DEF Abstract!vars
<1>2. CASE /\ pc # "done" /\ pc' = "done" /\ result' \notin {"running", "ok"}
           /\ UNCHANGED <<configuration, decoded, encoded, cancelled>>
  <2>1. outcome = "running" /\ outcome' = "failed" /\ pending' = FALSE
    BY <1>0, <1>2
  <2> QED
    BY <1>2, <2>1 DEF Abstract!Next, Abstract!Fail
<1>3. CASE ReadAnchor
  <2>1. PICK picture \in Pictures : decoded' = <<picture>>
    BY <1>3 DEF ReadAnchor
  <2>2. decoded' = Append(decoded, picture)
    BY <1>3, <2>1 DEF ReadAnchor, LoopInv, Progress
  <2> QED
    BY <1>0, <1>3, <2>2 DEF ReadAnchor, Abstract!Next, Abstract!Arrive, jobVars, outputVars
<1>4. CASE ReadCandidate
  BY <1>0, <1>4 DEF ReadCandidate, MayRead, Abstract!Next, Abstract!Arrive, jobVars, outputVars
<1>5. CASE NoAnchor \/ StopAtHead \/ ReadError
  BY <1>2, <1>5 DEF NoAnchor, StopAtHead, ReadError, MayRead, Return, jobVars, outputVars
<1>6. CASE EndOfStream \/ ExtendRun
  BY <1>1, <1>6 DEF EndOfStream, MayRead, ExtendRun, jobVars, outputVars
<1>7. CASE BeginLongHold \/ ContinueLongHold \/ NewPicture
  BY <1>1, <1>7 DEF BeginLongHold, ContinueLongHold, NewPicture, WriteSpan, jobVars, loopVars,
     outputVars
<1>8. CASE StopInSpan
  <2>1. Refusal \notin {"running", "ok"}
    BY DEF Refusal
  <2> QED
    BY <1>2, <1>8, <2>1 DEF StopInSpan, Return, jobVars, outputVars
<1>9. CASE BeginOutput
  <2>1. ~cancelled
    BY <1>9 DEF BeginOutput, Refusal
  <2> QED
    BY <1>0, <1>9, <2>1 DEF BeginOutput, Abstract!Next, Abstract!Start, jobVars, outputVars
<1>10. CASE Infer
  BY <1>0, <1>1, <1>2, <1>10 DEF Infer, Return, jobVars
<1>11. CASE WriteOutput
  <2>1. outcome' \in {"running", "failed"} /\ pending' = FALSE
    BY <1>0, <1>11 DEF WriteOutput, Return
  <2> QED
    BY <1>0, <1>11, <2>1, WrittenAdmissible DEF WriteOutput, Abstract!Next, Abstract!Emit, jobVars
<1>12. CASE WriteError
  BY <1>2, <1>12 DEF WriteError, Return, jobVars, outputVars
<1>13. CASE AdvanceAnchor
  BY <1>1, <1>13 DEF AdvanceAnchor, SpanWritten, jobVars, outputVars
<1>14. CASE Finish
  <2>1. CASE output_index > 0
    <3>1. ~cancelled
      BY <1>14 DEF Finish, SpanWritten, Refusal
    <3>2. result' = "ok" /\ UNCHANGED <<configuration, cancelled, decoded, encoded>>
      BY <1>14, <2>1 DEF Finish, Return, jobVars, outputVars
    <3>3. Abstract!Complete
      BY <2>1, <3>2 DEF Abstract!Complete, LoopInv, Outcome, Progress, DurationKept, OutputAt,
         SourceAt
    <3> QED
      BY <1>0, <1>14, <3>1, <3>2, <3>3 DEF Finish, SpanWritten, Return, Abstract!Next,
         Abstract!Succeed
  <2>2. CASE ~(output_index > 0)
    BY <1>2, <1>14, <2>2 DEF Finish, SpanWritten, Return, jobVars, outputVars
  <2> QED
    BY <2>1, <2>2
<1>15. CASE Cancel
  BY <1>0, <1>15 DEF Cancel, Abstract!Next, Abstract!Cancel, outputVars
<1>16. CASE UNCHANGED vars
  BY <1>1, <1>16 DEF vars
<1> QED
  BY <1>3, <1>4, <1>5, <1>6, <1>7, <1>8, <1>9, <1>10, <1>11, <1>12, <1>13, <1>14, <1>15, <1>16
     DEF Next, Step, Returned

(* The frame loop implements Resampling: whatever the encoder receives, in
   whatever order frames arrive and fail, is a run of the specification without
   anchors, runs and intervals. *)
THEOREM LoopImplementsResampling == Spec => ResamplingSpec
<1>1. Init => Abstract!Init
  BY DEF Init, Abstract!Init
<1>2. TypeOK /\ TypeOK' /\ LoopInv /\ LoopInv' /\ [Next]_vars
        => [Abstract!Next]_(Abstract!vars)
  BY StepRefines
<1> QED
  BY <1>1, <1>2, TypeCorrect, LoopCorrect, PTL DEF Spec, ResamplingSpec, Abstract!Spec

-----------------------------------------------------------------------------
(* What the encoder received, where it stands: the outputs of closed intervals *)

(* Outputs stand in order, FactorDen apart. *)
LEMMA OutputMonotone ==
  ASSUME NEW m \in Int, NEW n \in Int, m < n
  PROVE  OutputAt(m) + FactorDen <= OutputAt(n)
<1>1. PICK k \in Nat : n = m + 1 + k
  <2>1. n - m - 1 \in Nat /\ n = m + 1 + (n - m - 1)
    OBVIOUS
  <2> QED
    BY <2>1
<1>2. k * FactorDen \in Nat
  BY FactorAssumption
<1>3. OutputAt(n) = OutputAt(m) + FactorDen + k * FactorDen
  BY <1>1, FactorAssumption DEF OutputAt
<1>4. OutputAt(m) \in Int
  BY FactorAssumption DEF OutputAt
<1> QED
  BY <1>2, <1>3, <1>4, FactorAssumption

(* Between two intervals every output that was written stands before the anchor. *)
LEMMA OutputsBeforeAnchor ==
  ASSUME TypeOK, Progress, pc \in Reading, NEW n \in 1..Len(encoded)
  PROVE  OutputAt(n - 1) < SourceAt(anchor)
<1>0. /\ anchor \in Nat /\ output_index \in Nat /\ Len(encoded) = output_index
      /\ n \in Nat /\ n - 1 < output_index
  BY DEF TypeOK, Progress
<1>1. OutputAt(n - 1) + FactorDen <= OutputAt(output_index)
  BY <1>0, OutputMonotone
<1>2. OutputAt(output_index) < SourceAt(anchor) + FactorDen
  BY DEF Progress
<1>3. /\ OutputAt(n - 1) \in Int /\ OutputAt(output_index) \in Int /\ SourceAt(anchor) \in Int
      /\ FactorDen \in Int
  BY <1>0, FactorAssumption DEF OutputAt, SourceAt
<1> QED
  BY <1>1, <1>2, <1>3

(* The frame that is written next, and the interval it stands in *)
LEMMA WrittenInSpan ==
  ASSUME TypeOK, LoopInv, pc = "write"
  PROVE  /\ anchor \in Nat /\ candidate \in Nat /\ anchor < candidate /\ candidate <= anchor + 3
         /\ Len(decoded) \in Nat
         /\ Len(decoded) = IF span.last THEN candidate ELSE candidate + 1
         /\ SourceAt(anchor) <= OutputAt(output_index)
         /\ OutputAt(output_index) < SourceAt(candidate)
  BY DEF TypeOK, LoopInv, Progress, Cadence, Writing, InSpan

(* A frame of the source stands at or after another exactly when it comes no earlier. *)
LEMMA SourceOrder ==
  ASSUME NEW i \in Nat, NEW j \in Nat
  PROVE  /\ i <= j <=> SourceAt(i) <= SourceAt(j)
         /\ SourceAt(i) \in Int
<1>1. SourceAt(i) \in Int /\ SourceAt(j) \in Int
  BY FactorAssumption DEF SourceAt
<1>2. CASE i < j
  BY <1>1, <1>2, SourceMonotone, FactorAssumption
<1>3. CASE j < i
  BY <1>1, <1>3, SourceMonotone, FactorAssumption
<1>4. CASE i = j
  BY <1>1, <1>4
<1> QED
  BY <1>1, <1>2, <1>3, <1>4

(* A step appends what WriteOutput writes, or nothing. *)
LEMMA EncodedStep ==
  ASSUME TypeOK, LoopInv, [Next]_vars
  PROVE  \/ encoded' = encoded
         \/ /\ WriteOutput
            /\ Len(encoded') = output_index + 1
            /\ Len(encoded) = output_index /\ output_index \in Nat
            /\ \A n \in 1..output_index : encoded'[n] = encoded[n]
            /\ encoded'[output_index + 1]
                 = Frame(anchor, IF Synthesized THEN candidate ELSE anchor)
<1>0. encoded \in Seq([before : Nat, after : Nat]) /\ Len(encoded) = output_index
      /\ output_index \in Nat
  BY DEF TypeOK, LoopInv, Progress
<1>1. CASE WriteOutput
  <2>1. PICK frame : /\ frame = Frame(anchor, IF Synthesized THEN candidate ELSE anchor)
                     /\ encoded' = Append(encoded, frame)
    BY <1>1 DEF WriteOutput
  <2>2. frame \in [before : Nat, after : Nat]
    BY <2>1 DEF Frame, TypeOK
  <2> QED
    BY <1>0, <1>1, <2>1, <2>2
<1>2. CASE ~WriteOutput
  BY <1>2, OnlyWriteOutputWrites
<1> QED
  BY <1>1, <1>2

(* A step reads a frame, or none.  When it reads a candidate, all outputs stand
   before the anchor. *)
LEMMA DecodedStep ==
  ASSUME TypeOK, LoopInv, [Next]_vars
  PROVE  \/ decoded' = decoded
         \/ pc = "anchor" /\ encoded = <<>> /\ encoded' = encoded
         \/ /\ pc = "head" /\ encoded' = encoded
            /\ Len(decoded) = candidate /\ Len(decoded') = candidate + 1
            /\ \A n \in 1..Len(encoded) : OutputAt(n - 1) < SourceAt(anchor)
<1>0. /\ encoded \in Seq([before : Nat, after : Nat]) /\ Len(encoded) = output_index
      /\ decoded \in Seq(Pictures)
  BY DEF TypeOK, LoopInv, Progress
<1>1. CASE ReadAnchor
  <2>1. pc = "anchor" /\ encoded' = encoded /\ Len(encoded) = 0
    BY <1>0, <1>1 DEF ReadAnchor, outputVars, LoopInv, Progress
  <2> QED
    BY <1>0, <2>1
<1>2. CASE ReadCandidate
  <2>1. pc = "head" /\ encoded' = encoded /\ Len(decoded) = candidate
    BY <1>2 DEF ReadCandidate, MayRead, outputVars, LoopInv, Progress
  <2>2. PICK picture \in Pictures : decoded' = Append(decoded, picture)
    BY <1>2 DEF ReadCandidate
  <2>3. Len(decoded') = candidate + 1
    BY <1>0, <2>1, <2>2
  <2>4. \A n \in 1..Len(encoded) : OutputAt(n - 1) < SourceAt(anchor)
    BY <2>1, OutputsBeforeAnchor DEF LoopInv, Reading
  <2> QED
    BY <2>1, <2>3, <2>4
<1>3. CASE UNCHANGED decoded
  BY <1>3
<1> QED
  BY <1>1, <1>2, <1>3 DEF Next, Step, Returned, vars, NoAnchor, StopAtHead, ReadError,
     EndOfStream, ExtendRun, BeginLongHold, ContinueLongHold, NewPicture, StopInSpan,
     BeginOutput, Infer, WriteOutput, WriteError, AdvanceAnchor, Finish, Cancel

(* Without cadence analysis intervals join neighbours, so an output that stands
   on a source frame stands on the anchor and is copied. *)
LEMMA WrittenKeepsSource ==
  ASSUME TypeOK, LoopInv, pc = "write", ~AnimeMode, NEW i \in Nat,
         OutputAt(output_index) = SourceAt(i)
  PROVE  Frame(anchor, IF Synthesized THEN candidate ELSE anchor) = Frame(i, i)
<1>1. candidate = anchor + 1 /\ anchor \in Nat
  BY WrittenInSpan DEF LoopInv, Cadence
<1>2. anchor <= i /\ ~(candidate <= i)
  BY <1>1, WrittenInSpan, SourceOrder
<1>3. i = anchor
  BY <1>1, <1>2
<1>4. relative_scaled = 0
  BY <1>1, <1>3, SourceOrder DEF relative_scaled
<1> QED
  BY <1>3, <1>4 DEF Synthesized

(* Neither an output nor a frame that is read breaks this. *)
LEMMA SourceFramesStep ==
  ASSUME TypeOK, LoopInv, SourceFramesKept, [Next]_vars
  PROVE  SourceFramesKept'
<1> SUFFICES ASSUME ~AnimeMode, NEW n \in 1..Len(encoded'), NEW i \in 0..(Len(decoded') - 1),
                    OutputAt(n - 1) = SourceAt(i)
             PROVE  encoded'[n] = Frame(i, i)
  BY ConfigurationKept DEF SourceFramesKept, AnimeMode, Frame, OutputAt, SourceAt
<1>0. /\ Len(encoded) \in Nat /\ Len(encoded') \in Nat /\ i \in Nat /\ n \in Nat
      /\ anchor \in Nat /\ candidate \in Nat /\ anchor < candidate
      /\ output_index \in Nat /\ Len(encoded) = output_index
      /\ pc = "anchor" => output_index = 0
  BY DEF TypeOK, LoopInv, Progress
<1>1. CASE encoded' = encoded /\ decoded' = decoded
  BY <1>1 DEF SourceFramesKept
<1>2. CASE WriteOutput
  <2>1. decoded' = decoded /\ pc = "write"
    BY <1>2 DEF WriteOutput
  <2>2. CASE n \in 1..Len(encoded)
    BY <1>2, <2>1, <2>2, EncodedStep DEF SourceFramesKept
  <2>3. CASE n = output_index + 1
    <3>1. n - 1 = output_index
      BY <1>0, <2>3
    <3>2. encoded'[n] = Frame(anchor, IF Synthesized THEN candidate ELSE anchor)
      BY <1>0, <1>2, <2>3, EncodedStep
    <3> QED
      BY <1>0, <2>1, <3>1, <3>2, WrittenKeepsSource
  <2> QED
    BY <1>0, <1>2, <2>2, <2>3, EncodedStep
<1>3. CASE pc = "head" /\ decoded' # decoded
  <2>1. /\ encoded' = encoded /\ Len(decoded) = candidate /\ Len(decoded') = candidate + 1
        /\ OutputAt(n - 1) < SourceAt(anchor)
    BY <1>3, DecodedStep
  <2>2. i < anchor
    BY <1>0, <2>1, SourceOrder, SMTT(30)
  <2> QED
    BY <1>0, <2>1, <2>2 DEF SourceFramesKept
<1>4. CASE pc = "anchor"
  <2>1. encoded' = encoded
    BY <1>4, EncodedStep DEF WriteOutput
  <2> QED
    BY <1>0, <1>4, <2>1
<1> QED
  BY <1>1, <1>2, <1>3, <1>4, EncodedStep, DecodedStep

(* Without cadence analysis no source frame that an output stands on is lost or
   blended. *)
THEOREM SourceFramesAreKept == Spec => []SourceFramesKept
<1>1. Init => SourceFramesKept
  BY DEF Init, SourceFramesKept
<1>2. TypeOK /\ LoopInv /\ SourceFramesKept /\ [Next]_vars => SourceFramesKept'
  BY SourceFramesStep
<1> QED
  BY <1>1, <1>2, TypeCorrect, LoopCorrect, PTL DEF Spec

(* Once the flag is set, no output is started. *)
THEOREM CancellationStopsOutput == Spec => NothingStartedAfterCancel
<1>1. [Next]_vars => [cancelled /\ pc' \in {"infer", "write"} => pc \in {"infer", "write"}]_vars
  <2> SUFFICES ASSUME Next, cancelled, pc' \in {"infer", "write"}
               PROVE  pc \in {"infer", "write"}
    OBVIOUS
  <2>1. ~BeginOutput
    BY DEF BeginOutput, Refusal
  <2> QED
    BY <2>1 DEF Next, Step, Returned, vars, ReadAnchor, NoAnchor, StopAtHead, ReadCandidate,
     ReadError, EndOfStream, ExtendRun, BeginLongHold, ContinueLongHold, NewPicture, StopInSpan,
     Infer, WriteOutput, WriteError, AdvanceAnchor, Finish, Cancel, Return, WriteSpan
<1> QED
  BY <1>1, PTL DEF Spec, NothingStartedAfterCancel

-----------------------------------------------------------------------------
(* Long holds.  A drawing entered from a different picture is held from frame i  *)
(* on, at least up to frame j.  Holding says what the loop knows of the hold its  *)
(* anchor stands in: it is the first frame, or the fourth or a later one, and     *)
(* preserving_long_hold tells which.                                              *)

Holding ==
  /\ pc \notin {"anchor", "done"} =>
       /\ \A i \in 0..(anchor - 1) : Held(i, anchor) => preserving /\ i + 3 <= anchor
       /\ preserving => /\ candidate = anchor + 1
                        /\ \E e \in 0..(anchor - 1) : Class(e, anchor) = "duplicate"
  /\ pc = "anchor" => ~preserving
  /\ pc \in Writing /\ ~span.last =>
       /\ span.hold <=> confident_duplicate
       /\ confident_duplicate /\ ~preserving => candidate = anchor + 3

(* Whether frames that were read are a hold never changes. *)
LEMMA HeldKept ==
  ASSUME TypeOK, [Next]_vars, pc # "anchor", NEW i \in Nat, NEW j \in Nat, i <= j,
  j < Len(decoded)
  PROVE  Held(i, j)' <=> Held(i, j)
<1>1. \A k \in 0..j, l \in 0..j : Class(k, l)' = Class(k, l)
  BY ClassKept DEF TypeOK
<1>2. AnimeMode' = AnimeMode
  BY ConfigurationKept DEF AnimeMode
<1>3. /\ \A k, l \in i..j : Class(k, l)' = Class(k, l)
      /\ \A k \in i..j, e \in 0..(i - 1) : Class(e, k)' = Class(e, k)
  BY <1>1
<1> QED
  BY <1>2, <1>3 DEF Held

(* The first frames of a hold are held too. *)
LEMMA HeldPart ==
  ASSUME NEW i \in Nat, NEW j \in Nat, NEW k \in Nat, i <= k, k <= j
  PROVE  /\ Held(i, j) => Held(i, k)
         /\ Held(i, j)' => Held(i, k)'
  BY DEF Held

(* No anchor steps over the first frame of a hold: the frames it passes over are
   copies of the anchor, and the first frame of a hold is a copy of none before. *)
LEMMA HoldEntered ==
  ASSUME TypeOK, LoopInv, pc \notin {"anchor", "done"}, NEW i \in Nat, NEW j \in Nat,
         Held(i, j), i <= j, anchor < i
  PROVE  candidate <= i
<1>0. anchor \in Nat /\ candidate \in Nat
  BY DEF TypeOK
<1>1. Class(anchor, i) # "duplicate"
  BY <1>0 DEF Held
<1> QED
  BY <1>0, <1>1 DEF LoopInv, Cadence

(* When the anchor moves on inside a hold, three frames of it have gone by. *)
LEMMA HoldingAdvance ==
  ASSUME TypeOK, LoopInv, Holding, AdvanceAnchor
  PROVE  Holding'
<1>0. /\ anchor \in Nat /\ candidate \in Nat /\ anchor < candidate /\ candidate <= anchor + 3
      /\ pc = "span" /\ ~span.last /\ pc' = "head"
      /\ anchor' = candidate /\ candidate' = candidate + 1 /\ preserving' = span.hold
      /\ UNCHANGED <<decoded, configuration>>
  BY DEF TypeOK, LoopInv, Progress, Cadence, AdvanceAnchor, SpanWritten, jobVars
<1>1. ASSUME NEW i \in 0..(candidate - 1), Held(i, candidate)
      PROVE  span.hold /\ i + 3 <= candidate
  <2>1. i <= anchor
    BY <1>0, <1>1, HoldEntered
  <2>2. confident_duplicate
    BY <1>0, <1>1, <2>1 DEF Held, confident_duplicate
  <2>3. span.hold
    BY <1>0, <2>2 DEF Holding, Writing
  <2>4. CASE preserving
    <3>1. candidate = anchor + 1
      BY <1>0, <2>4 DEF Holding
    <3>2. i # anchor
      BY <1>0, <1>1, <2>4 DEF Holding, Held
    <3>3. Held(i, anchor)
      BY <1>0, <1>1, <2>1, HeldPart
    <3> QED
      BY <1>0, <2>1, <2>3, <3>1, <3>2, <3>3 DEF Holding
  <2>5. CASE ~preserving
    <3>1. candidate = anchor + 3
      BY <1>0, <2>2, <2>5 DEF Holding, Writing
    <3> QED
      BY <1>0, <2>1, <2>3, <3>1
  <2> QED
    BY <2>4, <2>5
<1>2. span.hold => Class(anchor, candidate) = "duplicate"
  BY <1>0 DEF Holding, Writing, confident_duplicate
<1>3. \A i, j : Held(i, j)' <=> Held(i, j)
  BY <1>0 DEF Held, Class, AnimeMode
<1> QED
  BY <1>0, <1>1, <1>2, <1>3, SMTT(30) DEF Holding, Writing, Class

(* Every step keeps track of the hold the anchor stands in. *)
LEMMA HoldingStep ==
  ASSUME TypeOK, LoopInv, Holding, [Next]_vars
  PROVE  Holding'
<1>0. /\ anchor \in Nat /\ candidate \in Nat /\ anchor < candidate /\ Len(decoded) \in Nat
      /\ pc \in Reading \cup Writing => anchor < Len(decoded)
  BY DEF TypeOK, LoopInv, Progress, Reading, Writing
<1>1. CASE ReadAnchor
  BY <1>1 DEF ReadAnchor, LoopInv, Progress, Holding, Writing, loopVars
<1>2. CASE AdvanceAnchor
  BY <1>2, HoldingAdvance
<1>3. CASE pc' = "done"
  BY <1>3 DEF Holding, Writing
<1>4. ASSUME pc \notin {"anchor", "done"}, UNCHANGED anchor, UNCHANGED preserving
      PROVE  /\ \A i \in 0..(anchor - 1) : Held(i, anchor)' => preserving /\ i + 3 <= anchor
             /\ preserving => \E e \in 0..(anchor - 1) : Class(e, anchor)' = "duplicate"
  <2>1. anchor < Len(decoded)
    BY <1>0, <1>4 DEF Reading, Writing, TypeOK
  <2>2. \A i \in 0..(anchor - 1) : Held(i, anchor)' <=> Held(i, anchor)
    BY <1>0, <1>4, <2>1, HeldKept
  <2>3. \A e \in 0..(anchor - 1) : Class(e, anchor)' = Class(e, anchor)
    BY <1>0, <1>4, <2>1, ClassKept
  <2> QED
    BY <1>4, <2>2, <2>3 DEF Holding
<1>5. CASE pc = "anchor" /\ UNCHANGED <<pc, preserving>>
  BY <1>5 DEF Holding, Writing
<1>6. ASSUME pc \notin {"anchor", "done"}, UNCHANGED <<anchor, preserving>>,
             preserving => candidate' = candidate,
             pc' \in Writing /\ ~span'.last =>
               /\ span'.hold <=> confident_duplicate'
               /\ confident_duplicate' /\ ~preserving => candidate' = anchor + 3
      PROVE  Holding'
  <2>1. pc' # "anchor"
    BY <1>6 DEF Next, Step, Returned, vars, ReadAnchor, NoAnchor, StopAtHead, ReadCandidate,
       ReadError, EndOfStream, ExtendRun, BeginLongHold, ContinueLongHold, NewPicture, StopInSpan,
       BeginOutput, Infer, WriteOutput, WriteError, AdvanceAnchor, Finish, Cancel, Return,
       WriteSpan
  <2> QED
    BY <1>4, <1>6, <2>1 DEF Holding
<1>7. CASE ReadCandidate
  BY <1>6, <1>7 DEF ReadCandidate, MayRead, loopVars, Writing
<1>8. CASE EndOfStream
  BY <1>6, <1>8 DEF EndOfStream, MayRead, loopVars
<1>9. CASE ExtendRun
  BY <1>6, <1>9 DEF ExtendRun, Writing
<1>10. CASE BeginLongHold
  <2>1. run = candidate - anchor /\ candidate <= anchor + 3
    BY <1>10 DEF BeginLongHold, LoopInv, Cadence, Reading
  <2>2. candidate = anchor + 3
    BY <1>0, <1>10, <2>1 DEF BeginLongHold, is_smoothable_cadence_run
  <2> QED
    BY <1>6, <1>10, <2>2 DEF BeginLongHold, WriteSpan, confident_duplicate, AnimeMode, Class,
       jobVars
<1>11. CASE ContinueLongHold
  BY <1>6, <1>11 DEF ContinueLongHold, WriteSpan, confident_duplicate, AnimeMode, Class, jobVars,
     loopVars
<1>12. CASE NewPicture
  BY <1>6, <1>12 DEF NewPicture, WriteSpan, confident_duplicate, AnimeMode, Class, jobVars,
     loopVars
<1>13. CASE BeginOutput \/ Infer \/ WriteOutput
  <2>1. /\ pc \in Writing /\ pc' \in Writing \cup {"done"}
        /\ UNCHANGED <<configuration, decoded, anchor, candidate, preserving, span>>
    BY <1>13 DEF BeginOutput, Infer, WriteOutput, Return, Writing, jobVars, loopVars
  <2> QED
    BY <1>3, <1>6, <2>1 DEF Holding, Writing, confident_duplicate, AnimeMode, Class
<1>14. CASE Cancel
  <2>1. UNCHANGED <<configuration, pc, decoded, anchor, candidate, preserving, span>>
    BY <1>14 DEF Cancel, loopVars
  <2> QED
    BY <1>3, <1>5, <1>6, <2>1 DEF Holding, Writing, confident_duplicate, AnimeMode, Class
<1>15. CASE UNCHANGED vars
  <2>1. UNCHANGED <<configuration, pc, decoded, anchor, candidate, preserving, span>>
    BY <1>15 DEF vars, loopVars, jobVars
  <2> QED
    BY <1>3, <1>5, <1>6, <2>1 DEF Holding, Writing, confident_duplicate, AnimeMode, Class
<1>16. CASE NoAnchor \/ StopAtHead \/ ReadError \/ StopInSpan \/ WriteError \/ Finish
  BY <1>3, <1>16 DEF NoAnchor, StopAtHead, ReadError, StopInSpan, WriteError, Finish, Return
<1> QED
  BY <1>1, <1>2, <1>7, <1>8, <1>9, <1>10, <1>11, <1>12, <1>13, <1>14, <1>15, <1>16
     DEF Next, Step, Returned

(* The output that is written inside a hold copies one of its frames. *)
LEMMA WrittenKeepsHold ==
  ASSUME TypeOK, LoopInv, Holding, pc = "write", NEW i \in Nat, NEW j \in Nat, LongHold(i, j),
         j < Len(decoded),
         SourceAt(i) <= OutputAt(output_index), OutputAt(output_index) < SourceAt(j)
  PROVE  anchor \in i..j /\ ~Synthesized
<1>0. /\ anchor \in Nat /\ candidate \in Nat /\ anchor < candidate /\ candidate <= anchor + 3
      /\ Len(decoded) = IF span.last THEN candidate ELSE candidate + 1
      /\ Held(i, j) /\ i + 3 <= j
  BY WrittenInSpan DEF LongHold
<1>1. i < candidate /\ anchor < j
  <2>1. /\ OutputAt(output_index) \in Int /\ SourceAt(i) \in Int /\ SourceAt(j) \in Int
        /\ SourceAt(anchor) \in Int /\ SourceAt(candidate) \in Int
    <3>1. output_index \in Nat
      BY DEF TypeOK
    <3> QED
      BY <1>0, <3>1, FactorAssumption DEF OutputAt, SourceAt
  <2>2. ~(SourceAt(candidate) <= SourceAt(i)) /\ ~(SourceAt(j) <= SourceAt(anchor))
    BY <2>1, WrittenInSpan
  <2> QED
    BY <1>0, <2>2, SourceOrder
<1>2. i <= anchor
  BY <1>0, <1>1, HoldEntered
<1>3. ASSUME Synthesized PROVE FALSE
  <2>1. span.interpolate /\ ~span.last /\ ~confident_duplicate
    BY <1>3 DEF Synthesized, LoopInv, Decided, Writing
  <2>2. candidate > j
    BY <1>0, <1>2, <2>1 DEF Held, confident_duplicate
  <2>3. anchor > i
    BY <1>0, <1>2, <2>2
  <2>4. Held(i, anchor)
    BY <1>0, <1>1, <1>2, HeldPart
  <2>5. preserving /\ candidate = anchor + 1
    BY <1>0, <2>3, <2>4 DEF Holding
  <2> QED
    BY <1>0, <1>1, <2>2, <2>5
<1> QED
  BY <1>0, <1>1, <1>2, <1>3

(* The lengths and indices, now and after a step *)
LEMMA TypedLengths ==
  /\ TypeOK => /\ Len(encoded) \in Nat /\ Len(decoded) \in Nat /\ output_index \in Nat
               /\ anchor \in Nat /\ candidate \in Nat
  /\ TypeOK' => Len(encoded') \in Nat /\ Len(decoded') \in Nat
  BY DEF TypeOK

(* Neither an output nor a frame that is read breaks a long hold. *)
LEMMA LongHoldsStep ==
  ASSUME TypeOK, TypeOK', LoopInv, Holding, LongHoldsKept, [Next]_vars
  PROVE  LongHoldsKept'
<1> SUFFICES ASSUME NEW i \in 0..(Len(decoded') - 1), NEW j \in 0..(Len(decoded') - 1),
                    LongHold(i, j)', NEW n \in 1..Len(encoded'),
                    SourceAt(i) <= OutputAt(n - 1), OutputAt(n - 1) < SourceAt(j)
             PROVE  encoded'[n].before = encoded'[n].after /\ encoded'[n].before \in i..j
  BY DEF LongHoldsKept, OutputAt, SourceAt
<1>0. /\ Len(encoded) \in Nat /\ Len(encoded') \in Nat /\ Len(decoded) \in Nat
      /\ Len(decoded') \in Nat /\ i \in Nat /\ j \in Nat /\ n \in Nat
      /\ anchor \in Nat /\ candidate \in Nat /\ anchor < candidate
      /\ output_index \in Nat /\ Len(encoded) = output_index
      /\ pc = "anchor" => output_index = 0
      /\ i + 3 <= j
  <2>1. /\ Len(encoded) \in Nat /\ Len(decoded) \in Nat /\ output_index \in Nat
        /\ anchor \in Nat /\ candidate \in Nat
    BY TypedLengths
  <2>2. Len(encoded') \in Nat /\ Len(decoded') \in Nat
    BY TypedLengths
  <2>3. /\ anchor < candidate /\ Len(encoded) = output_index
        /\ pc = "anchor" => output_index = 0
    BY DEF LoopInv, Progress
  <2> QED
    BY <2>1, <2>2, <2>3 DEF LongHold
<1>1. CASE pc = "anchor"
  <2>1. encoded' = encoded
    BY <1>1, EncodedStep DEF WriteOutput
  <2> QED
    BY <1>0, <1>1, <2>1
<1>2. ASSUME pc # "anchor", j < Len(decoded) PROVE LongHold(i, j)
  BY <1>0, <1>2, HeldKept DEF LongHold
<1>3. CASE pc # "anchor" /\ encoded' = encoded /\ decoded' = decoded
  BY <1>0, <1>2, <1>3 DEF LongHoldsKept
<1>4. CASE WriteOutput
  <2>1. decoded' = decoded /\ pc = "write"
    BY <1>4 DEF WriteOutput
  <2>2. CASE n \in 1..Len(encoded)
    BY <1>0, <1>2, <1>4, <2>1, <2>2, EncodedStep DEF LongHoldsKept
  <2>3. CASE n = output_index + 1
    <3>1. n - 1 = output_index
      BY <1>0, <2>3
    <3>2. encoded'[n] = Frame(anchor, IF Synthesized THEN candidate ELSE anchor)
      BY <1>0, <1>4, <2>3, EncodedStep
    <3>3. anchor \in i..j /\ ~Synthesized
      BY <1>0, <1>2, <2>1, <3>1, WrittenKeepsHold
    <3> QED
      BY <3>2, <3>3 DEF Frame
  <2> QED
    BY <1>0, <1>4, <2>2, <2>3, EncodedStep
<1>5. CASE pc = "head" /\ decoded' # decoded
  <2>1. /\ encoded' = encoded /\ Len(decoded) = candidate /\ Len(decoded') = candidate + 1
        /\ OutputAt(n - 1) < SourceAt(anchor)
    BY <1>5, DecodedStep
  <2>2. CASE j < Len(decoded)
    BY <1>0, <1>2, <1>5, <2>1, <2>2 DEF LongHoldsKept
  <2>3. CASE j = candidate
    <3>1. i < anchor
      <4>1. OutputAt(n - 1) \in Int /\ SourceAt(i) \in Int /\ SourceAt(anchor) \in Int
        BY <1>0, FactorAssumption DEF OutputAt, SourceAt
      <4>2. ~(SourceAt(anchor) <= SourceAt(i))
        BY <2>1, <4>1
      <4> QED
        BY <1>0, <4>2, SourceOrder
    <3>2. PICK a \in Nat : a = anchor
      BY <1>0
    <3>3. Held(i, a)'
      BY <1>0, <2>3, <3>1, <3>2, HeldPart DEF LongHold
    <3>4. Held(i, a)
      BY <1>0, <1>5, <2>1, <3>1, <3>2, <3>3, HeldKept
    <3>5. LongHold(i, anchor)
      BY <1>0, <1>5, <3>1, <3>2, <3>4 DEF Holding, LongHold
    <3> QED
      BY <1>0, <2>1, <2>3, <3>1, <3>5 DEF LongHoldsKept
  <2> QED
    BY <1>0, <2>1, <2>2, <2>3
<1> QED
  BY <1>1, <1>3, <1>4, <1>5, EncodedStep, DecodedStep

(* The loop always knows which long hold its anchor stands in. *)
THEOREM HoldsAreTracked == Spec => []Holding
<1>1. Init => Holding
  BY DEF Init, Holding, Writing
<1>2. TypeOK /\ LoopInv /\ Holding /\ [Next]_vars => Holding'
  BY HoldingStep
<1> QED
  BY <1>1, <1>2, TypeCorrect, LoopCorrect, PTL DEF Spec

(* A drawing held for four frames or more is left alone, wherever its outputs
   fall and however reading and writing interleave. *)
THEOREM LongHoldsAreKept == Spec => []LongHoldsKept
<1>1. Init => LongHoldsKept
  BY DEF Init, LongHoldsKept
<1>2. TypeOK /\ TypeOK' /\ LoopInv /\ Holding /\ LongHoldsKept /\ [Next]_vars => LongHoldsKept'
  BY LongHoldsStep
<1> QED
  BY <1>1, <1>2, TypeCorrect, LoopCorrect, HoldsAreTracked, PTL DEF Spec

-----------------------------------------------------------------------------
(* Counters.  Pending is what a run that is still read has counted, Tallied how  *)
(* the diagnostics keep up with it and with the frames that were read.           *)

RunsTallied ==
  diagnostics.runs + 3 * diagnostics.holds
    + (IF pc \in Reading \cup {"anchor"} /\ ~preserving THEN run - 1 ELSE 0)
    <= diagnostics.duplicates

FramesTallied ==
  /\ pc = "anchor" => diagnostics.duplicates + diagnostics.cuts = 0
  /\ pc \notin {"anchor", "done"} =>
       diagnostics.duplicates + diagnostics.cuts
         + (IF pc = "compare" THEN 1 ELSE 0) < Len(decoded)
  /\ diagnostics.duplicates + diagnostics.cuts < Len(decoded) \/ decoded = <<>>

Tallied == RunsTallied /\ FramesTallied

Blends == {n \in 1..Len(encoded) : encoded[n].before # encoded[n].after}
Bypasses == {n \in 1..Len(encoded) : /\ encoded[n].before = encoded[n].after
                                     /\ OutputAt(n - 1) # SourceAt(encoded[n].before)}

(* An inference that was made and whose frame was not written *)
Unwritten ==
  \/ pc = "write" /\ Synthesized
  \/ result = "encode_error" /\ Synthesized
  \/ result = "inference_error"

Counted ==
  /\ inferences = Cardinality(Blends) + IF Unwritten THEN 1 ELSE 0
  /\ diagnostics.bypassed = Cardinality(Bypasses)
  /\ pc = "infer" => Synthesized

(* The counters are natural numbers. *)
LEMMA DiagnosticsTypes ==
  ASSUME TypeOK
  PROVE  /\ diagnostics.duplicates \in Nat /\ diagnostics.runs \in Nat
         /\ diagnostics.holds \in Nat /\ diagnostics.cuts \in Nat
         /\ diagnostics.bypassed \in Nat
  BY DEF TypeOK, Diagnostics

(* The counters the cadence decisions change *)
LEMMA TalliedStep ==
  ASSUME TypeOK, LoopInv, Holding, Tallied, [Next]_vars
  PROVE  Tallied'
<1>0. /\ anchor \in Nat /\ candidate \in Nat /\ run \in Nat /\ Len(decoded) \in Nat
      /\ decoded \in Seq(Pictures)
      /\ diagnostics.duplicates \in Nat /\ diagnostics.runs \in Nat
      /\ diagnostics.holds \in Nat /\ diagnostics.cuts \in Nat
      /\ diagnostics \in Diagnostics
  BY DiagnosticsTypes DEF TypeOK
<1>1. CASE ReadAnchor
  <2>1. Len(decoded') = 1
    BY <1>1 DEF ReadAnchor
  <2> QED
    BY <1>0, <1>1, <2>1 DEF ReadAnchor, Tallied, RunsTallied, FramesTallied, loopVars, Reading
<1>2. CASE ReadCandidate
  <2>1. Len(decoded') = Len(decoded) + 1
    BY <1>0, <1>2 DEF ReadCandidate
  <2> QED
    BY <1>0, <1>2, <2>1 DEF ReadCandidate, MayRead, Tallied, RunsTallied, FramesTallied,
       loopVars, Reading
<1>3. CASE ExtendRun
  <2>1. /\ diagnostics'.duplicates = diagnostics.duplicates + 1
        /\ diagnostics'.runs = diagnostics.runs /\ diagnostics'.holds = diagnostics.holds
        /\ diagnostics'.cuts = diagnostics.cuts
    BY <1>0, <1>3 DEF ExtendRun, Diagnostics
  <2>2. /\ pc = "compare" /\ pc' = "head" /\ ~preserving /\ run' = run + 1
        /\ UNCHANGED <<decoded, preserving>>
    BY <1>3 DEF ExtendRun
  <2> QED
    <3>1. /\ diagnostics.runs + 3 * diagnostics.holds + (run - 1) <= diagnostics.duplicates
          /\ diagnostics.duplicates + diagnostics.cuts + 1 < Len(decoded)
      BY <2>2 DEF Tallied, RunsTallied, FramesTallied, Reading
    <3>2. diagnostics'.runs + 3 * diagnostics'.holds + (run' - 1) <= diagnostics'.duplicates
      BY <1>0, <2>1, <2>2, <3>1, SMTT(30)
    <3>3. diagnostics'.duplicates + diagnostics'.cuts < Len(decoded')
      BY <1>0, <2>1, <2>2, <3>1, SMTT(30)
    <3> QED
      <4>1. RunsTallied'
        BY <2>2, <3>2 DEF RunsTallied, Reading
      <4>2. FramesTallied'
        BY <1>0, <2>1, <2>2, <3>3 DEF FramesTallied
      <4> QED
        BY <4>1, <4>2 DEF Tallied
<1>4. CASE BeginLongHold
  <2>1. /\ diagnostics'.duplicates = diagnostics.duplicates + 1
        /\ diagnostics'.runs = diagnostics.runs /\ diagnostics'.holds = diagnostics.holds + 1
        /\ diagnostics'.cuts = diagnostics.cuts
    BY <1>0, <1>4 DEF BeginLongHold, Diagnostics
  <2>2. run = 3
    <3>1. run = candidate - anchor /\ candidate <= anchor + 3 /\ anchor < candidate
      BY <1>4 DEF BeginLongHold, LoopInv, Progress, Cadence, Reading
    <3> QED
      BY <1>0, <1>4, <3>1 DEF BeginLongHold, is_smoothable_cadence_run
  <2>3. pc = "compare" /\ pc' = "span" /\ ~preserving /\ UNCHANGED decoded
    BY <1>4 DEF BeginLongHold, WriteSpan
  <2> QED
    <3>1. /\ diagnostics.runs + 3 * diagnostics.holds + 2 <= diagnostics.duplicates
          /\ diagnostics.duplicates + diagnostics.cuts + 1 < Len(decoded)
      BY <2>2, <2>3 DEF Tallied, RunsTallied, FramesTallied, Reading
    <3>2. diagnostics'.runs + 3 * diagnostics'.holds <= diagnostics'.duplicates
      BY <1>0, <2>1, <2>3, <3>1, SMTT(30)
    <3>3. diagnostics'.duplicates + diagnostics'.cuts < Len(decoded')
      BY <1>0, <2>1, <2>3, <3>1, SMTT(30)
    <3>4. RunsTallied'
      BY <1>0, <2>1, <2>3, <3>2 DEF RunsTallied, Reading
    <3>5. FramesTallied'
      BY <1>0, <2>1, <2>3, <3>3 DEF FramesTallied
    <3> QED
      BY <3>4, <3>5 DEF Tallied
<1>5. CASE ContinueLongHold
  <2>1. /\ diagnostics'.duplicates = diagnostics.duplicates + 1
        /\ diagnostics'.runs = diagnostics.runs /\ diagnostics'.holds = diagnostics.holds
        /\ diagnostics'.cuts = diagnostics.cuts
    BY <1>0, <1>5 DEF ContinueLongHold, Diagnostics
  <2>2. pc = "compare" /\ pc' = "span" /\ preserving /\ UNCHANGED decoded
    BY <1>5 DEF ContinueLongHold, WriteSpan
  <2> QED
    BY <1>0, <2>1, <2>2, SMTT(30) DEF Tallied, RunsTallied, FramesTallied, Reading
<1>6. CASE NewPicture
  <2>1. /\ diagnostics'.duplicates = diagnostics.duplicates
        /\ diagnostics'.holds = diagnostics.holds
        /\ diagnostics'.cuts \in {diagnostics.cuts, diagnostics.cuts + 1}
        /\ \/ diagnostics'.runs = diagnostics.runs
           \/ diagnostics'.runs = diagnostics.runs + 1 /\ ~preserving /\ run \in 2..3
    BY <1>0, <1>6 DEF NewPicture, Diagnostics, is_smoothable_cadence_run
  <2>2. run >= 1
    BY <1>0, <1>6 DEF NewPicture, LoopInv, Progress, Cadence, Reading
  <2>3. pc = "compare" /\ pc' = "span" /\ UNCHANGED decoded
    BY <1>6 DEF NewPicture, WriteSpan
  <2> QED
    <3>1. /\ diagnostics.runs + 3 * diagnostics.holds
               + (IF preserving THEN 0 ELSE run - 1) <= diagnostics.duplicates
          /\ diagnostics.duplicates + diagnostics.cuts + 1 < Len(decoded)
      BY <1>0, <2>3 DEF Tallied, RunsTallied, FramesTallied, Reading
    <3>2. diagnostics'.runs + 3 * diagnostics'.holds <= diagnostics'.duplicates
      BY <1>0, <2>1, <2>2, <2>3, <3>1, SMTT(30)
    <3>3. diagnostics'.duplicates + diagnostics'.cuts < Len(decoded')
      BY <1>0, <2>1, <2>2, <2>3, <3>1, SMTT(30)
    <3>4. RunsTallied'
      BY <1>0, <2>1, <2>3, <3>2 DEF RunsTallied, Reading
    <3>5. FramesTallied'
      BY <1>0, <2>1, <2>3, <3>3 DEF FramesTallied
    <3> QED
      BY <3>4, <3>5 DEF Tallied
<1>7. CASE WriteOutput
  <2>1. /\ diagnostics'.duplicates = diagnostics.duplicates
        /\ diagnostics'.runs = diagnostics.runs /\ diagnostics'.holds = diagnostics.holds
        /\ diagnostics'.cuts = diagnostics.cuts
    BY <1>0, <1>7 DEF WriteOutput, Diagnostics
  <2> QED
    BY <1>0, <1>7, <2>1 DEF WriteOutput, Return, Tallied, RunsTallied, FramesTallied, Reading,
       loopVars
<1>8. CASE AdvanceAnchor
  BY <1>0, <1>8 DEF AdvanceAnchor, SpanWritten, Tallied, RunsTallied, FramesTallied, Reading
<1>9. CASE /\ UNCHANGED <<decoded, diagnostics>>
           /\ pc' = "done"
  <2>1. run >= 1 \/ pc \notin Reading \cup {"anchor"}
    BY <1>0 DEF LoopInv, Progress, Cadence
  <2> QED
    BY <1>0, <1>9, <2>1 DEF Tallied, RunsTallied, FramesTallied, Reading
<1>10. CASE NoAnchor \/ StopAtHead \/ ReadError \/ StopInSpan \/ WriteError \/ Finish
  BY <1>9, <1>10 DEF NoAnchor, StopAtHead, ReadError, StopInSpan, WriteError, Finish,
     SpanWritten, Return
<1>11. CASE EndOfStream
  <2>1. run >= 1
    BY <1>0, <1>11 DEF EndOfStream, MayRead, LoopInv, Progress, Cadence, Reading
  <2> QED
    BY <1>0, <1>11, <2>1 DEF EndOfStream, MayRead, Tallied, RunsTallied, FramesTallied, Reading,
       loopVars
<1>12. CASE BeginOutput \/ Infer
  BY <1>0, <1>12 DEF BeginOutput, Infer, Return, Tallied, RunsTallied, FramesTallied, Reading,
     loopVars
<1>13. CASE Cancel \/ UNCHANGED vars
  <2>1. UNCHANGED <<pc, decoded, run, preserving, diagnostics>>
    BY <1>13 DEF Cancel, vars, loopVars
  <2> QED
    BY <1>0, <2>1 DEF Tallied, RunsTallied, FramesTallied
<1> QED
  BY <1>1, <1>2, <1>3, <1>4, <1>5, <1>6, <1>7, <1>8, <1>10, <1>11, <1>12, <1>13
  DEF Next, Step, Returned

(* The sets that are counted are finite. *)
LEMMA CountsFinite ==
  ASSUME TypeOK
  PROVE  IsFiniteSet(Blends) /\ IsFiniteSet(Bypasses)
<1>1. IsFiniteSet(1..Len(encoded))
  BY FS_Interval DEF TypeOK
<1> QED
  BY <1>1, FS_Subset DEF Blends, Bypasses

(* The frame that is written joins the set it is counted in. *)
LEMMA CountsGrow ==
  ASSUME TypeOK, LoopInv, [Next]_vars, WriteOutput
  PROVE  LET n == output_index + 1
         IN  /\ Blends' = IF Synthesized THEN Blends \cup {n} ELSE Blends
             /\ Bypasses' = IF ~Synthesized /\ relative_scaled > 0
                            THEN Bypasses \cup {n} ELSE Bypasses
             /\ n \notin Blends /\ n \notin Bypasses
<1> DEFINE n == output_index + 1
<1>0. /\ output_index \in Nat /\ Len(encoded) = output_index /\ Len(encoded') = n
      /\ \A m \in 1..output_index : encoded'[m] = encoded[m]
      /\ encoded'[n] = Frame(anchor, IF Synthesized THEN candidate ELSE anchor)
  <2>1. output_index \in Nat /\ Len(encoded) = output_index
    BY DEF TypeOK, LoopInv, Progress
  <2>2. encoded' # encoded
    BY <2>1 DEF WriteOutput, TypeOK
  <2> QED
    BY <2>1, <2>2, EncodedStep
<1>1. anchor \in Nat /\ candidate \in Nat /\ anchor # candidate
      /\ SourceAt(anchor) <= OutputAt(output_index)
  BY WrittenInSpan DEF WriteOutput
<1>2. relative_scaled > 0 <=> OutputAt(n - 1) # SourceAt(anchor)
  <2>1. n - 1 = output_index
    BY <1>0
  <2>2. OutputAt(output_index) \in Int /\ SourceAt(anchor) \in Int
    BY <1>0, <1>1, FactorAssumption DEF OutputAt, SourceAt
  <2> QED
    BY <1>1, <2>1, <2>2 DEF relative_scaled
<1>3. n \notin Blends /\ n \notin Bypasses
  BY <1>0 DEF Blends, Bypasses
<1>4. 1..n = (1..output_index) \cup {n}
  BY <1>0
<1> HIDE DEF n
<1>5. encoded'[n].before = anchor
      /\ encoded'[n].after = IF Synthesized THEN candidate ELSE anchor
  BY <1>0 DEF Frame
<1>6. Blends' = IF Synthesized THEN Blends \cup {n} ELSE Blends
  BY <1>0, <1>1, <1>4, <1>5 DEF Blends
<1>7. Bypasses' = IF ~Synthesized /\ relative_scaled > 0 THEN Bypasses \cup {n} ELSE Bypasses
  BY <1>0, <1>1, <1>2, <1>4, <1>5 DEF Bypasses, OutputAt, SourceAt
<1> QED
  BY <1>3, <1>6, <1>7 DEF n

(* Every step keeps the inferences and the bypassed ones counted. *)
LEMMA CountedStep ==
  ASSUME TypeOK, LoopInv, Counted, [Next]_vars
  PROVE  Counted'
<1>0. /\ inferences \in Nat /\ diagnostics \in Diagnostics /\ diagnostics.bypassed \in Nat
      /\ Cardinality(Blends) \in Nat /\ Cardinality(Bypasses) \in Nat
      /\ IsFiniteSet(Blends) /\ IsFiniteSet(Bypasses)
      /\ pc # "done" => result = "running"
  BY DiagnosticsTypes, CountsFinite, FS_CardinalityType DEF TypeOK, LoopInv, Outcome
<1>1. CASE WriteOutput
  <2>1. Unwritten <=> Synthesized
    BY <1>0, <1>1 DEF WriteOutput, Unwritten
  <2>2. ~Unwritten' /\ pc' # "infer" /\ inferences' = inferences
    BY <1>0, <1>1 DEF WriteOutput, Unwritten, Return
  <2>3. Cardinality(Blends') = Cardinality(Blends) + IF Synthesized THEN 1 ELSE 0
    BY <1>0, <1>1, CountsGrow, FS_AddElement
  <2>4. Cardinality(Bypasses') = Cardinality(Bypasses)
                                   + IF ~Synthesized /\ relative_scaled > 0 THEN 1 ELSE 0
    BY <1>0, <1>1, CountsGrow, FS_AddElement
  <2>5. diagnostics'.bypassed = diagnostics.bypassed
                                  + IF ~Synthesized /\ relative_scaled > 0 THEN 1 ELSE 0
    BY <1>0, <1>1 DEF WriteOutput, Diagnostics
  <2> QED
    BY <1>0, <2>1, <2>2, <2>3, <2>4, <2>5 DEF Counted
<1>2. CASE encoded' = encoded /\ diagnostics'.bypassed = diagnostics.bypassed
           /\ (inferences' = inferences /\ (Unwritten' <=> Unwritten))
           /\ (pc' = "infer" => Synthesized')
  BY <1>2 DEF Counted, Blends, Bypasses, OutputAt, SourceAt
<1>3. CASE Infer
  <2>1. Synthesized /\ ~Unwritten /\ inferences' = inferences + 1 /\ Unwritten' /\ pc' # "infer"
    BY <1>0, <1>3 DEF Infer, Counted, Unwritten, Return, Synthesized, relative_scaled, loopVars
  <2>2. Blends' = Blends /\ Bypasses' = Bypasses /\ diagnostics' = diagnostics
    BY <1>3 DEF Infer, Blends, Bypasses, OutputAt, SourceAt
  <2> QED
    BY <1>0, <2>1, <2>2 DEF Counted
<1>4. CASE BeginOutput
  BY <1>0, <1>2, <1>4 DEF BeginOutput, Unwritten, Synthesized, relative_scaled, loopVars,
     outputVars
<1>5. CASE WriteError
  BY <1>0, <1>2, <1>5 DEF WriteError, Return, Unwritten, Synthesized, relative_scaled, loopVars,
     outputVars
<1>6. CASE NoAnchor \/ StopAtHead \/ ReadError \/ StopInSpan \/ Finish
  <2>1. result' \notin {"encode_error",
  "inference_error"} /\ pc' = "done" /\ pc \notin {"write", "done"}
    BY <1>6 DEF NoAnchor, StopAtHead, ReadError, MayRead, StopInSpan, Refusal, Finish,
       SpanWritten, Return
  <2>2. ~Unwritten' /\ ~Unwritten
    BY <1>0, <2>1 DEF Unwritten
  <2> QED
    BY <1>2, <1>6, <2>1, <2>2 DEF NoAnchor, StopAtHead, ReadError, StopInSpan, Finish, outputVars
<1>7. CASE ReadAnchor \/ ReadCandidate \/ EndOfStream \/ AdvanceAnchor
  <2>1. result' = result /\ pc' \in {"head", "compare", "span"} /\ pc \in {"anchor", "head",
  "span"}
    BY <1>7 DEF ReadAnchor, ReadCandidate, EndOfStream, AdvanceAnchor, MayRead, SpanWritten
  <2>2. ~Unwritten' /\ ~Unwritten
    BY <1>0, <2>1 DEF Unwritten
  <2> QED
    BY <1>2, <1>7, <2>1, <2>2 DEF ReadAnchor, ReadCandidate, EndOfStream, AdvanceAnchor,
       outputVars
<1>8. CASE ExtendRun \/ BeginLongHold \/ ContinueLongHold \/ NewPicture
  <2>1. result' = result /\ pc' \in {"head", "span"} /\ pc = "compare"
    BY <1>8 DEF ExtendRun, BeginLongHold, ContinueLongHold, NewPicture, WriteSpan
  <2>2. ~Unwritten' /\ ~Unwritten
    BY <1>0, <2>1 DEF Unwritten
  <2>3. diagnostics'.bypassed = diagnostics.bypassed
    BY <1>0, <1>8 DEF ExtendRun, BeginLongHold, ContinueLongHold, NewPicture, Diagnostics
  <2> QED
    BY <1>2, <1>8, <2>1, <2>2, <2>3 DEF ExtendRun, BeginLongHold, ContinueLongHold, NewPicture,
       outputVars
<1>9. CASE Cancel \/ UNCHANGED vars
  BY <1>2, <1>9 DEF Cancel, vars, Unwritten, Synthesized, relative_scaled, loopVars, outputVars,
     Counted
<1> QED
  BY <1>1, <1>3, <1>4, <1>5, <1>6, <1>7, <1>8, <1>9 DEF Next, Step, Returned

(* What the progress view and the log report say of a job adds up. *)
THEOREM CountersDoAgree == Spec => []CountersAgree
<1>1. Init => Tallied /\ Counted
  <2> SUFFICES ASSUME Init PROVE Tallied /\ Counted
    OBVIOUS
  <2>1. Blends = {} /\ Bypasses = {}
    BY DEF Init, Blends, Bypasses
  <2> QED
    BY <2>1, FS_EmptySet DEF Init, Tallied, RunsTallied, FramesTallied, Counted, Unwritten,
       NoDiagnostics, Reading
<1>2. /\ TypeOK /\ LoopInv /\ Holding /\ Tallied /\ [Next]_vars => Tallied'
      /\ TypeOK /\ LoopInv /\ Counted /\ [Next]_vars => Counted'
  BY TalliedStep, CountedStep
<1>3. TypeOK /\ LoopInv /\ Tallied /\ Counted => CountersAgree
  <2> SUFFICES ASSUME TypeOK, LoopInv, Tallied, Counted PROVE CountersAgree
    OBVIOUS
  <2>1. /\ inferences = Cardinality(Blends) + IF Unwritten THEN 1 ELSE 0
        /\ diagnostics.bypassed = Cardinality(Bypasses)
    BY DEF Counted
  <2>2. run \in Nat /\ (pc \in Reading \cup {"anchor"} => run >= 1)
    BY DEF TypeOK, LoopInv, Progress, Cadence
  <2>3. diagnostics.runs + 3 * diagnostics.holds <= diagnostics.duplicates
    BY <2>2, DiagnosticsTypes DEF Tallied, RunsTallied, FramesTallied
  <2> QED
    BY <2>1, <2>3 DEF CountersAgree, Blends, Bypasses, Unwritten, Tallied, FramesTallied
<1> QED
  BY <1>1, <1>2, <1>3, TypeCorrect, LoopCorrect, HoldsAreTracked, PTL DEF Spec
=============================================================================
