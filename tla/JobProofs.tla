------------------------------ MODULE JobProofs ------------------------------
(***************************************************************************)
(* Theorems about a job, for both names its input may have, every length   *)
(* of the grace window, and with or without other programs in the output   *)
(* directory: whatever step fails, whenever either FFmpeg process ends,    *)
(* and whenever the user cancels.                                          *)
(***************************************************************************)
EXTENDS Job, TLAPS

-----------------------------------------------------------------------------
(* The inductive invariant.  Started says which processes exist at each step;  *)
(* Collected, what the clean-up has done with them so far; Encoded, what the    *)
(* partial file holds and what stands at the output path; Grace, how the polls  *)
(* are counted; Verdict, what the terminal update says.                         *)

BeforeDecoder == {"create_log", "validate", "probe", "fit", "map_gpu", "create_backend",
                  "remove_stale", "spawn_decoder"}
BeforeEncoder == BeforeDecoder \cup {"spawn_encoder", "fallback", "abandon", "join_abandoned"}
Frames == {"read_anchor", "head", "read", "write", "write_tail"}
Waiting == {"wait_decoder", "join_decoder", "wait_encoder", "join_encoder"}
Returned == {"report", "send", "sent", "done"}

Started ==
  /\ pc \in BeforeDecoder => process["decoder"] = "none"
  /\ pc \in BeforeEncoder => process["encoder"] = "none"
  /\ pc \notin BeforeDecoder \cup Returned => process["decoder"] # "none"
  /\ pc \notin BeforeEncoder \cup Returned => process["encoder"] # "none"
  /\ pc \in {"spawn_encoder", "fallback"} \cup Frames =>
       process["decoder"] \in {"running", "success", "failure"}
  /\ pc \in Frames => process["encoder"] \in {"running", "failure"}
  /\ pc \in {"write_tail", "publish"} \cup Waiting =>
       process["decoder"] \in {"success", "failure"}
  /\ \A c \in Children : process[c] = "none" <=> log_worker[c] = "none"
  /\ \A c \in Children : log_worker[c] \in {"ended", "joined"} => process[c] # "running"

(* The worker holds the exit status of the child, or could not kill it. *)
Settled(c) == c \in reaped \cup resisted
Joined(c) == log_worker[c] = "joined"

Collected ==
  /\ \A c \in reaped : process[c] \notin {"none", "running"}
  /\ pc \in Returned => ~backend
  /\ pc \in {"join_abandoned", "join_stopped_decoder", "join_decoder"} => Settled("decoder")
  /\ pc \in {"grace", "stop_encoder", "join_stopped_encoder", "wait_encoder", "join_encoder",
             "publish"} => Settled("decoder") /\ Joined("decoder")
  /\ pc \in {"join_stopped_encoder", "join_encoder"} => Settled("encoder")
  /\ pc = "publish" => Settled("encoder") /\ Joined("encoder")
  /\ pc \in Returned =>
       /\ process["decoder"] = "none" \/ (Settled("decoder") /\ Joined("decoder"))
       /\ process["encoder"] = "none" \/ (Settled("encoder") /\ Joined("encoder"))
            \/ "encoder" \in resisted

Encoded ==
  /\ pc \notin Returned /\ process["encoder"] = "success" =>
       files["partial"] \in {"empty", "cut", "whole"}
  /\ pc \in Waiting \cup {"publish"} => written
  /\ pc \in Waiting \cup {"publish"} /\ (\A c \in Children : process[c] = "success") =>
       files["partial"] = "whole"
  /\ files["out"] \in {"absent", "foreign"} \cup IF outcome = "ok" THEN {"whole"} ELSE {}
  /\ outcome = "ok" => /\ files["out"] = "whole" /\ files["partial"] = "absent"
                       /\ process["encoder"] = "success"

Grace ==
  /\ pc \notin {"grace", "join_stopped_encoder"} \cup Returned => polls = 0
  /\ ~was_cancelled => polls = 0
  /\ pc = "grace" => was_cancelled
  /\ pc = "stop_encoder" => ~was_cancelled
  /\ pc \notin {"join_stopped_encoder"} \cup Returned => process["encoder"] # "killed"
  /\ GraceBeforeKill

Verdict ==
  /\ outcome # "none" <=> pc \in Returned
  /\ terminal.kind # "none" <=> pc \in {"send", "sent", "done"}
  /\ terminal.kind = "completed" => outcome = "ok"
  /\ terminal.kind \in {"cancelled", "failed"} => outcome = "error"
  /\ FinalizedPartialReported

JobInv == TypeOK /\ Started /\ Collected /\ Encoded /\ Grace /\ Verdict

-----------------------------------------------------------------------------
(* The steps of Next that are proved together *)

Preparing ==
  CreateLog \/ Validate \/ Probe \/ Fit \/ MapGpu \/ CreateBackend \/ RemoveStalePartial
Spawning == SpawnDecoder \/ SpawnEncoder \/ SpawnFallbackEncoder \/ Abandon
Looping == ReadAnchor \/ LoopHead \/ ReadFrame \/ WriteFrames \/ Unwind

-----------------------------------------------------------------------------
(* Types *)

ChildrenTypeOK ==
  /\ process \in [Children -> {"none", "running", "success", "failure", "killed"}]
  /\ reaped \subseteq Children /\ resisted \subseteq Children
  /\ log_worker \in [Children -> {"none", "reading", "ended", "joined"}]
  /\ log_failed \in BOOLEAN

FilesTypeOK == files \in [Paths -> Contents]

PlaceTypeOK == pc \in Labels /\ backend \in BOOLEAN /\ outcome \in {"none", "ok", "error"}

RestTypeOK ==
  /\ cancelled \in BOOLEAN /\ needs_cuda \in BOOLEAN /\ mapped \in BOOLEAN
  /\ exact \in BOOLEAN /\ written \in BOOLEAN
  /\ was_cancelled \in BOOLEAN /\ uninspected \in BOOLEAN
  /\ video_encoder \in {"automatic", "software", "nvidia"}
  /\ polls \in 0..(PollMax + 1)

TerminalTypeOK ==
  terminal \in [kind : {"none", "completed", "cancelled", "failed"}, probed : BOOLEAN,
                   partial : BOOLEAN]

(* The state in five parts, so that a step names only what it touches *)
LEMMA TypeParts ==
  TypeOK <=> ChildrenTypeOK /\ FilesTypeOK /\ PlaceTypeOK /\ RestTypeOK /\ TerminalTypeOK
  BY DEF TypeOK, ChildrenTypeOK, FilesTypeOK, PlaceTypeOK, RestTypeOK, TerminalTypeOK

(* Starting, terminating and waiting keep the types of the process table. *)
LEMMA ChildTypes ==
  ASSUME ChildrenTypeOK, NEW c \in Children, Start(c) \/ Terminate(c) \/ JoinLogWorker(c)
  PROVE  ChildrenTypeOK'
<1>1. CASE Start(c)
  BY <1>1 DEF Start, ChildrenTypeOK
<1>2. CASE Terminate(c)
  BY <1>2 DEF Terminate, ChildrenTypeOK
<1>3. CASE JoinLogWorker(c)
  BY <1>3 DEF JoinLogWorker, ChildrenTypeOK
<1> QED
  BY <1>1, <1>2, <1>3

(* The update Report sends: completed exactly when the job succeeded; a partial
   output it names is there and holds a frame, and a finalized one with exact
   timestamps that ffprobe was run on is named. *)
LEMMA ReportedUpdate ==
  ASSUME Report
  PROVE  /\ terminal' \in [kind : {"completed", "cancelled", "failed"}, probed : BOOLEAN,
                           partial : BOOLEAN]
         /\ terminal'.kind = "completed" <=> outcome = "ok"
         /\ terminal'.kind = "cancelled" /\ terminal'.partial =>
              files["partial"] \notin {"absent", "empty"}
         /\ terminal'.kind = "cancelled" /\ files["partial"] \in {"cut", "whole"} /\ exact
              /\ terminal'.probed => terminal'.partial
<1>1. PICK probed \in BOOLEAN, partial \in Playable(files["partial"]) :
        terminal' = IF outcome = "ok" THEN Terminal("completed", FALSE, FALSE)
                    ELSE IF cancelled THEN Terminal("cancelled", probed, probed /\ partial)
                    ELSE Terminal("failed", FALSE, FALSE)
  BY DEF Report
<1>2. /\ partial \in BOOLEAN
      /\ partial => files["partial"] \notin {"absent", "empty"}
      /\ files["partial"] \in {"cut", "whole"} /\ exact => partial
  BY DEF Playable
<1>3. CASE outcome = "ok"
  <2>1. terminal' = [kind |-> "completed", probed |-> FALSE, partial |-> FALSE]
    BY <1>1, <1>3 DEF Terminal
  <2> QED
    BY <1>3, <2>1
<1>4. CASE outcome # "ok" /\ cancelled
  <2>1. terminal' = [kind |-> "cancelled", probed |-> probed, partial |-> probed /\ partial]
    BY <1>1, <1>4 DEF Terminal
  <2> QED
    BY <1>2, <1>4, <2>1
<1>5. CASE outcome # "ok" /\ ~cancelled
  <2>1. terminal' = [kind |-> "failed", probed |-> FALSE, partial |-> FALSE]
    BY <1>1, <1>5 DEF Terminal
  <2> QED
    BY <1>5, <2>1
<1> QED
  BY <1>3, <1>4, <1>5

(* Every step keeps the types of the process table. *)
LEMMA ChildrenTypeStep ==
  ASSUME ChildrenTypeOK, [Next]_vars
  PROVE  ChildrenTypeOK'
<1> USE DEF GoTo, ReturnFromInner, configuration, childVars, workerVars, resultVars
<1>1. CASE Preparing
  BY <1>1 DEF Preparing, CreateLog, Validate, Probe, Fit, MapGpu, CreateBackend,
     RemoveStalePartial, ChildrenTypeOK
<1>2. CASE SpawnDecoder
  BY <1>2, ChildTypes DEF SpawnDecoder, Children, ChildrenTypeOK
<1>3. CASE SpawnEncoder
  BY <1>3, ChildTypes DEF SpawnEncoder, Children, ChildrenTypeOK
<1>4. CASE SpawnFallbackEncoder
  BY <1>4, ChildTypes DEF SpawnFallbackEncoder, Children, ChildrenTypeOK
<1>5. CASE Abandon
  BY <1>5, ChildTypes DEF Abandon, Children, ChildrenTypeOK
<1>6. CASE Looping
  BY <1>6 DEF Looping, ReadAnchor, LoopHead, ReadFrame, WriteFrames, Unwind, FramesFail,
     ChildrenTypeOK
<1>7. CASE StopDecoder
  BY <1>7, ChildTypes DEF StopDecoder, Children, ChildrenTypeOK
<1>8. CASE JoinStoppedDecoder
  BY <1>8, ChildTypes DEF JoinStoppedDecoder, Children, ChildrenTypeOK
<1>9. CASE PollEncoder
  BY <1>9 DEF PollEncoder, ChildrenTypeOK, Children
<1>10. CASE EndGrace \/ PollFails
  BY <1>10, ChildTypes DEF EndGrace, PollFails, Children, ChildrenTypeOK
<1>11. CASE StopEncoder
  BY <1>11, ChildTypes DEF StopEncoder, Children, ChildrenTypeOK
<1>12. CASE JoinStoppedEncoder
  BY <1>12, ChildTypes DEF JoinStoppedEncoder, Children, ChildrenTypeOK
<1>13. CASE Finalize
  BY <1>13, ChildTypes DEF Finalize, WaitFor, JoinAfterWait, Children, ChildrenTypeOK
<1>14. CASE Publish
  BY <1>14 DEF Publish, MediaSucceeded, ChildrenTypeOK
<1>15. CASE Report
  BY <1>15 DEF Report, ChildrenTypeOK
<1>16. CASE Send \/ ThreadEnds
  BY <1>16 DEF Send, ThreadEnds, ChildrenTypeOK
<1>17. CASE DecoderExits
  BY <1>17 DEF DecoderExits, ChildrenTypeOK
<1>18. CASE EncoderOpensFile
  BY <1>18 DEF EncoderOpensFile, ChildrenTypeOK
<1>19. CASE EncoderFails
  BY <1>19 DEF EncoderFails, ChildrenTypeOK
<1>20. CASE EncoderFinalizes
  BY <1>20 DEF EncoderFinalizes, InFrameLoop, Finalizing, ChildrenTypeOK
<1>21. CASE ForeignOutput
  BY <1>21 DEF ForeignOutput, Exists, ChildrenTypeOK
<1>22. CASE Cancel
  BY <1>22 DEF Cancel, ChildrenTypeOK
<1>23. CASE \E c \in Children : LogWorkerEnds(c)
  BY <1>23 DEF LogWorkerEnds, ChildrenTypeOK
<1>24. CASE UNCHANGED vars
  BY <1>24 DEF vars, ChildrenTypeOK
<1> QED
  BY <1>1, <1>2, <1>3, <1>4, <1>5, <1>6, <1>7, <1>8, <1>9, <1>10, <1>11, <1>12, <1>13, <1>14,
     <1>15, <1>16, <1>17, <1>18, <1>19, <1>20, <1>21, <1>22, <1>23, <1>24
  DEF Next, Worker, Environment, EncoderExits, Ended, Preparing, Spawning, Looping

(* Every step keeps the types of the files. *)
LEMMA FilesTypeStep ==
  ASSUME FilesTypeOK, [Next]_vars
  PROVE  FilesTypeOK'
<1> USE DEF FilesTypeOK, Paths, Contents, GoTo, ReturnFromInner, configuration, childVars,
  workerVars, resultVars
<1>1. CASE Preparing
  BY <1>1 DEF Preparing, CreateLog, Validate, Probe, Fit, MapGpu, CreateBackend,
     RemoveStalePartial
<1>2. CASE Spawning
  BY <1>2 DEF Spawning, SpawnDecoder, SpawnEncoder, SpawnFallbackEncoder, Abandon, Start,
     Terminate, JoinLogWorker
<1>3. CASE Looping
  BY <1>3 DEF Looping, ReadAnchor, LoopHead, ReadFrame, WriteFrames, Unwind, FramesFail
<1>4. CASE StopDecoder
  BY <1>4 DEF StopDecoder, Terminate
<1>5. CASE JoinStoppedDecoder
  BY <1>5 DEF JoinStoppedDecoder, JoinLogWorker
<1>6. CASE PollEncoder
  BY <1>6 DEF PollEncoder
<1>7. CASE EndGrace \/ PollFails
  BY <1>7 DEF EndGrace, PollFails, Terminate
<1>8. CASE StopEncoder
  BY <1>8 DEF StopEncoder, Terminate
<1>9. CASE JoinStoppedEncoder
  BY <1>9 DEF JoinStoppedEncoder, JoinLogWorker
<1>10. CASE Finalize
  BY <1>10 DEF Finalize, WaitFor, JoinAfterWait, JoinLogWorker
<1>11. CASE Publish
  BY <1>11 DEF Publish, MediaSucceeded
<1>12. CASE Report
  BY <1>12 DEF Report
<1>13. CASE Send \/ ThreadEnds
  BY <1>13 DEF Send, ThreadEnds
<1>14. CASE DecoderExits
  BY <1>14 DEF DecoderExits
<1>15. CASE EncoderOpensFile
  BY <1>15 DEF EncoderOpensFile
<1>16. CASE EncoderFails
  BY <1>16 DEF EncoderFails
<1>17. CASE EncoderFinalizes
  BY <1>17 DEF EncoderFinalizes, InFrameLoop, Finalizing
<1>18. CASE ForeignOutput
  BY <1>18 DEF ForeignOutput, Exists
<1>19. CASE Cancel
  BY <1>19 DEF Cancel
<1>20. CASE \E c \in Children : LogWorkerEnds(c)
  BY <1>20 DEF LogWorkerEnds
<1>21. CASE UNCHANGED vars
  BY <1>21 DEF vars
<1> QED
  BY <1>1, <1>2, <1>3, <1>4, <1>5, <1>6, <1>7, <1>8, <1>9, <1>10, <1>11, <1>12, <1>13, <1>14,
     <1>15, <1>16, <1>17, <1>18, <1>19, <1>20, <1>21
  DEF Next, Worker, Environment, EncoderExits, Ended, Preparing, Spawning, Looping

(* Every step keeps the types of the place, the backend and the outcome. *)
LEMMA PlaceTypeStep ==
  ASSUME PlaceTypeOK, [Next]_vars
  PROVE  PlaceTypeOK'
<1> USE DEF PlaceTypeOK, Labels, GoTo, ReturnFromInner, resultVars
<1>1. CASE CreateLog
  BY <1>1 DEF CreateLog
<1>2. CASE Validate
  BY <1>2 DEF Validate
<1>3. CASE Probe
  BY <1>3 DEF Probe
<1>4. CASE Fit
  BY <1>4 DEF Fit
<1>5. CASE MapGpu
  BY <1>5 DEF MapGpu, MayUseCuda
<1>6. CASE CreateBackend
  BY <1>6 DEF CreateBackend
<1>7. CASE RemoveStalePartial
  BY <1>7 DEF RemoveStalePartial
<1>8. CASE SpawnDecoder
  BY <1>8 DEF SpawnDecoder
<1>9. CASE SpawnEncoder
  BY <1>9 DEF SpawnEncoder
<1>10. CASE SpawnFallbackEncoder
  BY <1>10 DEF SpawnFallbackEncoder
<1>11. CASE Abandon
  BY <1>11 DEF Abandon
<1>12. CASE ReadAnchor
  BY <1>12 DEF ReadAnchor, FramesFail
<1>13. CASE LoopHead
  BY <1>13 DEF LoopHead, FramesFail
<1>14. CASE ReadFrame
  BY <1>14 DEF ReadFrame, FramesFail
<1>15. CASE WriteFrames
  BY <1>15 DEF WriteFrames, FramesFail
<1>16. CASE Unwind
  BY <1>16 DEF Unwind
<1>17. CASE StopDecoder
  BY <1>17 DEF StopDecoder
<1>18. CASE JoinStoppedDecoder
  BY <1>18 DEF JoinStoppedDecoder
<1>19. CASE PollEncoder
  BY <1>19 DEF PollEncoder
<1>20. CASE EndGrace \/ PollFails
  BY <1>20 DEF EndGrace, PollFails
<1>21. CASE StopEncoder
  BY <1>21 DEF StopEncoder
<1>22. CASE JoinStoppedEncoder
  BY <1>22 DEF JoinStoppedEncoder
<1>23. CASE Finalize
  BY <1>23 DEF Finalize, WaitFor, JoinAfterWait
<1>24. CASE Publish
  BY <1>24 DEF Publish
<1>25. CASE Report
  BY <1>25 DEF Report
<1>26. CASE Send \/ ThreadEnds
  BY <1>26 DEF Send, ThreadEnds
<1>27. CASE DecoderExits
  BY <1>27 DEF DecoderExits
<1>28. CASE EncoderOpensFile
  BY <1>28 DEF EncoderOpensFile
<1>29. CASE EncoderFails
  BY <1>29 DEF EncoderFails
<1>30. CASE EncoderFinalizes
  BY <1>30 DEF EncoderFinalizes, InFrameLoop, Finalizing
<1>31. CASE ForeignOutput
  BY <1>31 DEF ForeignOutput
<1>32. CASE Cancel
  BY <1>32 DEF Cancel
<1>33. CASE \E c \in Children : LogWorkerEnds(c)
  BY <1>33 DEF LogWorkerEnds
<1>34. CASE UNCHANGED vars
  BY <1>34 DEF vars
<1> QED
  BY <1>1, <1>2, <1>3, <1>4, <1>5, <1>6, <1>7, <1>8, <1>9, <1>10, <1>11, <1>12, <1>13, <1>14,
     <1>15, <1>16, <1>17, <1>18, <1>19, <1>20, <1>21, <1>22, <1>23, <1>24, <1>25, <1>26, <1>27,
     <1>28, <1>29, <1>30, <1>31, <1>32, <1>33, <1>34
  DEF Next, Worker, Environment, EncoderExits, Ended, Preparing, Spawning, Looping

(* Every step keeps the types of the settings, the flag and the poll counter. *)
LEMMA RestTypeStep ==
  ASSUME JobAssumption, RestTypeOK, [Next]_vars
  PROVE  RestTypeOK'
<1> USE DEF RestTypeOK, configuration, workerVars
<1>1. CASE CreateLog \/ Validate \/ Probe \/ CreateBackend \/ RemoveStalePartial
  BY <1>1 DEF CreateLog, Validate, Probe, CreateBackend, RemoveStalePartial
<1>2. CASE Fit
  BY <1>2 DEF Fit
<1>3. CASE MapGpu
  BY <1>3 DEF MapGpu, MayUseCuda
<1>4. CASE Spawning
  BY <1>4 DEF Spawning, SpawnDecoder, SpawnEncoder, SpawnFallbackEncoder, Abandon
<1>5. CASE ReadAnchor \/ LoopHead \/ ReadFrame
  BY <1>5 DEF ReadAnchor, LoopHead, ReadFrame
<1>6. CASE WriteFrames \/ Unwind
  BY <1>6 DEF WriteFrames, Unwind
<1>7. CASE StopDecoder
  BY <1>7 DEF StopDecoder
<1>8. CASE JoinStoppedDecoder \/ EndGrace \/ StopEncoder \/ JoinStoppedEncoder
  BY <1>8 DEF JoinStoppedDecoder, EndGrace, StopEncoder, JoinStoppedEncoder
<1>9. CASE PollEncoder
  BY <1>9 DEF PollEncoder, JobAssumption
<1>10. CASE PollFails
  BY <1>10 DEF PollFails
<1>11. CASE Finalize \/ Publish
  BY <1>11 DEF Finalize, WaitFor, JoinAfterWait, Publish
<1>12. CASE Report \/ Send \/ ThreadEnds
  BY <1>12 DEF Report, Send, ThreadEnds
<1>13. CASE Environment
  BY <1>13 DEF Environment, LogWorkerEnds, DecoderExits, EncoderOpensFile, EncoderExits,
     EncoderFails, EncoderFinalizes, ForeignOutput
<1>14. CASE Cancel
  BY <1>14 DEF Cancel
<1>15. CASE UNCHANGED vars
  BY <1>15 DEF vars
<1> QED
  BY <1>1, <1>2, <1>3, <1>4, <1>5, <1>6, <1>7, <1>8, <1>9, <1>10, <1>11, <1>12, <1>13, <1>14,
     <1>15
  DEF Next, Worker, Ended, Spawning

(* Only Report changes the terminal update. *)
LEMMA TerminalTypeStep ==
  ASSUME TerminalTypeOK, [Next]_vars
  PROVE  TerminalTypeOK'
<1> USE DEF configuration, childVars, workerVars, resultVars
<1>1. CASE Report
  BY <1>1, ReportedUpdate DEF TerminalTypeOK
<1>2. CASE UNCHANGED terminal
  BY <1>2 DEF TerminalTypeOK
<1>3. Preparing => UNCHANGED terminal
  BY DEF Preparing, CreateLog, Validate, Probe, Fit, MapGpu, CreateBackend, RemoveStalePartial
<1>4. Spawning \/ Looping => UNCHANGED terminal
  BY DEF Spawning, SpawnDecoder, SpawnEncoder, SpawnFallbackEncoder, Abandon,
     Looping, ReadAnchor, LoopHead, ReadFrame, WriteFrames, Unwind
<1>5. StopDecoder \/ JoinStoppedDecoder \/ PollEncoder \/ PollFails \/ EndGrace \/ StopEncoder
        \/ JoinStoppedEncoder => UNCHANGED terminal
  BY DEF StopDecoder, JoinStoppedDecoder, PollEncoder, PollFails, EndGrace, StopEncoder,
     JoinStoppedEncoder
<1>6. Finalize \/ Publish \/ Send \/ ThreadEnds \/ Cancel => UNCHANGED terminal
  BY DEF Finalize, WaitFor, JoinAfterWait, Publish, Send, ThreadEnds, Cancel
<1>7. Environment => UNCHANGED terminal
  BY DEF Environment, LogWorkerEnds, DecoderExits, EncoderOpensFile, EncoderExits, EncoderFails,
     EncoderFinalizes, ForeignOutput
<1> QED
  BY <1>1, <1>2, <1>3, <1>4, <1>5, <1>6, <1>7
  DEF Next, Worker, Ended, vars, Preparing, Spawning, Looping

(* Every step keeps the types. *)
LEMMA TypeStep ==
  ASSUME JobAssumption, TypeOK, [Next]_vars
  PROVE  TypeOK'
  BY TypeParts, ChildrenTypeStep, FilesTypeStep, PlaceTypeStep, RestTypeStep, TerminalTypeStep
  DEF TypeOK, ChildrenTypeOK, FilesTypeOK, PlaceTypeOK, RestTypeOK, TerminalTypeOK
-----------------------------------------------------------------------------
(* The parts of the invariant *)

(* No step is reached without the processes it works with. *)
LEMMA StartedStep ==
  ASSUME ChildrenTypeOK, Started, [Next]_vars
  PROVE  Started'
<1> USE DEF ChildrenTypeOK, Children, Started, GoTo, ReturnFromInner, configuration, childVars,
  workerVars, resultVars, BeforeDecoder, BeforeEncoder, Frames, Waiting, Returned
<1>1. CASE Preparing
  BY <1>1 DEF Preparing, CreateLog, Validate, Probe, Fit, MapGpu, CreateBackend,
     RemoveStalePartial
<1>2. CASE SpawnDecoder
  BY <1>2 DEF SpawnDecoder, Start
<1>3. CASE SpawnEncoder
  BY <1>3 DEF SpawnEncoder, Start
<1>4. CASE SpawnFallbackEncoder
  BY <1>4 DEF SpawnFallbackEncoder, Start
<1>5. CASE Abandon
  BY <1>5 DEF Abandon, Terminate, JoinLogWorker
<1>6. CASE Looping
  BY <1>6 DEF Looping, ReadAnchor, LoopHead, ReadFrame, WriteFrames, Unwind, FramesFail
<1>7. CASE StopDecoder
  BY <1>7 DEF StopDecoder, Terminate
<1>8. CASE JoinStoppedDecoder
  BY <1>8 DEF JoinStoppedDecoder, JoinLogWorker
<1>9. CASE PollEncoder
  BY <1>9 DEF PollEncoder
<1>10. CASE EndGrace \/ PollFails
  BY <1>10 DEF EndGrace, PollFails, Terminate
<1>11. CASE StopEncoder
  BY <1>11 DEF StopEncoder, Terminate
<1>12. CASE JoinStoppedEncoder
  BY <1>12 DEF JoinStoppedEncoder, JoinLogWorker
<1>13. CASE Finalize
  BY <1>13 DEF Finalize, WaitFor, JoinAfterWait, JoinLogWorker
<1>14. CASE Publish
  BY <1>14 DEF Publish, MediaSucceeded
<1>15. CASE Report
  BY <1>15 DEF Report
<1>16. CASE Send \/ ThreadEnds
  BY <1>16 DEF Send, ThreadEnds
<1>17. CASE DecoderExits
  BY <1>17 DEF DecoderExits
<1>18. CASE EncoderOpensFile
  BY <1>18 DEF EncoderOpensFile
<1>19. CASE EncoderFails
  BY <1>19 DEF EncoderFails
<1>20. CASE EncoderFinalizes
  BY <1>20 DEF EncoderFinalizes, InFrameLoop, Finalizing
<1>21. CASE ForeignOutput
  BY <1>21 DEF ForeignOutput, Exists
<1>22. CASE Cancel
  BY <1>22 DEF Cancel
<1>23. CASE \E c \in Children : LogWorkerEnds(c)
  BY <1>23 DEF LogWorkerEnds
<1>24. CASE UNCHANGED vars
  BY <1>24 DEF vars
<1> QED
  BY <1>1, <1>2, <1>3, <1>4, <1>5, <1>6, <1>7, <1>8, <1>9, <1>10, <1>11, <1>12, <1>13, <1>14,
     <1>15, <1>16, <1>17, <1>18, <1>19, <1>20, <1>21, <1>22, <1>23, <1>24
  DEF Next, Worker, Environment, EncoderExits, Ended, Preparing, Spawning, Looping

(* The clean-up collects each process and each log thread in turn. *)
LEMMA CollectedStep ==
  ASSUME ChildrenTypeOK, Started, Collected, [Next]_vars
  PROVE  Collected'
<1> USE DEF ChildrenTypeOK, Children, Started, Collected, Settled, Joined, GoTo,
  ReturnFromInner, configuration, childVars, workerVars, resultVars, BeforeDecoder,
  BeforeEncoder, Frames, Waiting, Returned
<1>1. CASE Preparing
  BY <1>1 DEF Preparing, CreateLog, Validate, Probe, Fit, MapGpu, CreateBackend,
     RemoveStalePartial
<1>2. CASE Spawning
  BY <1>2 DEF Spawning, SpawnDecoder, SpawnEncoder, SpawnFallbackEncoder, Abandon, Start,
     Terminate, JoinLogWorker
<1>3. CASE Looping
  BY <1>3 DEF Looping, ReadAnchor, LoopHead, ReadFrame, WriteFrames, Unwind, FramesFail
<1>4. CASE StopDecoder
  BY <1>4 DEF StopDecoder, Terminate
<1>5. CASE JoinStoppedDecoder
  BY <1>5 DEF JoinStoppedDecoder, JoinLogWorker
<1>6. CASE PollEncoder
  <2>1. CASE process["encoder"] = "running"
    BY <1>6, <2>1 DEF PollEncoder
  <2>2. CASE process["encoder"] # "running"
    <3>1. pc = "grace" /\ pc' = "join_stopped_encoder" /\ reaped' = reaped \cup {"encoder"}
      BY <1>6, <2>2 DEF PollEncoder
    <3>2. UNCHANGED <<backend, process, resisted, log_worker>>
      BY <1>6 DEF PollEncoder
    <3>3. process["encoder"] \notin {"none", "running"}
      BY <2>2, <3>1
    <3> QED
      BY <3>1, <3>2, <3>3
  <2> QED
    BY <2>1, <2>2
<1>7. CASE EndGrace \/ PollFails
  BY <1>7 DEF EndGrace, PollFails, Terminate
<1>8. CASE StopEncoder
  BY <1>8 DEF StopEncoder, Terminate
<1>9. CASE JoinStoppedEncoder
  BY <1>9 DEF JoinStoppedEncoder, JoinLogWorker
<1>10. CASE Finalize
  BY <1>10 DEF Finalize, WaitFor, JoinAfterWait, JoinLogWorker
<1>11. CASE Publish
  BY <1>11 DEF Publish, MediaSucceeded
<1>12. CASE Report
  BY <1>12 DEF Report
<1>13. CASE Send
  BY <1>13 DEF Send
<1>22. CASE ThreadEnds
  BY <1>22 DEF ThreadEnds
<1>14. CASE DecoderExits
  BY <1>14 DEF DecoderExits
<1>15. CASE EncoderOpensFile
  BY <1>15 DEF EncoderOpensFile
<1>16. CASE EncoderFails
  BY <1>16 DEF EncoderFails
<1>17. CASE EncoderFinalizes
  BY <1>17 DEF EncoderFinalizes, InFrameLoop, Finalizing
<1>18. CASE ForeignOutput
  BY <1>18 DEF ForeignOutput, Exists
<1>19. CASE Cancel
  BY <1>19 DEF Cancel
<1>20. CASE \E c \in Children : LogWorkerEnds(c)
  BY <1>20 DEF LogWorkerEnds
<1>21. CASE UNCHANGED vars
  BY <1>21 DEF vars
<1> QED
  BY <1>1, <1>2, <1>3, <1>4, <1>5, <1>6, <1>7, <1>8, <1>9, <1>10, <1>11, <1>12, <1>13, <1>14,
     <1>15, <1>16, <1>17, <1>18, <1>19, <1>20, <1>21, <1>22
  DEF Next, Worker, Environment, EncoderExits, Ended, Preparing, Spawning, Looping

(* The output path gets the partial file only once both processes succeeded. *)
LEMMA EncodedStep ==
  ASSUME ChildrenTypeOK, FilesTypeOK, Started, Collected, Encoded, Verdict, [Next]_vars
  PROVE  Encoded'
<1> USE DEF ChildrenTypeOK, FilesTypeOK, Children, Paths, Contents, Started, Collected, Joined,
  Encoded, Verdict, GoTo, ReturnFromInner, configuration, childVars, workerVars, resultVars,
  BeforeDecoder, BeforeEncoder, Frames, Waiting, Returned
<1>1. CASE Preparing
  BY <1>1 DEF Preparing, CreateLog, Validate, Probe, Fit, MapGpu, CreateBackend,
     RemoveStalePartial
<1>2. CASE Spawning
  BY <1>2 DEF Spawning, SpawnDecoder, SpawnEncoder, SpawnFallbackEncoder, Abandon, Start,
     Terminate, JoinLogWorker
<1>3. CASE Looping
  BY <1>3 DEF Looping, ReadAnchor, LoopHead, ReadFrame, WriteFrames, Unwind, FramesFail
<1>4. CASE StopDecoder
  BY <1>4 DEF StopDecoder, Terminate
<1>5. CASE JoinStoppedDecoder
  BY <1>5 DEF JoinStoppedDecoder, JoinLogWorker
<1>6. CASE PollEncoder
  BY <1>6 DEF PollEncoder
<1>7. CASE EndGrace \/ PollFails
  BY <1>7 DEF EndGrace, PollFails, Terminate
<1>8. CASE StopEncoder
  BY <1>8 DEF StopEncoder, Terminate
<1>9. CASE JoinStoppedEncoder
  BY <1>9 DEF JoinStoppedEncoder, JoinLogWorker
<1>10. CASE Finalize
  BY <1>10 DEF Finalize, WaitFor, JoinAfterWait, JoinLogWorker
<1>11. CASE Publish
  BY <1>11 DEF Publish, MediaSucceeded
<1>12. CASE Report
  BY <1>12 DEF Report
<1>13. CASE Send \/ ThreadEnds
  BY <1>13 DEF Send, ThreadEnds
<1>14. CASE DecoderExits
  BY <1>14 DEF DecoderExits
<1>15. CASE EncoderOpensFile
  BY <1>15 DEF EncoderOpensFile
<1>16. CASE EncoderFails
  BY <1>16 DEF EncoderFails
<1>17. CASE EncoderFinalizes
  BY <1>17 DEF EncoderFinalizes, InFrameLoop, Finalizing
<1>18. CASE ForeignOutput
  BY <1>18 DEF ForeignOutput, Exists
<1>19. CASE Cancel
  BY <1>19 DEF Cancel
<1>20. CASE \E c \in Children : LogWorkerEnds(c)
  BY <1>20 DEF LogWorkerEnds
<1>21. CASE UNCHANGED vars
  BY <1>21 DEF vars
<1> QED
  BY <1>1, <1>2, <1>3, <1>4, <1>5, <1>6, <1>7, <1>8, <1>9, <1>10, <1>11, <1>12, <1>13, <1>14,
     <1>15, <1>16, <1>17, <1>18, <1>19, <1>20, <1>21
  DEF Next, Worker, Environment, EncoderExits, Ended, Preparing, Spawning, Looping

(* The encoder is killed at the end of the window, or at once when nothing was cancelled. *)
LEMMA GraceStep ==
  ASSUME JobAssumption, ChildrenTypeOK, RestTypeOK, Started, Grace, [Next]_vars
  PROVE  Grace'
<1> USE DEF JobAssumption, ChildrenTypeOK, RestTypeOK, Children, Started, Grace,
  GraceBeforeKill, GoTo, ReturnFromInner, configuration, childVars, workerVars, resultVars,
  BeforeDecoder, BeforeEncoder, Frames, Waiting, Returned
<1>1. CASE Preparing
  BY <1>1 DEF Preparing, CreateLog, Validate, Probe, Fit, MapGpu, CreateBackend,
     RemoveStalePartial
<1>2. CASE Spawning
  BY <1>2 DEF Spawning, SpawnDecoder, SpawnEncoder, SpawnFallbackEncoder, Abandon, Start,
     Terminate, JoinLogWorker
<1>3. CASE Looping
  BY <1>3 DEF Looping, ReadAnchor, LoopHead, ReadFrame, WriteFrames, Unwind, FramesFail
<1>4. CASE StopDecoder
  BY <1>4 DEF StopDecoder, Terminate
<1>5. CASE JoinStoppedDecoder
  BY <1>5 DEF JoinStoppedDecoder, JoinLogWorker
<1>6. CASE PollEncoder
  BY <1>6 DEF PollEncoder
<1>7. CASE EndGrace \/ PollFails
  BY <1>7 DEF EndGrace, PollFails, Terminate
<1>8. CASE StopEncoder
  BY <1>8 DEF StopEncoder, Terminate
<1>9. CASE JoinStoppedEncoder
  BY <1>9 DEF JoinStoppedEncoder, JoinLogWorker
<1>10. CASE Finalize
  BY <1>10 DEF Finalize, WaitFor, JoinAfterWait, JoinLogWorker
<1>11. CASE Publish
  BY <1>11 DEF Publish, MediaSucceeded
<1>12. CASE Report
  BY <1>12 DEF Report
<1>13. CASE Send \/ ThreadEnds
  BY <1>13 DEF Send, ThreadEnds
<1>14. CASE DecoderExits
  BY <1>14 DEF DecoderExits
<1>15. CASE EncoderOpensFile
  BY <1>15 DEF EncoderOpensFile
<1>16. CASE EncoderFails
  BY <1>16 DEF EncoderFails
<1>17. CASE EncoderFinalizes
  BY <1>17 DEF EncoderFinalizes, InFrameLoop, Finalizing
<1>18. CASE ForeignOutput
  BY <1>18 DEF ForeignOutput, Exists
<1>19. CASE Cancel
  BY <1>19 DEF Cancel
<1>20. CASE \E c \in Children : LogWorkerEnds(c)
  BY <1>20 DEF LogWorkerEnds
<1>21. CASE UNCHANGED vars
  BY <1>21 DEF vars
<1> QED
  BY <1>1, <1>2, <1>3, <1>4, <1>5, <1>6, <1>7, <1>8, <1>9, <1>10, <1>11, <1>12, <1>13, <1>14,
     <1>15, <1>16, <1>17, <1>18, <1>19, <1>20, <1>21
  DEF Next, Worker, Environment, EncoderExits, Ended, Preparing, Spawning, Looping

(* The terminal update follows from the outcome. *)
LEMMA VerdictStep ==
  ASSUME ChildrenTypeOK, FilesTypeOK, PlaceTypeOK, RestTypeOK, Started, Collected, Encoded, Verdict,
  [Next]_vars
  PROVE  Verdict'
<1> USE DEF ChildrenTypeOK, FilesTypeOK, Children, Paths, Contents, Settled, Joined, Started,
  Collected, Encoded, Verdict, FinalizedPartialReported, GoTo, ReturnFromInner, configuration,
  childVars, workerVars, resultVars, BeforeDecoder, BeforeEncoder, Frames, Waiting, Returned
<1>1. CASE Preparing
  BY <1>1 DEF Preparing, CreateLog, Validate, Probe, Fit, MapGpu, CreateBackend,
     RemoveStalePartial
<1>2. CASE Spawning
  BY <1>2 DEF Spawning, SpawnDecoder, SpawnEncoder, SpawnFallbackEncoder, Abandon, Start,
     Terminate, JoinLogWorker
<1>3. CASE Looping
  BY <1>3 DEF Looping, ReadAnchor, LoopHead, ReadFrame, WriteFrames, Unwind, FramesFail
<1>4. CASE StopDecoder
  BY <1>4 DEF StopDecoder, Terminate
<1>5. CASE JoinStoppedDecoder
  BY <1>5 DEF JoinStoppedDecoder, JoinLogWorker
<1>6. CASE PollEncoder
  BY <1>6 DEF PollEncoder
<1>7. CASE EndGrace \/ PollFails
  BY <1>7 DEF EndGrace, PollFails, Terminate
<1>8. CASE StopEncoder
  BY <1>8 DEF StopEncoder, Terminate
<1>9. CASE JoinStoppedEncoder
  BY <1>9 DEF JoinStoppedEncoder, JoinLogWorker
<1>10. CASE Finalize
  BY <1>10 DEF Finalize, WaitFor, JoinAfterWait, JoinLogWorker
<1>11. CASE Publish
  BY <1>11 DEF Publish, MediaSucceeded
<1>12. CASE Report
  <2>1. pc = "report" /\ pc' = "send" /\ UNCHANGED <<exact, process, resisted, files, outcome>>
    BY <1>12 DEF Report
  <2>2. outcome \in {"ok", "error"}
    BY <2>1 DEF PlaceTypeOK
  <2>3. /\ terminal'.kind \in {"completed", "cancelled", "failed"}
        /\ terminal'.kind = "completed" <=> outcome = "ok"
    BY <1>12, ReportedUpdate
  <2>4. FinalizedPartialReported'
    BY <1>12, <2>1, ReportedUpdate
  <2> QED
    BY <2>1, <2>2, <2>3, <2>4
<1>13. CASE Send \/ ThreadEnds
  BY <1>13 DEF Send, ThreadEnds
<1>14. CASE DecoderExits
  BY <1>14 DEF DecoderExits
<1>15. CASE EncoderOpensFile
  BY <1>15 DEF EncoderOpensFile
<1>16. CASE EncoderFails
  BY <1>16 DEF EncoderFails
<1>17. CASE EncoderFinalizes
  BY <1>17 DEF EncoderFinalizes, InFrameLoop, Finalizing
<1>18. CASE ForeignOutput
  BY <1>18 DEF ForeignOutput, Exists
<1>19. CASE Cancel
  BY <1>19 DEF Cancel
<1>20. CASE \E c \in Children : LogWorkerEnds(c)
  BY <1>20 DEF LogWorkerEnds
<1>21. CASE UNCHANGED vars
  BY <1>21 DEF vars
<1> QED
  BY <1>1, <1>2, <1>3, <1>4, <1>5, <1>6, <1>7, <1>8, <1>9, <1>10, <1>11, <1>12, <1>13, <1>14,
     <1>15, <1>16, <1>17, <1>18, <1>19, <1>20, <1>21
  DEF Next, Worker, Environment, EncoderExits, Ended, Preparing, Spawning, Looping

-----------------------------------------------------------------------------
(* Theorems *)

LEMMA InitEstablishesInv ==
  ASSUME JobAssumption, Init
  PROVE  JobInv
<1> USE DEF Init, Children, Paths
<1>1. TypeOK
  <2>1. ChildrenTypeOK
    BY DEF ChildrenTypeOK
  <2>2. FilesTypeOK
    BY DEF FilesTypeOK, Contents
  <2>3. NoTerminal \in [kind : {"none", "completed", "cancelled", "failed"}, probed : BOOLEAN,
                   partial : BOOLEAN]
    BY DEF NoTerminal, Terminal
  <2>4. polls \in 0..(PollMax + 1)
    BY DEF JobAssumption
  <2>5. terminal \in [kind : {"none", "completed", "cancelled", "failed"}, probed : BOOLEAN,
                   partial : BOOLEAN]
    BY <2>3
  <2>6. PlaceTypeOK /\ RestTypeOK /\ TerminalTypeOK
    BY <2>4, <2>5 DEF PlaceTypeOK, RestTypeOK, TerminalTypeOK, Labels
  <2> QED
    BY <2>1, <2>2, <2>6, TypeParts
<1>2. Started
  BY DEF Started, BeforeDecoder, BeforeEncoder, Frames, Waiting
<1>3. Collected /\ Encoded
  BY DEF Collected, Encoded, Waiting, Returned
<1>4. Grace
  BY DEF Grace, GraceBeforeKill, Returned
<1>5. Verdict
  BY DEF Verdict, Returned, FinalizedPartialReported, NoTerminal, Terminal
<1> QED
  BY <1>1, <1>2, <1>3, <1>4, <1>5 DEF JobInv

LEMMA StepKeepsInv ==
  ASSUME JobAssumption, JobInv, [Next]_vars
  PROVE  JobInv'
  BY TypeParts, TypeStep, StartedStep, CollectedStep, EncodedStep, GraceStep,
     VerdictStep DEF JobInv

(* The inductive invariant holds in every state of every job. *)
THEOREM JobCorrect == Spec => []JobInv
<1>1. Init => JobInv
  BY JobAssumption, InitEstablishesInv
<1>2. JobInv /\ [Next]_vars => JobInv'
  BY JobAssumption, StepKeepsInv
<1> QED
  BY <1>1, <1>2, PTL DEF Spec

(* The job's state stays well typed (run_job and run_job_inner, pipeline.rs). *)
THEOREM TypeCorrect == Spec => []TypeOK
  BY JobCorrect, PTL DEF JobInv

(* Whatever fails and whenever, and whoever else writes to the directory, the
   output path never holds an incomplete video of this job. *)
THEOREM OutputIsAtomic == Spec => []OutputIsWhole
<1>1. JobInv => OutputIsWhole
  BY DEF JobInv, Encoded, OutputIsWhole
<1> QED
  BY <1>1, JobCorrect, PTL

(* The terminal update agrees with the output file, also after a later change of
   the flag or of the directory. *)
THEOREM VerdictIsTrue == Spec => []VerdictMatchesOutput
<1>1. JobInv => VerdictMatchesOutput
  BY DEF JobInv, Encoded, Verdict, VerdictMatchesOutput
<1> QED
  BY <1>1, JobCorrect, PTL

(* On every path out of run_job_inner both processes have been collected, their
   log threads joined, and the backend dropped. *)
THEOREM CleanupIsComplete == Spec => []NothingLeftBehind
<1>1. JobInv => NothingLeftBehind
  BY DEF JobInv, Collected, NothingLeftBehind, Settled, Joined, Children, Returned
<1> QED
  BY <1>1, JobCorrect, PTL

(* wait_media_child_with_timeout kills a cancelled job's encoder after its last
   poll and no earlier, for every number of polls, unless a poll could not tell how
   the encoder is. *)
THEOREM GraceIsWhole == Spec => []GraceBeforeKill
<1>1. JobInv => GraceBeforeKill
  BY DEF JobInv, Grace
<1> QED
  BY <1>1, JobCorrect, PTL

(* A cancelled job names no partial output that is absent or holds no frame, and it
   does name one that was finalized with frames in it, if its timestamps are exact
   and ffprobe could be run. *)
THEOREM PartialIsReported == Spec => []FinalizedPartialReported
<1>1. JobInv => FinalizedPartialReported
  BY DEF JobInv, Verdict
<1> QED
  BY <1>1, JobCorrect, PTL

-----------------------------------------------------------------------------
(* The job implements the contract the desktop is modelled on. *)

Quiet ==
  \/ Preparing \/ Spawning \/ ReadAnchor \/ LoopHead \/ ReadFrame \/ WriteFrames
  \/ StopDecoder \/ JoinStoppedDecoder \/ PollEncoder \/ PollFails \/ EndGrace \/ StopEncoder
  \/ JoinStoppedEncoder \/ Finalize \/ Publish \/ Environment

(* Steps the desktop cannot see. *)
LEMMA QuietStutters ==
  ASSUME Quiet
  PROVE  /\ pc \notin {"send", "sent", "done", "unwound"} =>
              pc' \notin {"send", "sent", "done", "unwound"}
         /\ pc \in {"send", "sent", "done", "unwound"} => pc' = pc
         /\ UNCHANGED <<cancelled, terminal>>
<1> USE DEF GoTo, ReturnFromInner, resultVars
<1>1. CASE Preparing
  BY <1>1 DEF Preparing, CreateLog, Validate, Probe, Fit, MapGpu, CreateBackend,
     RemoveStalePartial
<1>2. CASE Spawning
  BY <1>2 DEF Spawning, SpawnDecoder, SpawnEncoder, SpawnFallbackEncoder, Abandon
<1>3. CASE ReadAnchor \/ LoopHead \/ ReadFrame \/ WriteFrames
  BY <1>3 DEF ReadAnchor, LoopHead, ReadFrame, WriteFrames, FramesFail
<1>4. CASE StopDecoder \/ JoinStoppedDecoder \/ StopEncoder \/ JoinStoppedEncoder
              \/ EndGrace \/ PollFails
  BY <1>4 DEF StopDecoder, JoinStoppedDecoder, StopEncoder, JoinStoppedEncoder, EndGrace,
              PollFails
<1>5. CASE PollEncoder
  BY <1>5 DEF PollEncoder
<1>6. CASE Finalize \/ Publish
  BY <1>6 DEF Finalize, WaitFor, JoinAfterWait, Publish
<1>7. CASE Environment
  BY <1>7 DEF Environment, LogWorkerEnds, DecoderExits, EncoderOpensFile, EncoderExits,
              EncoderFails, EncoderFinalizes, ForeignOutput
<1> QED
  BY <1>1, <1>2, <1>3, <1>4, <1>5, <1>6, <1>7 DEF Quiet

(* What the worker reports is a report of the contract: it exits only after one
   terminal update, says "cancelled" only after the flag was set, and "failed"
   only before. *)
LEMMA StepMeetsContract ==
  ASSUME JobInv, [Next]_vars
  PROVE  Contract!Next \/ UNCHANGED Contract!vars
<1> USE DEF Contract!Next, Contract!vars
<1>1. CASE Quiet
  BY <1>1, QuietStutters
<1>2. CASE Report
  <2>1. terminal'.kind \in {"completed", IF cancelled THEN "cancelled" ELSE "failed"}
    BY <1>2, ReportedUpdate DEF Report, Terminal
  <2> QED
    BY <1>2, <2>1 DEF Report, Contract!Report
<1>3. CASE Send
  BY <1>3 DEF Send, Contract!Deliver, resultVars
<1>7. CASE ThreadEnds
  BY <1>7 DEF ThreadEnds, Contract!Exit, resultVars
<1>4. CASE Unwind
  BY <1>4 DEF Unwind, Contract!Unwind, resultVars
<1>5. CASE Cancel
  BY <1>5 DEF Cancel, Contract!Cancel, resultVars
<1>6. CASE UNCHANGED vars
  BY <1>6 DEF vars
<1> QED
  BY <1>1, <1>2, <1>3, <1>4, <1>5, <1>6, <1>7
  DEF Next, Worker, Quiet, Preparing, Spawning, Ended

(* Job implements JobContract, on which Desktop is built (start_interpolation's
   worker closure and the receiver of its updates, app.rs and pipeline.rs). *)
THEOREM JobMeetsContract == Spec => ContractSpec
<1>1. Init => Contract!Init
  BY DEF Init, Contract!Init, NoTerminal, Terminal
<1>2. JobInv /\ [Next]_vars => [Contract!Next]_(Contract!vars)
  BY StepMeetsContract
<1> QED
  BY <1>1, <1>2, JobCorrect, PTL DEF Spec, ContractSpec, Contract!Spec
=============================================================================
