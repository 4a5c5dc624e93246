--------------------------------- MODULE Job ---------------------------------
(***************************************************************************)
(* One interpolation job, run_job and run_job_inner in src/src/pipeline.rs:*)
(* the worker thread that checks the configuration, creates the inference  *)
(* backend, starts an FFmpeg decoder and an FFmpeg encoder, moves frames   *)
(* between them (FramePipeline describes that loop), and then publishes    *)
(* the encoder's partial file, or cleans up.                               *)
(*                                                                         *)
(* Around the worker run the two FFmpeg processes, one thread per process  *)
(* that drains its standard error into the job log, the user who may       *)
(* cancel at any moment, and other programs that use the same directory.   *)
(***************************************************************************)
EXTENDS Integers, FiniteSets

CONSTANTS
  InputPath,         \* "in", or "partial" when the input is named like the partial output
  PollMax,           \* MEDIA_GRACEFUL_WAIT_POLL_COUNT_MAX
  SharedDirectory    \* do other programs create files where the output goes?

ASSUME JobAssumption ==
  /\ InputPath \in {"in", "partial"}
  /\ PollMax \in Nat \ {0}
  /\ SharedDirectory \in BOOLEAN

Children == {"decoder", "encoder"}
Paths == {"in", "partial", "out"}

(* What a file holds: the source video; a partial output an earlier job left;
   this job's output while it is written or after its encoder was killed; the
   same, finalized without a frame, or before the source ended; the complete
   output; or another program's data. *)
Contents == {"absent", "source", "stale", "torn", "empty", "cut", "whole", "foreign"}

VARIABLES
  pc,             \* where the worker is
  cancelled,      \* the flag shared with the desktop
  video_encoder,  \* configuration.video_encoder
  needs_cuda,     \* configuration.use_nvdec, or the CUDA inference backend
  mapped,         \* cuda_gpu_index.is_some()
  exact,          \* the output's container keeps the timestamps of the target rate
  backend,        \* the inference backend exists
  process,        \* what each FFmpeg process is doing
  reaped,         \* children whose exit status the worker has collected
  resisted,       \* children that kill or wait failed on
  log_worker,     \* the thread draining each child's standard error
  log_failed,     \* a log thread that was waited for reported an error
  written,        \* the encoder's pipe has received a frame
  was_cancelled,  \* the flag as the cleanup read it
  polls,          \* polls of the encoder in the graceful window
  uninspected,    \* a poll of the encoder failed
  files,          \* contents of the three paths
  outcome,        \* what run_job_inner returned
  terminal        \* the terminal update

vars == <<pc, cancelled, video_encoder, needs_cuda, mapped, exact, backend, process, reaped,
          resisted, log_worker, log_failed, written, was_cancelled, polls, uninspected, files,
          outcome, terminal>>

configuration == <<video_encoder, needs_cuda, mapped, exact>>
childVars == <<process, reaped, resisted, log_worker, log_failed>>
workerVars == <<written, was_cancelled, polls, uninspected>>
resultVars == <<outcome, terminal>>

(* The update: its kind, whether ffprobe could be run on a partial output, and
   whether the update names one *)
Terminal(kind, probed, partial) == [kind |-> kind, probed |-> probed, partial |-> partial]
NoTerminal == Terminal("none", FALSE, FALSE)

-----------------------------------------------------------------------------
Init ==
  /\ pc = "create_log" /\ cancelled \in BOOLEAN
  /\ video_encoder \in {"automatic", "software", "nvidia"}
  /\ needs_cuda \in BOOLEAN /\ mapped = FALSE /\ exact \in BOOLEAN
  /\ backend = FALSE
  /\ process = [c \in Children |-> "none"]
  /\ reaped = {} /\ resisted = {}
  /\ log_worker = [c \in Children |-> "none"]
  /\ log_failed = FALSE
  /\ written = FALSE /\ was_cancelled = FALSE /\ polls = 0 /\ uninspected = FALSE
  /\ files \in [Paths -> {"absent", "source", "stale", "foreign"}]
  /\ files[InputPath] = "source"
  /\ \A p \in Paths \ {InputPath} : files[p] # "source"
  /\ files["partial"] # "foreign" /\ files["out"] # "stale"
  /\ InputPath # "in" => files["in"] = "absent"
  /\ outcome = "none" /\ terminal = NoTerminal

Exists(path) == files[path] # "absent"

(* run_job_inner returns: its locals are dropped, the backend among them. *)
ReturnFromInner(value) ==
  /\ pc' = "report"
  /\ outcome' = value
  /\ backend' = FALSE

GoTo(label) == pc' = label /\ UNCHANGED <<backend, outcome>>

Cancel ==
  /\ pc \notin {"done", "unwound"} /\ ~cancelled
  /\ cancelled' = TRUE
  /\ UNCHANGED <<pc, configuration, backend, childVars, workerVars, files, resultVars>>

-----------------------------------------------------------------------------
(* Before any process is started *)

CreateLog ==
  /\ pc = "create_log"
  /\ \/ GoTo("validate")
     \/ ReturnFromInner("error")
  /\ UNCHANGED <<cancelled, configuration, childVars, workerVars, files, terminal>>

(* validate_configuration; the checks on the settings themselves may fail too *)
Validate ==
  /\ pc = "validate"
  /\ \/ Exists(InputPath) /\ ~Exists("out") /\ GoTo("probe")
     \/ ReturnFromInner("error")
  /\ UNCHANGED <<cancelled, configuration, childVars, workerVars, files, terminal>>

(* probe_video_logged runs ffprobe to its end *)
Probe ==
  /\ pc = "probe"
  /\ \/ Exists(InputPath) /\ GoTo("fit")
     \/ ReturnFromInner("error")
  /\ UNCHANGED <<cancelled, configuration, childVars, workerVars, files, terminal>>

(* validate_target_fps, the one check of the flag before the frame loop, and
   the adaptations to memory and pixel format, which may give up NVDEC. *)
Fit ==
  /\ pc = "fit"
  /\ \/ /\ ~cancelled /\ GoTo("map_gpu")
        /\ needs_cuda' \in {needs_cuda, FALSE}
     \/ ReturnFromInner("error") /\ UNCHANGED needs_cuda
  /\ UNCHANGED <<cancelled, video_encoder, mapped, exact, childVars, workerVars, files, terminal>>

MayUseCuda == needs_cuda \/ video_encoder \in {"automatic", "nvidia"}

MapGpu ==
  /\ pc = "map_gpu"
  /\ \/ mapped' = MayUseCuda /\ GoTo("create_backend")
     \/ /\ MayUseCuda /\ mapped' = FALSE
        /\ IF needs_cuda \/ video_encoder = "nvidia"
           THEN ReturnFromInner("error")
           ELSE GoTo("create_backend")
  /\ UNCHANGED <<cancelled, video_encoder, needs_cuda, exact, childVars, workerVars, files, terminal>>

CreateBackend ==
  /\ pc = "create_backend"
  /\ \/ pc' = "remove_stale" /\ backend' = TRUE /\ UNCHANGED outcome
     \/ ReturnFromInner("error")
  /\ UNCHANGED <<cancelled, configuration, childVars, workerVars, files, terminal>>

(* A file at the partial path is taken for a leftover of an earlier job. *)
RemoveStalePartial ==
  /\ pc = "remove_stale"
  /\ \/ files' = [files EXCEPT !["partial"] = "absent"] /\ GoTo("spawn_decoder")
     \/ Exists("partial") /\ ReturnFromInner("error") /\ UNCHANGED files
  /\ UNCHANGED <<cancelled, configuration, childVars, workerVars, terminal>>

-----------------------------------------------------------------------------
(* FFmpeg processes and the threads that drain their diagnostics *)

Start(c) ==
  /\ process' = [process EXCEPT ![c] = "running"]
  /\ log_worker' = [log_worker EXCEPT ![c] = "reading"]
  /\ UNCHANGED <<reaped, resisted, log_failed>>

(* terminate_child: kill unless it has exited, and collect the status.  The kill
   of a process that has not exited may fail. *)
Terminate(c) ==
  \/ /\ process' = [process EXCEPT ![c] = IF @ = "running" THEN "killed" ELSE @]
     /\ reaped' = reaped \cup {c}
     /\ UNCHANGED <<resisted, log_worker, log_failed>>
  \/ /\ process[c] = "running"
     /\ resisted' = resisted \cup {c}
     /\ UNCHANGED <<process, reaped, log_worker, log_failed>>

(* finish_log_worker blocks until the thread has seen the end of the pipe. *)
JoinLogWorker(c) ==
  /\ log_worker[c] = "ended"
  /\ log_worker' = [log_worker EXCEPT ![c] = "joined"]
  /\ log_failed' \in {log_failed, TRUE}
  /\ UNCHANGED <<process, reaped, resisted>>

LogWorkerEnds(c) ==
  /\ log_worker[c] = "reading" /\ process[c] # "running"
  /\ log_worker' = [log_worker EXCEPT ![c] = "ended"]
  /\ UNCHANGED <<pc, cancelled, configuration, backend, process, reaped, resisted, log_failed,
                 workerVars, files, resultVars>>

(* Mutant: the encoder's input stays open until the encoder has been waited for. *)
InFrameLoop_input_kept ==
  pc \in {"read_anchor", "head", "read", "write", "write_tail",
          "wait_decoder", "join_decoder", "wait_encoder", "join_encoder"}

InFrameLoop == pc \in {"read_anchor", "head", "read", "write", "write_tail"}

(* The decoder exits after its last frame, or fails at any moment; its exit ends
   its pipe.  Writing to a pipe the worker has closed is a failure too. *)
DecoderExits ==
  /\ process["decoder"] = "running"
  /\ \E status \in {"success", "failure"} : process' = [process EXCEPT !["decoder"] = status]
  /\ UNCHANGED <<pc, cancelled, configuration, backend, reaped, resisted, log_worker, log_failed,
                 workerVars, files, resultVars>>

(* -y: the encoder replaces whatever is at the partial path. *)
EncoderOpensFile ==
  /\ process["encoder"] = "running" /\ files["partial"] # "torn"
  /\ files' = [files EXCEPT !["partial"] = "torn"]
  /\ UNCHANGED <<pc, cancelled, configuration, backend, childVars, workerVars, resultVars>>

EncoderFails ==
  /\ process["encoder"] = "running"
  /\ process' = [process EXCEPT !["encoder"] = "failure"]
  /\ UNCHANGED <<pc, cancelled, configuration, backend, reaped, resisted, log_worker, log_failed,
                 workerVars, files, resultVars>>

(* Its input closed, the encoder finalizes what it received.  The frame loop
   returned without an error exactly when the worker went on to wait. *)
Finalizing == pc \in {"wait_decoder", "join_decoder", "wait_encoder", "join_encoder"}

EncoderFinalizes ==
  /\ process["encoder"] = "running" /\ files["partial"] = "torn"
  /\ ~InFrameLoop
  /\ process' = [process EXCEPT !["encoder"] = "success"]
  /\ files' = [files EXCEPT !["partial"] =
                 IF ~written THEN "empty"
                 ELSE IF Finalizing /\ process["decoder"] = "success" THEN "whole" ELSE "cut"]
  /\ UNCHANGED <<pc, cancelled, configuration, backend, reaped, resisted, log_worker, log_failed,
                 workerVars, resultVars>>

(* Another program, or another window of this one, creates the output file. *)
ForeignOutput ==
  /\ SharedDirectory /\ ~Exists("out") /\ pc \notin {"done", "unwound"}
  /\ files' = [files EXCEPT !["out"] = "foreign"]
  /\ UNCHANGED <<pc, cancelled, configuration, backend, childVars, workerVars, resultVars>>

-----------------------------------------------------------------------------
(* Starting the media pipeline.  A child whose log thread cannot be started is
   terminated before the call returns, like one that never started. *)

SpawnDecoder ==
  /\ pc = "spawn_decoder"
  /\ \/ Start("decoder") /\ GoTo("spawn_encoder")
     \/ UNCHANGED childVars /\ ReturnFromInner("error")
  /\ UNCHANGED <<cancelled, configuration, workerVars, files, terminal>>

(* NVENC is probed before it is chosen; without it the CPU encoder is tried. *)
SpawnEncoder ==
  /\ pc = "spawn_encoder"
  /\ \/ Start("encoder") /\ GoTo("read_anchor")
     \/ /\ UNCHANGED childVars
        /\ GoTo(IF video_encoder = "software" THEN "abandon" ELSE "fallback")
  /\ UNCHANGED <<cancelled, configuration, workerVars, files, terminal>>

SpawnFallbackEncoder ==
  /\ pc = "fallback"
  /\ \/ Start("encoder") /\ GoTo("read_anchor")
     \/ UNCHANGED childVars /\ GoTo("abandon")
  /\ UNCHANGED <<cancelled, configuration, workerVars, files, terminal>>

(* No encoder: the decoder is terminated and its log thread waited for. *)
Abandon ==
  /\ \/ pc = "abandon" /\ Terminate("decoder") /\ GoTo("join_abandoned")
     \/ pc = "join_abandoned" /\ JoinLogWorker("decoder") /\ ReturnFromInner("error")
  /\ UNCHANGED <<cancelled, configuration, workerVars, files, terminal>>

-----------------------------------------------------------------------------
(* process_frames, reduced to where it can block and how it can end.  Returning
   from it drops the decoder's output pipe and the encoder's input pipe. *)

FramesFail == GoTo("stop_decoder")

(* The first frame is read before the flag is looked at. *)
ReadAnchor ==
  /\ pc = "read_anchor"
  /\ GoTo("head") \/ FramesFail
  /\ UNCHANGED <<cancelled, configuration, childVars, workerVars, files, terminal>>

LoopHead ==
  /\ pc = "head"
  /\ \/ ~cancelled /\ GoTo("read")
     \/ FramesFail
  /\ UNCHANGED <<cancelled, configuration, childVars, workerVars, files, terminal>>

(* Frames still in the pipe when the decoder exits count as read before it.  The
   end of the pipe between two frames is the end of the source, whatever became
   of the decoder. *)
ReadFrame ==
  /\ pc = "read"
  /\ IF process["decoder"] = "running"
     THEN \E label \in {"head", "write"} : GoTo(label)
     ELSE GoTo("write_tail") \/ FramesFail
  /\ UNCHANGED <<cancelled, configuration, childVars, workerVars, files, terminal>>

(* An interval and the tail hold at least one output each; a failure may come
   before the first or after it. *)
WriteFrames ==
  /\ pc \in {"write", "write_tail"}
  /\ \/ /\ ~cancelled /\ process["encoder"] = "running"
        /\ GoTo(IF pc = "write" THEN "head" ELSE "wait_decoder")
        /\ written' = TRUE
     \/ FramesFail /\ written' \in {written, TRUE}
  /\ UNCHANGED <<cancelled, configuration, childVars, was_cancelled, polls, uninspected, files,
                 terminal>>

(* An assertion of the scheduler fails after a write: the thread unwinds and drops
   its handles without waiting for either process. *)
Unwind ==
  /\ pc \in {"write", "write_tail"}
  /\ pc' = "unwound" /\ backend' = FALSE
  /\ written' = TRUE
  /\ UNCHANGED <<cancelled, configuration, childVars, was_cancelled, polls, uninspected, files,
                 resultVars>>

-----------------------------------------------------------------------------
(* Cleaning up after a failed or cancelled frame loop *)

StopDecoder ==
  /\ pc = "stop_decoder"
  /\ was_cancelled' = cancelled
  /\ Terminate("decoder")
  /\ GoTo("join_stopped_decoder")
  /\ UNCHANGED <<cancelled, configuration, written, polls, uninspected, files, terminal>>

JoinStoppedDecoder ==
  /\ pc = "join_stopped_decoder"
  /\ JoinLogWorker("decoder")
  /\ GoTo(IF was_cancelled THEN "grace" ELSE "stop_encoder")
  /\ UNCHANGED <<cancelled, configuration, workerVars, files, terminal>>

(* Mutant: the polls have no limit. *)
PollEncoder_unlimited ==
  /\ pc = "grace" /\ polls <= PollMax + 2
  /\ IF process["encoder"] = "running"
     THEN polls' = polls + 1 /\ UNCHANGED <<pc, reaped>>
     ELSE pc' = "join_stopped_encoder" /\ reaped' = reaped \cup {"encoder"} /\ UNCHANGED polls
  /\ UNCHANGED <<cancelled, configuration, backend, process, resisted, log_worker, log_failed,
                 written, was_cancelled, uninspected, files, resultVars>>

(* Mutant: the polls are not counted. *)
PollEncoder_uncounted ==
  /\ pc = "grace" /\ process["encoder"] # "running"
  /\ pc' = "join_stopped_encoder" /\ reaped' = reaped \cup {"encoder"}
  /\ UNCHANGED <<cancelled, configuration, backend, process, resisted, log_worker, log_failed,
                 workerVars, files, resultVars>>

(* wait_media_child_with_timeout: polls 0 to PollMax that tell how the encoder is *)
PollEncoder ==
  /\ pc = "grace" /\ polls <= PollMax
  /\ IF process["encoder"] = "running"
     THEN polls' = polls + 1 /\ UNCHANGED <<pc, reaped>>
     ELSE pc' = "join_stopped_encoder" /\ reaped' = reaped \cup {"encoder"} /\ UNCHANGED polls
  /\ UNCHANGED <<cancelled, configuration, backend, process, resisted, log_worker, log_failed,
                 written, was_cancelled, uninspected, files, resultVars>>

(* A poll fails: the window ends at once, and the encoder is killed.  When that
   fails too, the call returns and leaves the log thread to itself. *)
PollFails ==
  /\ pc = "grace" /\ polls <= PollMax
  /\ uninspected' = TRUE
  /\ Terminate("encoder")
  /\ IF "encoder" \in reaped'
     THEN GoTo("join_stopped_encoder")
     ELSE ReturnFromInner("error")
  /\ UNCHANGED <<cancelled, configuration, written, was_cancelled, polls, files, terminal>>

(* Mutant: the window closes one poll early. *)
EndGrace_early ==
  /\ pc = "grace" /\ polls >= PollMax
  /\ Terminate("encoder")
  /\ GoTo("join_stopped_encoder")
  /\ UNCHANGED <<cancelled, configuration, workerVars, files, terminal>>

(* The window is over.  When termination fails the call returns at once and
   leaves the log thread to itself. *)
EndGrace ==
  /\ pc = "grace" /\ polls > PollMax
  /\ Terminate("encoder")
  /\ IF "encoder" \in reaped'
     THEN GoTo("join_stopped_encoder")
     ELSE ReturnFromInner("error")
  /\ UNCHANGED <<cancelled, configuration, workerVars, files, terminal>>

(* Mutant: the encoder is killed and never waited for. *)
StopEncoder_unreaped ==
  /\ pc = "stop_encoder"
  /\ process' = [process EXCEPT !["encoder"] = IF @ = "running" THEN "killed" ELSE @]
  /\ GoTo("join_stopped_encoder")
  /\ UNCHANGED <<cancelled, configuration, reaped, resisted, log_worker, log_failed, workerVars,
                 files, terminal>>

StopEncoder ==
  /\ pc = "stop_encoder"
  /\ Terminate("encoder")
  /\ GoTo("join_stopped_encoder")
  /\ UNCHANGED <<cancelled, configuration, workerVars, files, terminal>>

JoinStoppedEncoder ==
  /\ pc = "join_stopped_encoder"
  /\ JoinLogWorker("encoder")
  /\ ReturnFromInner("error")
  /\ UNCHANGED <<cancelled, configuration, workerVars, files, terminal>>

-----------------------------------------------------------------------------
(* Finalizing: both children are waited for, without a limit and without a look
   at the flag, before either status is judged. *)

WaitFor(c, here, next) ==
  /\ pc = here /\ process[c] # "running"
  /\ reaped' = reaped \cup {c}
  /\ GoTo(next)
  /\ UNCHANGED <<cancelled, configuration, process, resisted, log_worker, log_failed, workerVars,
                 files, terminal>>

JoinAfterWait(c, here, next) ==
  /\ pc = here
  /\ JoinLogWorker(c)
  /\ GoTo(next)
  /\ UNCHANGED <<cancelled, configuration, workerVars, files, terminal>>

Finalize ==
  \/ WaitFor("decoder", "wait_decoder", "join_decoder")
  \/ JoinAfterWait("decoder", "join_decoder", "wait_encoder")
  \/ WaitFor("encoder", "wait_encoder", "join_encoder")
  \/ JoinAfterWait("encoder", "join_encoder", "publish")

(* Mutant: the decoder's status is not judged. *)
MediaSucceeded_encoder_only == ~log_failed /\ process["encoder"] = "success"

MediaSucceeded == ~log_failed /\ \A c \in Children : process[c] = "success"

(* Mutant: a rename that fails goes unnoticed. *)
Publish_unchecked ==
  /\ pc = "publish"
  /\ \/ /\ MediaSucceeded
        /\ files' \in {files, [files EXCEPT !["out"] = files["partial"], !["partial"] = "absent"]}
        /\ ReturnFromInner("ok")
     \/ ReturnFromInner("error") /\ UNCHANGED files
  /\ UNCHANGED <<cancelled, configuration, childVars, workerVars, terminal>>

(* The rename replaces whatever stands at the output path by now. *)
Publish ==
  /\ pc = "publish"
  /\ \/ /\ MediaSucceeded
        /\ files' = [files EXCEPT !["out"] = files["partial"], !["partial"] = "absent"]
        /\ ReturnFromInner("ok")
     \/ ReturnFromInner("error") /\ UNCHANGED files
  /\ UNCHANGED <<cancelled, configuration, childVars, workerVars, terminal>>

-----------------------------------------------------------------------------
(* Mutant: only the complete video counts as playable. *)
Playable_whole(content) == {content = "whole"}

(* partial_output_is_playable, when ffprobe can be run: a file without a frame has
   no timestamps and is refused, and one that holds frames is refused when its
   container rounds their timestamps (milliseconds, at 60 or 120 frames a second):
   an interval then differs from the first by more than the tolerance, unless there
   are too few of them.  Exact ones are accepted in a finalized file.  A torn file,
   or one this job did not write, may be accepted or not. *)
Playable(content) ==
  CASE content \in {"absent", "empty"} -> {FALSE}
    [] content \in {"cut", "whole"} /\ exact -> {TRUE}
    [] content = "torn" /\ ~written -> {FALSE}
    [] OTHER -> BOOLEAN

(* Mutant: the verdict uses the flag as the cleanup read it. *)
Report_stale ==
  /\ pc = "report"
  /\ pc' = "send"
  /\ \E probed \in BOOLEAN, partial \in Playable(files["partial"]) :
       terminal' = IF outcome = "ok" THEN Terminal("completed", FALSE, FALSE)
                   ELSE IF was_cancelled THEN Terminal("cancelled", probed, probed /\ partial)
                   ELSE Terminal("failed", FALSE, FALSE)
  /\ UNCHANGED <<cancelled, configuration, backend, childVars, workerVars, files, outcome>>

(* The flag is read again; the partial output is named when ffprobe can be run on
   it and accepts it. *)
Report ==
  /\ pc = "report"
  /\ pc' = "send"
  /\ \E probed \in BOOLEAN, partial \in Playable(files["partial"]) :
       terminal' = IF outcome = "ok" THEN Terminal("completed", FALSE, FALSE)
                   ELSE IF cancelled THEN Terminal("cancelled", probed, probed /\ partial)
                   ELSE Terminal("failed", FALSE, FALSE)
  /\ UNCHANGED <<cancelled, configuration, backend, childVars, workerVars, files, outcome>>

(* The terminal update is sent with a blocking send; the thread ends after it. *)
Send ==
  /\ pc = "send"
  /\ pc' = "sent"
  /\ UNCHANGED <<cancelled, configuration, backend, childVars, workerVars, files, resultVars>>

ThreadEnds ==
  /\ pc = "sent"
  /\ pc' = "done"
  /\ UNCHANGED <<cancelled, configuration, backend, childVars, workerVars, files, resultVars>>

Ended == pc \in {"done", "unwound"} /\ UNCHANGED vars

-----------------------------------------------------------------------------
Worker ==
  \/ CreateLog \/ Validate \/ Probe \/ Fit \/ MapGpu \/ CreateBackend \/ RemoveStalePartial
  \/ SpawnDecoder \/ SpawnEncoder \/ SpawnFallbackEncoder \/ Abandon
  \/ ReadAnchor \/ LoopHead \/ ReadFrame \/ WriteFrames \/ Unwind
  \/ StopDecoder \/ JoinStoppedDecoder \/ PollEncoder \/ EndGrace \/ StopEncoder
  \/ JoinStoppedEncoder \/ Finalize \/ Publish \/ Report \/ Send \/ ThreadEnds

EncoderExits == EncoderFails \/ EncoderFinalizes

Environment ==
  \/ \E c \in Children : LogWorkerEnds(c)
  \/ DecoderExits \/ EncoderOpensFile \/ EncoderExits \/ ForeignOutput

Next == Worker \/ PollFails \/ Environment \/ Cancel \/ Ended

Spec == Init /\ [][Next]_vars

(* The worker holds the decoder's pipe open without reading from it. *)
DecoderUnread == pc \in {"spawn_encoder", "fallback", "abandon", "join_abandoned"}

(* The worker and the log threads run, and no end of a job rests on a poll that
   fails; the source is finite, so a decoder whose pipe is read, or closed, ends.
   Nothing is said of the encoder. *)
Fairness ==
  /\ WF_vars(Worker)
  /\ \A c \in Children : WF_vars(LogWorkerEnds(c))
  /\ WF_vars(DecoderExits /\ ~DecoderUnread)

FairSpec == Spec /\ Fairness

(* An encoder whose input has ended finalizes its file. *)
EncoderEnds == WF_vars(EncoderOpensFile) /\ WF_vars(EncoderFinalizes)

-----------------------------------------------------------------------------
Labels ==
  {"create_log", "validate", "probe", "fit", "map_gpu", "create_backend", "remove_stale",
   "spawn_decoder", "spawn_encoder", "fallback", "abandon", "join_abandoned",
   "read_anchor", "head", "read", "write", "write_tail", "unwound",
   "stop_decoder", "join_stopped_decoder", "grace", "stop_encoder", "join_stopped_encoder",
   "wait_decoder", "join_decoder", "wait_encoder", "join_encoder", "publish",
   "report", "send", "sent", "done"}

TypeOK ==
  /\ pc \in Labels
  /\ {cancelled, needs_cuda, mapped, exact, backend, log_failed, written, was_cancelled,
       uninspected} \subseteq BOOLEAN
  /\ video_encoder \in {"automatic", "software", "nvidia"}
  /\ process \in [Children -> {"none", "running", "success", "failure", "killed"}]
  /\ reaped \subseteq Children /\ resisted \subseteq Children
  /\ log_worker \in [Children -> {"none", "reading", "ended", "joined"}]
  /\ polls \in 0..(PollMax + 1)
  /\ files \in [Paths -> Contents]
  /\ outcome \in {"none", "ok", "error"}
  /\ terminal \in [kind : {"none", "completed", "cancelled", "failed"}, probed : BOOLEAN,
                   partial : BOOLEAN]

(* Atomic completion: whatever fails and whenever, the output path shows nothing
   of this job but the complete video, in spite of a decoder that dies between
   two frames and looks like the end of the source. *)
OutputIsWhole == files["out"] \in {"absent", "foreign", "whole"}

(* The terminal update tells the truth about the output file. *)
VerdictMatchesOutput ==
  /\ terminal.kind = "completed" => files["out"] = "whole" /\ files["partial"] = "absent"
  /\ terminal.kind \in {"cancelled", "failed"} => files["out"] # "whole"

(* When run_job_inner has returned, on every path, no FFmpeg process is left
   running or unreaped and no log thread still holds the log, and the inference
   backend is gone: the next job finds the GPU free.  A process that resists its
   termination is the one exception, and does not keep the rest from being
   cleaned up. *)
NothingLeftBehind ==
  pc \in {"report", "send", "sent", "done"} =>
    /\ ~backend
    /\ \A c \in Children \ resisted :
         process[c] # "none" => /\ process[c] # "running"
                                /\ c \in reaped
                                /\ log_worker[c] = "joined"
    /\ process["decoder"] # "none" => log_worker["decoder"] = "joined"

(* After a cancellation the encoder gets the whole grace window: it is killed
   only when every poll has found it running, or when one could not tell.  Without
   a cancellation it gets none. *)
GraceBeforeKill ==
  process["encoder"] = "killed" =>
    IF was_cancelled THEN polls = PollMax + 1 \/ uninspected ELSE polls = 0

(* "Validated playable partial outputs after graceful cancellation": a cancelled
   job names no partial output that is not there or holds no frame; and it names
   one that holds frames and whose encoder finalized it in time, if its timestamps
   are exact and ffprobe could be run.  (Rounded timestamps may be refused, and a
   partial output of an earlier job may be named.) *)
FinalizedPartialReported ==
  terminal.kind = "cancelled" /\ "encoder" \notin resisted =>
    /\ terminal.partial => files["partial"] \notin {"absent", "empty"}
    /\ /\ files["partial"] \in {"cut", "whole"} /\ process["encoder"] = "success"
       /\ exact /\ terminal.probed
       => terminal.partial

(* What the worker tells the desktop is what JobContract allows. *)
Contract == INSTANCE JobContract WITH
  phase <- CASE pc = "send" -> "reporting" [] pc = "sent" -> "sent" [] pc = "done" -> "exited"
             [] pc = "unwound" -> "unwound" [] OTHER -> "running",
  terminal <- terminal.kind

ContractSpec == Contract!Spec

(* A job cancelled while frames are moving ends although nothing is known of the
   encoder but that it takes its input: the window is bounded. *)
CancelledJobEnds == (cancelled /\ InFrameLoop) ~> pc \in {"done", "unwound"}

(* Every job ends when both FFmpeg processes do their part, or can be killed. *)
JobEnds == EncoderEnds => <>(pc \in {"done", "unwound"} \/ resisted # {})

-----------------------------------------------------------------------------
(* What the documentation and the tests say, and the code does otherwise *)

(* "output path must differ from input path": a job never destroys its input. *)
InputKept == files[InputPath] = "source"

(* "output already exists; choose another filename" *)
ForeignOutputKept == [][files["out"] = "foreign" => files'["out"] = "foreign"]_vars

=============================================================================
