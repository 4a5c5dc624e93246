# A verification development for Interpolate

Interpolate is a Linux desktop program that raises the frame rate of a video: a
GPUI application starts one job at a time, a worker thread drives an FFmpeg
decoder, a RIFE inference backend and an FFmpeg encoder, and a tray icon controls
the program while its window is hidden. This directory holds TLA+ models of the
parts whose correctness depends on order, interleaving or failure, the TLC
configurations that check them, and machine-checked proofs of every safety
property the passing runs check.

- Parse a module with `tlasany M.tla`.
- Check a run with `tlc -config X.cfg M`.
- Check the proofs of a module with `tlapm M.tla`. `JobProofs`, `FramePipelineProofs`
  and `PreparationProofs` take one to two minutes, `SettingsProofs` half a minute,
  `DesktopProofs`, `JobLogProofs`, `InferenceProofs` and `NativeBackendProofs` seconds.

All source paths below are relative to the repository.

## 1. Inventory

### Components and how they interact

| Component | Source | State it keeps | Operations | Status |
|---|---|---|---|---|
| Frame loop | `src/pipeline.rs` `process_frames` | anchor and candidate frame and index, length of the run of copies, the long-hold flag | read, classify, extend a run, write an interval, end of stream | `FramePipeline` |
| Output scheduler | `src/pipeline/scheduler.rs` | output index, inference count, cadence diagnostics | `write_span`, `write_frame`, `report_progress`, `finish` | `FramePipeline` |
| Cadence analysis | `src/cadence.rs` | none | frame difference, duplicate test, smoothable run | partly, in `FramePipeline` |
| Job worker | `src/pipeline.rs` `run_job`, `run_job_inner` and the child-process helpers | processes, log threads, partial and final file, the terminal update | validate, probe, map the GPU, create the backend, spawn, clean up, finalize, publish, report | `Job` |
| Preparation of a job | `src/pipeline.rs`, `src/backend.rs` | the configuration as it is adapted, metadata, the CUDA index | probe, check rates, fit memory, format and VRAM, map the GPU, choose the encoder | `Preparation`; without data in `Job` |
| Desktop: job control | `src/app.rs` | `running`, `cancellation`, `worker`, `quit_after_job`, background mode, the update channel | start, cancel, poll, conclude, close, drop | `Desktop` |
| Desktop: settings and menus | `src/app.rs` | two pages, four tabs, six menus, selections, switches, text fields, source and output, open prompts | navigate, open, close, select, toggle, edit, choose files | `Settings` |
| Desktop: rendering | `src/app.rs`, widgets | none | layout | not modelled |
| System tray | `src/tray.rs` | command queue, menu state | click, stop, set running | `Desktop` |
| Job log | `src/logging.rs` | a file with a size limit, 200 recent lines, five rotated files | write, drain a process, rotate | `JobLog`, but for the recent lines |
| Inference backend | `src/backend.rs` | which engine a job owns | create, interpolate, drop, list GPUs, map devices | `Inference`, `Preparation` |
| CUDA worker process | `src/backend.rs`, `scripts/pytorch_rife_worker.py` | a Python process and its pipes | handshake, request, answer, stop | `Inference` |
| Native backend | `native/interpolate_backend.cpp` | a GPU instance and a count of backends behind one mutex | create, interpolate, destroy, list GPUs, shut down | `NativeBackend` |
| RIFE and ncnn | `native/rife`, `third_party` | - | - | third-party |
| Build and packaging | `build.rs`, `scripts` | - | - | no state at run time |

The desktop starts a worker thread per job and shares two things with it: an
atomic cancellation flag and a channel with room for **one** update. Status
updates are sent with `try_send` and may be lost; the terminal update is sent with
a blocking `send`. The receiving end belongs to a task on the UI thread. The tray
thread sends commands through a bounded queue to another task on the UI thread.
The worker talks to FFmpeg through pipes and keeps one thread per process that
drains its standard error into the log. The frame loop runs inside the worker,
between the start of the encoder and the clean-up.

### What is hard here

- *Arithmetic of two timelines.* Output positions are compared with source positions in
  integers scaled by both frame rates; half-open intervals must meet exactly for every
  ratio, and the quotient handed to the network is an `f32`.
- *Decisions that span iterations.* Whether an interval is synthesized depends on a run
  counter, a long-hold flag and an anchor that move together.
- *Partial failure.* Each of about twenty steps of a job may fail; four different
  sequences of steps clean up after it.
- *Processes.* FFmpeg may die or finish at any moment, and a decoder that dies between two
  frames looks like one that reached the end.
- *Interleaving.* The flag is read at several places; the worker's end, the last update,
  the polling task, clicks, tray commands and closing the window race.
- *Handlers that assume.* Each of some thirty handlers of the settings asserts what it
  believes of the menus; prompts answer later, when a job may be running.
- *Settings that change on the way.* Memory, pixel format, VRAM and the encoder each
  change the configuration of a job, one after the other, and Vulkan, CUDA and
  `nvidia-smi` number the same cards differently.
- *Blocking.* Full pipes of diagnostics, a handshake that never comes, joins of log
  threads, waits for processes, a blocking send into a channel of size one, and a `Drop`
  that joins on the only thread that could empty that channel.

### What makes each component correct

- *Frame loop and scheduler*: intervals tile the timeline; the duration is kept; each
  output stands in its interval; a shot boundary is never blended; only holds of two or
  three frames are smoothed and longer ones are copied; the counters add up; neither index
  passes its limit; nothing starts after a cancellation; the loop returns.
- *Job worker*: the output path never shows anything but the whole video; the verdict
  tells the truth; nothing is left running; the encoder gets its grace window; a partial
  output that was finalized and that ffprobe accepts is reported; the job ends.
- *Desktop and tray*: the application's fields agree with each other and with the thread;
  at most one worker thread lives, from its start to its join; the terminal update is
  never lost; a deferred quit is carried out and does not outlive its job; the backend
  outlives the worker; shutting down ends.
- *Settings*: no handler panics; what is shown is what a job runs with; the mark
  "Modified" and the name of the output follow from the settings.
- *Preparation*: a job starts only with what the machine has, on the card that was chosen
  as far as the numbering of the libraries allows, and differs from the request only by
  adaptations, each made for its reason.
- *Inference*: the GPU instance outlives every user; an engine that is gone has reaped its
  process, unless it could not be killed; a hanging process cannot keep an engine from
  starting or stopping.
- *Job log*: the history survives rotations that stop half way; diagnostics never block a
  process.

`PROJECT.json` lists each hazard at its line with the properties that cover it.

## 2. The modules

| Module | Models | Relation |
|---|---|---|
| `FramePipeline` | `process_frames` and `OutputScheduler` | implements `Resampling` |
| `Resampling` | what the loop promises: each output is a frame its position admits | abstract |
| `MCFramePipeline` | pictures and configurations for TLC | extends `FramePipeline` |
| `FramePipelineProofs` | theorems about the frame loop | extends `FramePipeline` |
| `Job` | one job: worker, FFmpeg processes, log threads, files | implements `JobContract` |
| `JobContract` | what a desktop may rely on from a worker | used by both |
| `JobProofs` | theorems about a job, the contract among them | extends `Job` |
| `Desktop` | application, channel, tray, shutdown | takes its worker from `JobContract` |
| `DesktopProofs` | theorems about the application | extends `Desktop` |
| `Settings`, `MCSettings` | pages, menus, fields and prompts of the application | the job is only running or not |
| `SettingsProofs` | theorems about the settings | extends `Settings` |
| `Preparation`, `MCPreparation` | the head of `run_job_inner` with its data | the steps `validate` to `spawn_encoder` of `Job` |
| `PreparationProofs` | theorems about the preparation | extends `Preparation` |
| `NativeBackend` | the native library and its mutex | extended by `Inference` |
| `NativeBackendProofs` | theorem about the library | extends `NativeBackend` |
| `Inference` | both engines; the CUDA process, its pipes and threads | composes with `NativeBackend` |
| `InferenceProofs` | theorems about the engines; they use the library as any caller | extends `Inference`, `NativeBackendProofs` |
| `JobLog` | rotation and the threads that read diagnostics | the log threads of `Job` in detail |
| `JobLogProofs` | theorems about the rotation | extends `JobLog` |

The three levels compose: `Desktop` runs the worker of `JobContract`, `Job` shows
that the real worker implements it, and the one step "frames are moving" of `Job`
is what `FramePipeline` describes in detail.

### FramePipeline

One job's frames. `anchor`, `candidate`, `run` and `preserving` are the locals
`anchor_index`, `candidate_index`, `cadence_run_frame_count` and
`preserving_long_hold`; `output_index`, `inferences` and `diagnostics` are the
scheduler's fields. `decoded` is the history of frames read and `encoded` the
history of frames written, an output being the pair of source frames it was made
from (twice the same one for a copy). `pc` tells where the worker is:

| `pc` | Code |
|---|---|
| `anchor` | reading the first frame |
| `head` | top of the loop: flag, frame limit, read |
| `compare` | a candidate was read; classify it |
| `span` | in `write_span`, in front of an output |
| `infer`, `write` | in the backend call, in the write to the encoder |
| `done` | returned; `result` tells what |

Each branch of the loop body is an action (`ExtendRun`, `BeginLongHold`,
`ContinueLongHold`, `NewPicture`, `EndOfStream`), and `write_span` is taken one
output at a time so that a cancellation may come between any two. `Refusal` holds
its checks in the code's order. Abstractions:

- A frame's pixels are a *picture*, and the thresholds of `cadence.rs` are the
  function `Difference` on ordered pairs of pictures. It is a parameter, so nothing
  is assumed of it: it need not be symmetric or transitive.
- The `f32` timestep is 1.0 exactly when the quotient is within half an ulp of 1;
  `TimestepIsOne` says that with integers, with `TimestepBits` = 24 in the program.
  A timestep that underflows to 0 cannot occur, because relative positions are
  integers of at most the magnitude of durations that `f32` represents.
- The `checked_add` errors are left out: an index is below
  `OUTPUT_FRAME_COUNT_MAX` = 10^8 when it is incremented, since `OutputBounded` holds.
- Throughput figures, progress estimates and log texts are left out.

### Job

`pc` walks through `run_job_inner`; each step may fail. A process is `running`,
`success`, `failure` or `killed`; `reaped` and `log_worker` record what the worker
has collected. `files` maps the three paths to what they hold, so that *torn*,
*cut* and *whole* outputs are told apart. What the worker cannot see is
nondeterministic: when a process exits and how, whether `kill` works (`resisted`),
whether a log thread reports an error, whether a poll of the encoder fails
(`PollFails`, which ends the grace window early), whether ffprobe can be run, and
what it says of a torn file. A file that was finalized without a frame is `empty`
(`written` tells that the encoder received one) and is never playable. One that holds
frames is playable when its container keeps the timestamps of the target rate exactly
(`exact`); otherwise `validate_constant_frame_rate` may refuse it. The terminal update
is chosen (`Report`), sent with a blocking send (`Send`), and the thread ends later
(`ThreadEnds`). Abstractions:

- The choice between NVENC and the CPU encoder is a spawn that fails or not.
- `process_frames` is reduced to where it can block and how it can end.
- Frames still in the decoder's pipe when it exits count as read before its exit.
- Settings checked by `validate_configuration` may fail as one choice; the checks
  on paths, which read the file system, are explicit.
- Waiting for a child that has exited never fails.
- Another program may create the output file at any moment (`SharedDirectory`), and
  does not touch the partial file while the job writes it.

### Desktop

One action per handler. Handlers and both polling tasks run on one thread, so each
is atomic; the worker's steps interleave with them. The worker is in phase `sent`
between the return of its blocking send and the end of its thread, so that an update
may be polled and applied while the thread still runs; that is what the join in
`apply_update` (`app.rs:1800`) is for. `Conclude` is `apply_update`
with a terminal update, with the join, the tray update and the deferred quit it
contains. `Drop` is two steps, since the worker may run between the flag and the
join. `window` = `dropping` means that the entity is being dropped: no task of the
UI thread runs any more. The bound `JobMax` limits the number of jobs a user
starts. The cap of the polling task (4,838,400 polls of 125 ms, seven days) is the action
`PollerExpires`, which may be taken at any moment. The cap on tray polls is left out.

### Settings

One action per handler: a click, a key, or the answer of a prompt. `Handle` runs a handler
between the assertions at its entry and at its exit; the first that fails ends the
program, and `failed` names the handler. A click is possible where the element is drawn:
`TabOf`, `SwitchTab` and `FieldTab` say on which tab, and a menu's items can be clicked
while it is open. The six toggles are one action with the differences of the six functions
in `Closes`, `Offers`, `ToggleEntry` and `ToggleExit`. Abstractions: a text field shows a
valid value or `Invalid`; a derived output name is the tuple of what it is made from;
starting the worker thread does not fail (its failure changes nothing but a message);
`marked_for`, which is not in the code, remembers the video that was shown when the UHD
mode was switched; the end of a job is `JobEnds`, whatever it was, as `Desktop` describes
it.

### Preparation

`configuration` starts as `request` and is changed by `FitMemory`, `FitFormat` and
`FitVram`; `encoder_choice` by the fallback. Each change is handed to `send_update`
(`Adapt`): `adapted` collects the changes, `told` those whose notice found the channel
empty, as `try_send` drops the others. What the machine says is chosen where the code
asks for it: the source in `Probe`, the memory of the host and the cgroup in
`FitMemory`, the VRAM in `FitVram`, and each run of FFmpeg that tries an encoder may
come out differently. `devices` and `encoder` record what the processes are started with.

Cards have an identity here, and there are three lists of them: Vulkan's, from which
the user chooses; CUDA's, which torch reports and whose numbers the CUDA process,
NVDEC and NVENC take; and that of `nvidia-smi`, by place on the bus.
`cuda_inference_device_index_for_gpu` looks a card up in the second and
`cuda_device_index_for_gpu` in the third; `map_gpu_index` chooses by the inference
backend, and either index is then a CUDA number, which may name another card or none.
`PreparationAssumption` says of the lists only that Vulkan and CUDA list no card twice.
Two further conditions stand in the property `MachineSuits` as hypotheses, because the
code does not establish them: that cards of one name are numbered alike
(`NumberedAlike`), and that `nvidia-smi` lists the cards as CUDA does.

Sizes in KiB and timestamps in halves of a millisecond are integers; `Fails` is the
failure of a program or file at any step, and a cancellation.

### NativeBackend and Inference

`NativeBackend` has one action per section under `gpu_mutex`; only `create` keeps
the mutex over several steps (`loading`), and an exception releases it before the
handler takes it again (`recovering`). The library is checked for threads that call
it at the same time, as its mutex is meant for, although the program's own callers
take turns. `Inference` adds `CudaBackend` on the job's thread, the thread that waits for
the handshake, the thread that drains the diagnostics, and the Python process, which
may write diagnostics before any of its steps, answer the handshake wrongly, hang,
exit, or resist `kill`. A request is larger than a pipe, so it is sent while the
process reads it. A thread that cannot be started panics (`panicked`). The thread of
the diagnostics ends at the end of the pipe or at a read error (`ReadStderrFails`),
which closes the pipe: a process that writes to it later gets an error and goes on or
exits, but does not wait. The thread of the handshake is detached: nobody joins it, and
after a startup that timed out it may still read. The model follows the latest engine
of a job, and a panic ends it.

### JobLog

The first part rotates: every file operation is a step, so that a rotation may be
abandoned after any of them (`Abort`, a failed call or the end of the program) and
two instances of the program may rotate at once; `overlapped` notes that they did.
The second part follows one instance: processes write lines into pipes that
hold `PipeRoom`, each with its thread, and the threads share a log that has a size
limit or fails. The recent lines kept for error texts are left out, and so are
writes that fail half way, which the code does not count against the size limit.

## 3. The runs

| Run | Instance | What it shows |
|---|---|---|
| `frames` | 5/2, up to 6 frames of 4 pictures, Movie and Anime | tiling, positions, duration, scene and cadence protection, counters, refinement of `Resampling` |
| `frames_limits` | 5/4, limit of 6 frames, one-bit timestep, the other two configurations | limits, no start after a cancellation, termination |
| `job` | grace window of 2 polls, shared directory | completion, verdicts, clean-up, grace, contract, end |
| `desktop` | 2 jobs, tray queue of 2 | agreement of application and worker, delivery, deferred quit, shutdown of an idle program |
| `settings` | 2 sources, 2 frame rates, 2 encoders, 1 GPU | assertions of handlers, marks, settings shown, names of outputs |
| `preparation` | 5 machines, 8 sources, memory and VRAM at every threshold and just below | changes with their reasons and nothing else, the card used, enough memory |
| `inference` | 2 threads, pipe of one diagnostic, one kept | GPU instance, no process left that could be killed, calls return |
| `job_log` | 2 instances, 4 files, 5 jobs, 2 rotations that stop, 1 process | history, diagnostics drained |
| `desktop_shutdown`, `job_input`, `job_overwrite`, `settings_click` | | one finding each, section 6 |

Every property of a passing run has a mutant: a plausible bug of the code that
makes TLC find the property violated under the same configuration. Mutants stand
next to the definition they change.

*Bounds.* Six source frames are enough for a hold of four that is entered from another
picture and left for a third, and for two runs in a row. The four pictures 0, 1, 2, 5 lie
on a line: neighbours count as copies of each other, so that similarity is not transitive
and a hold can drift; 5 is another shot from 0 and 1. At 5/2 an interval holds two or
three outputs and positions coincide at every second source frame; at 5/4 intervals hold
one or two. Sources of up to seven frames go one beyond the limit of six: they reach the
source limit, the output limit and, with one significant bit, the refused timestep. The
proofs of section 5 remove these bounds for safety. Two polls make the first, a middle and
the last poll of the grace window different. Two jobs are enough for anything one job
leaves to the next, and two queued commands for one that arrives after the job it was
meant for.

In `settings` one GPU and one switch stand for several, since their handlers are
alike; two frame rates and two sources are what it takes for a name or a mode to be
that of another. The five machines of `preparation` are one whose three lists all
differ, with two cards of one name among three; one where `nvidia-smi` and CUDA list two
cards alike; one where CUDA sees only the second of two cards of one name; one where
`nvidia-smi` and CUDA agree on three cards and Vulkan differs; and one without NVIDIA
cards. The amounts of memory lie at and below each threshold.
Four log files and five jobs let a log move through every place and out, with one
or two gaps; pipes of one line are full at once. One process is enough in `job_log`:
its thread shares nothing with another but the size of the log, and a write may
fail in any case.

*Deadlock* is checked everywhere but in `job_log`, where `JobMax` ends the
exploration, and in the two `Desktop` runs: there the finding
`desktop_shutdown` is a state in which the real program stops, so a deadlock is no
news, and `IdleShutdownEnds`, `JobSettles` and `QuitHonoured` say what does go on.

## 4. Fairness

- `FramePipeline`: weak fairness of the worker's next step. It is a running
  thread; that reads, writes and inferences return is what FFmpeg and the backend
  owe. `Terminates` assumes nothing of the user.
- `Job`: weak fairness of the worker's enabled steps and of the log threads; of the
  exit of the decoder only while its pipe is read or closed, since a full pipe
  stops it. Nothing is assumed of the encoder in `CancelledJobEnds`, which is why
  the grace window must be bounded. `JobEnds` assumes in addition that an encoder
  whose input has ended finalizes its file (`EncoderEnds`), and excludes a process
  that resists `kill`: the code then waits for its log thread without a limit.
- `Desktop`: the worker ends (`JobEnds`), its blocking send takes the slot when
  it can, the timers of both tasks fire while the UI thread lives, and `Drop` runs
  on. Nothing is assumed of the user or the tray.
- `Inference`: the engine's own steps and threads run on, and the time limit of the
  handshake passes. The Python process is fair only in the second half of
  `CallsReturn`, about requests, which have no limit; and a process that cannot be
  killed is excluded, since `terminate_process` waits for it.
- `JobLog`: the threads that read run on, and a process that can write writes. No
  process need end.

`Settings` and `Preparation` have safety properties only.

## 5. What is proved

The only assumptions are the named ones on the constants, which TLC evaluates in each
run. Every theorem holds for all their values, and so without the bounds of section 3.

### Frame loop

`FramePipelineProofs` holds for every pair of frame rates with
0 < `FactorDen` < `FactorNum` (`validate_target_fps` refuses the others), every
frame limit of at least 2, every timestep precision, every set of pictures and
every classification of pairs of them, and sources of any length.

| Theorem | States |
|---|---|
| `TypeCorrect` | type invariant |
| `LoopCorrect` | the inductive invariant `LoopInv` |
| `IntervalsTile` | `SpansTile`: the scheduler's "overlapping source span" is unreachable |
| `DurationIsKept` | `DurationKept`: a job that succeeds has the output frames its source asks for |
| `OutputIsBounded` | `OutputBounded` |
| `FramesCorrect` | the invariant `FramesInv` over everything written |
| `OutputsAreOnTimeline` | `OnTimeline` |
| `ShotsAreProtected` | `SceneProtected` |
| `CadenceIsProtected` | `OnlyShortHoldsSmoothed` |
| `SourceFramesAreKept` | `SourceFramesKept` |
| `CancellationStopsOutput` | `NothingStartedAfterCancel`, an action property |
| `HoldsAreTracked` | the inductive invariant `Holding` |
| `LongHoldsAreKept` | `LongHoldsKept` |
| `CountersDoAgree` | `CountersAgree` |
| `LoopImplementsResampling` | `Spec => ResamplingSpec` |

*The argument.* None of these is inductive alone. `LoopInv` has five parts:

- `Progress`: how many frames were read at each point of the loop, and that the
  next output stands at or after the anchor, less than one output distance after
  the end of the last interval, and inside the interval while an output is made;
- `Cadence`: a pending run holds copies of the anchor, has exactly
  `candidate - anchor` frames, and spans at most three;
- `Decided`: an interval that is synthesized ends neither in a copy nor in a cut;
- `Limits` and `Outcome`: where the indices stand and what was returned.

`DurationKept` needs the upper bound of `Progress` at the end of the tail;
`SceneProtected` and `OnlyShortHoldsSmoothed` need `Decided` and `Cadence` at the
moment of the write, and then that what an output was made from never changes
(`DecodedKept`, `ClassKept`, `SoundKept`). Each part has its step lemma, with a
case for each action or for a group of actions that leave the part alone. The
refinement proof maps every action to an abstract one: reads to `Arrive`,
`BeginOutput` to `Start`, `WriteOutput` to `Emit`, `Finish` to `Succeed`, errors
to `Fail`; classification and bookkeeping stutter.

`LongHoldsKept` needs one more invariant. `Holding` says what the loop knows of the hold
its anchor stands in: a hold that began before the anchor is being preserved and is at
least three frames old, a hold that is preserved is read one frame at a time and its
anchor is a copy of an earlier frame, and an interval is copied exactly when its end is a
confident duplicate. `Held`, a drawing entered from another one and kept from frame `i` to
`j`, refers to frames that were read and never changes (`HeldKept`), so a write needs only
the hold of its own anchor. `CountersAgree` counts what was written by cardinalities of
sets of positions; each write adds one position to at most one of them, and `Counted` adds
that the worker is in front of the network only to synthesize. In its last conjunct a
duplicate or a cut is charged to the frame that was read for it.

### Native library and inference

`NativeBackendProofs` holds for every set of threads: `InstanceIsKept` states
`InstanceWhileUsed`. Its inductive invariant `NativeInv` adds to it that a thread that
loads holds the mutex alone and found no backend (`LoadingAlone`), and that
`backend_count` is the number of owners (`CountIsOwners`); without the first a
release by another thread could not be excluded while a model is loaded, without the
second `release_gpu_instance_if_idle_locked` could not be trusted to see a user.

`InferenceProofs`: `NoWorkerIsLeft` states `NoWorkerLeft`. Its invariant `EngineInv` adds
that an engine on its way has a process to stop, and that one which waits for the thread
of the diagnostics has reaped its process or could not kill it. The property is about
the ways out that return; a panic between the start of the process and its threads
leaves the process unreaped, and the comment of the property says so.
`EnginesUseLibrary` shows that a step of either engine is a step of `NativeBackend`
or leaves its state alone, so `InstanceIsKeptByEngines` follows from the theorem
about the library.

### Job

`JobProofs` holds for both names of the input, every length of the grace window, and
with or without other programs in the directory.

| Theorem | States |
|---|---|
| `JobCorrect` | the inductive invariant `JobInv` |
| `TypeCorrect` | `TypeOK` |
| `OutputIsAtomic` | `OutputIsWhole` |
| `VerdictIsTrue` | `VerdictMatchesOutput` |
| `CleanupIsComplete` | `NothingLeftBehind` |
| `GraceIsWhole` | `GraceBeforeKill` |
| `PartialIsReported` | `FinalizedPartialReported` |
| `JobMeetsContract` | `ContractSpec`: the worker `Desktop` is built on |

`JobInv` follows the worker through its steps. `Started`: which processes exist at each
step, and that a log thread ends only after its process. `Collected`: which exit
statuses and threads the clean-up has collected so far, on each of the four ways out.
`Encoded`: what the partial file holds; an encoder that succeeded left an empty video, a
cut one or a whole one, and a whole one if the loop wrote all frames and both processes
succeeded. `Grace`: polls are counted for a cancelled job only, and nothing kills an
encoder before they are over or one has failed. `Verdict`: the terminal update agrees
with the outcome, and names a partial output only as `FinalizedPartialReported` allows.
That property holds under what the code can know: ffprobe could be run, and the
container keeps the timestamps exactly.
`VerdictMatchesOutput` needs `Encoded` and `Verdict` together. The refinement maps
`send`, `sent`, `done` and `unwound` to phases of the contract and everything before
them to a worker that runs; every action but `Report`, `Send`, `ThreadEnds`, `Unwind` and
`Cancel` stutters.

### Desktop

`DesktopProofs` holds for any number of jobs and any capacity of the tray's queue:
`JobStateIsCoupled`, `TerminalIsDelivered`, `QuitBelongsToJob`,
`BackendIsShutDownLast`, and `JobsDoNotOverlap` for the action property
`OneActiveJob`. The application learns of its worker only through a channel that may
drop updates, so `DesktopInv` needs `Channel` (a terminal update in the channel is the
last thing the worker sent, and a worker that has sent while somebody polls has put it
there), `Joined` (a thread that was joined does not run) and `Reported` (what the
contract says of the terminal update). `OneActiveJob` follows because starting needs
`running` to be false; `JobStateCoupled` ties that to the handle, and `Joined` ties the
handle to the end of the thread, which comes after its terminal update.

### Settings

`SettingsProofs` holds for every set of sources, text fields, profiles and encoders:
`OverridesAreTruthful`, `OutputIsOfInput`, `DisplayIsOfJob` and `AssertionsHold` for the
four invariants of the run. `OverridesTruthful` says in both directions when a setting is
marked; the mark of the UHD mode is judged by the video that was shown when it was set, as
the code keeps it over a later choice of a source (section 6). `SettingsInv` is their
conjunction with three facts that they need: a valid text field shows its value
(`FieldsAgree`), metadata are those of the input (`MetadataOfInput`), and a job closes
every menu but the one the findings are about (`MenusFit`). `AssertionsHold` covers each
assertion of each handler but those of `KnownFailures`.

### Preparation

`PreparationProofs` holds for every set of requests, videos and machines within
`PreparationAssumption`. `RequestIsHonoured` rests on `Applied`: the configuration is, at
every step, a function of the request and of the adaptations so far (`RequestWith`);
`AdaptedInOrder` and `AdaptedTruth` say at which step and for which reason one may have
been made, and `ToldIsTrue` that a notice that arrived belongs to one that was. That each
arrives is not claimed: the code does not see to it.

`MachineIsSuited` rests on `DevicesPlaced`: what the processes were started with is the
CUDA card of the index, or Vulkan's of the selection. A lookup finds a card of the name
selected (`SameName`). That it is the selected one holds under the hypothesis
`NumberedAlike`: the card which Vulkan lists as the n-th of its name is then the n-th of
its name for CUDA. That is counting, so it is proved by cardinalities of sets of
positions (`SameCount`, `SameCard`) instead of by induction over the list. With Vulkan
inference the index comes from the list of `nvidia-smi`, and the name is claimed only
where that list is CUDA's. `Mapping` adds that a job which needs a CUDA device and has
none does not get past the mapping.

The proof attempt corrected the model once: the guards of the CASE in `MapGpu`
overlapped, and TLA+ then leaves open which branch is meant. It is an IF now, in the order
of the code.

### Job log

`JobLogProofs` holds for any number of instances and log files and any number of
stopped rotations: `HistoryIsKept` states `HistoryKept`. The property only says how
many logs survive; the invariant says where each one is. The log of job `j` stands at
an index of at most the number of jobs since, plus one for each stopped rotation, plus one if
the rotation under way has moved it (`Placed`); only one instance rotates (`Alone`), and
the place a log moves into is free (`Vacant`), so no rename replaces a log.

### Only model-checked

- Liveness: `Terminates`, `CancelledJobEnds`, `JobEnds`, `JobSettles`, `QuitHonoured`,
  `IdleShutdownEnds`, `CallsReturn`, `DiagnosticsDrained`. Fairness is out of the
  prover's reach.
- The four findings: each is a counterexample.
- `greatest_common_divisor` in `Preparation`: what it computes for every input would be
  an induction over data. `MCPreparation` compares it with its definition up to 40;
  the theorems assume nothing of it.

## 6. Findings

- `desktop_shutdown`: closing the window during a job may hang. `Drop` joins the
  worker on the UI thread (`app.rs:3972`); the receiver belongs to a task that can
  no longer run and is not dropped; when the slot of the channel is taken, the
  worker's blocking send (`pipeline.rs:648`) never returns.
- `job_input`: an input named like the partial output passes validation and is
  removed as a leftover (`pipeline.rs:875`).
- `job_overwrite`: an output file that appears while the job runs is replaced by
  the final rename (`pipeline.rs:1011`).
- `settings_click`: the selector of encoder presets stays clickable while a job
  runs; its handler asserts `encoder_preset_menu_open || !running` on entry
  (`app.rs:966`) where its sibling asserts `!h264_profile_menu_open || !running`
  (`app.rs:1017`), and starting a job has closed the menu, so the click panics.

### Noted while modelling, without a run

- The output that reaches `OUTPUT_FRAME_COUNT_MAX` trips the assertion of
  `report_progress` (`scheduler.rs:287`), so the error that the limit is meant to return
  is never returned and the worker unwinds.
- A job that is cancelled before it starts reports the partial file of an earlier job as
  the one it saved (`pipeline.rs:642`).
- With NVENC selected by name and no CUDA device for the chosen GPU the job fails before
  the fallback to the CPU encoder is reached (`pipeline.rs:819`).
- The menu of inference backends is the one `start_job` leaves open; toggling it or
  selecting in it while the job runs fails an assertion (`app.rs:1325`, `1353`). With an
  output argument but no source, `refresh_default_output` fails its own (`app.rs:1525`).
  `KnownFailures` in `Settings` holds exactly these cases.
- The Encoding tab offers x264 presets for the automatic encoder, though the job may
  resolve it to NVENC, where such a preset becomes `p5`.
- A prompt that was open when a job started may change source, output and UHD mode on the
  screen; a source that cannot be probed keeps the former output name.
- A cgroup at its limit leaves 0 bytes, and `available_memory_bytes` asserts that there
  are some: the worker panics where an error is meant (`panic` in `Preparation`). The
  second condition for the low-memory mode (`pipeline.rs:1912`) never decides, as three
  frames and the reserve stay below 6 GiB.
- With Vulkan inference the index that `nvidia-smi` gives a card is used as a CUDA number
  for NVDEC and NVENC (`backend.rs:198-274`, `pipeline.rs:809-816`). Nothing sets
  `CUDA_DEVICE_ORDER`, and CUDA lists the fastest card first, so on a machine with
  different NVIDIA cards another one than the selected may decode and encode. That cards
  of one name stand in one order in Vulkan's and CUDA's list is also taken for granted.
  `MachineSuits` states both as conditions.
- The notice of an adaptation is a status update and may be lost (`pipeline.rs:2075`): the
  notice of the encoder fallback (`pipeline.rs:897`) may follow the status before it
  (`pipeline.rs:880`) within one poll interval. No document promises that it arrives; the
  "safe CPU H.264 fallback" of the repository's `README.md:28` happens all the same.
- A partial output that was finalized is probed like a source. Matroska rounds timestamps
  to milliseconds, so at 60 or 120 frames a second the intervals alternate by more than
  the tolerance of `validate_constant_frame_rate` (`pipeline.rs:1705-1808`), and the file
  is not reported as saved although it plays (`README.md:22` and `130` of the repository
  speak of what FFprobe confirms). An output of no frames has no timestamps and is refused
  rightly.
- The mark "Modified" of the UHD mode is kept when another source is chosen (`app.rs:588`,
  `598`). With Anime, UHD switched on over a smaller source and then a UHD source, the
  setting is the default and still marked, where `CONTEXT.md:18` says that a modified
  preset is one whose settings "differ from its resolved defaults".
- Diagnostics of the CUDA worker are cut at 4096 bytes with `truncate`, which panics
  inside a character; a thread that cannot be started panics in `CudaBackend::create` and
  leaves the process unreaped; an answer has no time limit, so a cancellation cannot
  interrupt a worker that hangs.
- Two instances that rotate at once may remove or truncate each other's newest log or fail
  the assertion at `logging.rs:252`; each rotation that stops half way costs one log.

## 7. Plan

Done, in this order: `FramePipeline`, `Resampling`, `Job`, `JobContract`,
`Desktop`, `FramePipelineProofs`, `Settings`, `NativeBackend`,
`NativeBackendProofs`, `Inference`, `JobLog`, `Preparation`.

`JobProofs`, `DesktopProofs`, `JobLogProofs`, `SettingsProofs`, `InferenceProofs`,
`PreparationProofs`.

Next: lemmas that tie the levels together (that what `Preparation` ends with is what
the step `fit` to `spawn_encoder` of `Job` leaves open, and that the results of
`FramePipeline` are those `Job` chooses from), action properties of the settings and
of the log, and the diagnostics half of `JobLog` (that no thread reads after its
process has ended and its pipe is empty).

## 8. Not modelled

Rendering and widgets (no state of their own); RIFE, ncnn and the models
(third-party); build, packaging and CI scripts (no state at run time); the pixel
metrics of `cadence.rs` (arithmetic over megabytes of data, a parameter here);
FFmpeg's argument lists and stream mapping (text); the figures of the progress
view. A full disk is a write that fails, or an encoder that fails. The `flush` of
the encoder's pipe when the scheduler finishes cannot fail on its own (a child's
standard input is unbuffered), so `Finish` has no error branch.
