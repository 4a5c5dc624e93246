------------------------------- MODULE Inference -------------------------------
(***************************************************************************)
(* The inference engines of a job, src/src/backend.rs: the native backend  *)
(* of module NativeBackend, and the CUDA backend, a Python process         *)
(* (src/scripts/pytorch_rife_worker.py) with three pipes. A thread drains  *)
(* its standard error, another waits for its handshake under a time limit, *)
(* and the job's worker sends it requests and stops it.                    *)
(***************************************************************************)
EXTENDS NativeBackend

CONSTANTS
  Worker,              \* the thread of the job
  StderrRoom,          \* what the pipe of the standard error holds
  StderrMax            \* CUDA_WORKER_STDERR_MAX: how much of it is kept

ASSUME InferenceAssumption ==
  /\ Worker \in Threads
  /\ StderrRoom \in Nat \ {0} /\ StderrMax \in Nat \ {0}

VARIABLES
  engine,              \* where the worker is in CudaBackend
  child,               \* the Python process
  resists,             \* it does not end when killed
  speech,              \* whether it may write, writes or has written a diagnostic
  greeting,            \* what it has written before it serves
  answer,              \* it has written a frame that was not read
  stderr, captured,    \* unread diagnostics, and those kept for a message
  stderr_reader,       \* the thread that drains the diagnostics
  greeter, ready       \* the thread that reads the handshake, and its channel

pythonVars == <<child, speech, greeting, answer>>
readerVars == <<stderr, captured, stderr_reader>>
greeterVars == <<greeter, ready>>
cudaVars == <<engine, pythonVars, resists, readerVars, greeterVars>>
vars == <<nativeVars, cudaVars>>

Alive == child \in {"loading", "serving", "busy"}
Dead == child \in {"exited", "reaped"}

Init ==
  /\ NativeInit
  /\ engine = "none" /\ child = "none" /\ resists = FALSE
  /\ speech = "may" /\ greeting = "none" /\ answer = FALSE
  /\ stderr = 0 /\ captured = 0 /\ stderr_reader = "none"
  /\ greeter = "none" /\ ready = "none"

-----------------------------------------------------------------------------
(* CudaBackend::create *)

(* The process and its pipes. Starting either thread may fail, which is a panic:
   the worker unwinds and closes its ends of the pipes, and its thread is over.
   What an earlier engine may have left is no longer looked at. *)
Spawn ==
  /\ engine = "none" /\ pc[Worker] = "idle"
  /\ child' = "loading" /\ resists' \in BOOLEAN
  /\ speech' = "may" /\ greeting' = "none" /\ answer' = FALSE
  /\ stderr' = 0 /\ captured' = 0 /\ ready' = "none"
  /\ \/ engine' = "handshake" /\ stderr_reader' = "reading" /\ greeter' = "reading"
     \/ engine' = "panicked" /\ stderr_reader' \in {"none", "reading"} /\ greeter' = "none"

(* read_exact in the thread that waits for the handshake *)
ReadGreeting ==
  /\ greeter = "reading"
  /\ greeting # "none" \/ Dead
  /\ greeter' = "ended"
  /\ ready' = IF greeting = "none" THEN "error" ELSE greeting
  /\ UNCHANGED <<engine, pythonVars, resists, readerVars>>

StartupTimesOut ==
  /\ engine = "handshake" /\ ready = "none"
  /\ engine' = "terminating"
  /\ UNCHANGED <<pythonVars, resists, readerVars, greeterVars>>

(* Mutant: a process that is not the expected one is left to itself. *)
HandshakeReceived_abandoned ==
  /\ engine = "handshake" /\ ready # "none"
  /\ engine' = IF ready = "valid" THEN "ready" ELSE "none"
  /\ UNCHANGED <<pythonVars, resists, readerVars, greeterVars>>

(* An invalid handshake, or none, is a failure that stops the process. *)
HandshakeReceived ==
  /\ engine = "handshake" /\ ready # "none"
  /\ engine' = IF ready = "valid" THEN "ready" ELSE "terminating"
  /\ UNCHANGED <<pythonVars, resists, readerVars, greeterVars>>

-----------------------------------------------------------------------------
(* CudaBackend::interpolate_rgb24: no time limit, and no look at the flag *)

Request ==
  /\ engine = "ready"
  /\ engine' = "sending"
  /\ UNCHANGED <<pythonVars, resists, readerVars, greeterVars>>

(* A request is larger than a pipe: it is sent while the process reads it. *)
Send ==
  /\ engine = "sending" /\ child = "serving" /\ speech # "speaking"
  /\ engine' = "receiving" /\ child' = "busy" /\ speech' = "may"
  /\ UNCHANGED <<greeting, answer, resists, readerVars, greeterVars>>

Receive ==
  /\ engine = "receiving" /\ answer
  /\ engine' = "ready" /\ answer' = FALSE
  /\ UNCHANGED <<child, speech, greeting, resists, readerVars, greeterVars>>

(* A broken pipe, or the end of one *)
RequestFails ==
  /\ engine = "sending" \/ (engine = "receiving" /\ ~answer)
  /\ Dead
  /\ engine' = "terminating"
  /\ UNCHANGED <<pythonVars, resists, readerVars, greeterVars>>

-----------------------------------------------------------------------------
(* The end of a process: drop, or worker_startup_failure *)

Drop ==
  /\ engine = "ready"
  /\ engine' = "terminating"
  /\ UNCHANGED <<pythonVars, resists, readerVars, greeterVars>>

(* Mutant: the reading thread is joined before the process is stopped. *)
Terminate_after_reader ==
  /\ engine = "terminating" /\ stderr_reader = "ended"
  /\ Dead \/ ~resists
  /\ child' = "reaped"
  /\ engine' = "joining"
  /\ UNCHANGED <<speech, greeting, answer, resists, readerVars, greeterVars>>

(* terminate_process: a kill that fails leaves the process unreaped; a wait for
   a process that does not end blocks. *)
Terminate ==
  /\ engine = "terminating"
  /\ Dead \/ ~resists
  /\ child' = "reaped"
  /\ engine' = "joining"
  /\ UNCHANGED <<speech, greeting, answer, resists, readerVars, greeterVars>>

KillFails ==
  /\ engine = "terminating" /\ resists /\ Alive
  /\ engine' = "joining"
  /\ UNCHANGED <<pythonVars, resists, readerVars, greeterVars>>

JoinReader ==
  /\ engine = "joining" /\ stderr_reader = "ended"
  /\ engine' = "none"
  /\ UNCHANGED <<pythonVars, resists, readerVars, greeterVars>>

(* read_worker_stderr reads to the end, and keeps the beginning. *)
ReadStderr ==
  /\ stderr_reader = "reading"
  /\ \/ /\ stderr > 0
        /\ stderr' = stderr - 1
        /\ captured' = IF captured < StderrMax THEN captured + 1 ELSE captured
        /\ UNCHANGED stderr_reader
     \/ /\ stderr = 0 /\ Dead
        /\ stderr_reader' = "ended"
        /\ UNCHANGED <<stderr, captured>>
  /\ UNCHANGED <<engine, pythonVars, resists, greeterVars>>

(* An error of the read ends the thread early: the pipe is closed with it. *)
ReadStderrFails ==
  /\ stderr_reader = "reading"
  /\ stderr_reader' = "ended" /\ stderr' = 0
  /\ UNCHANGED <<captured, engine, pythonVars, resists, greeterVars>>

-----------------------------------------------------------------------------
(* The Python process: main of pytorch_rife_worker.py. Before each of its steps
   it may write a diagnostic, and blocks while the pipe is full; a pipe that nobody
   reads any more is an error of the write, which it may or may not survive. *)

Speak ==
  /\ Alive /\ speech = "may"
  /\ speech' = "speaking"
  /\ UNCHANGED <<engine, child, greeting, answer, resists, readerVars, greeterVars>>

WriteStderr ==
  /\ Alive /\ speech = "speaking"
  /\ \/ stderr_reader = "reading" /\ stderr < StderrRoom /\ stderr' = stderr + 1
     \/ stderr_reader # "reading" /\ UNCHANGED stderr
  /\ speech' = "spoken"
  /\ UNCHANGED <<engine, child, greeting, answer, resists, captured, stderr_reader, greeterVars>>

(* The model is loaded. A library may have written to the standard output first. *)
Greet ==
  /\ child = "loading" /\ speech # "speaking"
  /\ child' = "serving" /\ speech' = "may"
  /\ greeting' \in {"valid", "invalid"}
  /\ UNCHANGED <<engine, answer, resists, readerVars, greeterVars>>

Answer ==
  /\ child = "busy" /\ speech # "speaking"
  /\ child' = "serving" /\ speech' = "may" /\ answer' = TRUE
  /\ UNCHANGED <<engine, greeting, resists, readerVars, greeterVars>>

(* It fails, or its input has ended. A frame written in part is as good as none. *)
Exit ==
  /\ Alive
  /\ child' = "exited"
  /\ UNCHANGED <<engine, speech, greeting, answer, resists, readerVars, greeterVars>>

-----------------------------------------------------------------------------
EngineStep ==
  \/ ReadGreeting \/ HandshakeReceived \/ Send \/ Receive \/ RequestFails
  \/ Terminate \/ JoinReader

PythonStep == WriteStderr \/ Greet \/ Answer

CudaStep ==
  \/ Spawn \/ EngineStep \/ StartupTimesOut \/ Request \/ Drop \/ KillFails \/ ReadStderr
  \/ ReadStderrFails \/ Speak \/ PythonStep \/ Exit

Next ==
  \/ /\ CudaStep
     /\ UNCHANGED nativeVars
  \/ /\ \E t \in Threads : NativeStep(t) /\ (t = Worker => engine = "none")
     /\ UNCHANGED cudaVars

Spec ==
  /\ Init /\ [][Next]_vars
  /\ WF_vars(EngineStep /\ UNCHANGED nativeVars)
  /\ WF_vars(StartupTimesOut /\ UNCHANGED nativeVars)
  /\ WF_vars(ReadStderr /\ UNCHANGED nativeVars)

-----------------------------------------------------------------------------
(* Properties *)

(* An engine that was dropped or that failed to come up, whichever of its errors
   it failed with, has left no process, unless the process could not be killed, and
   no thread that drains one. Nobody joins the thread of the handshake: after a
   startup that timed out it may still read, but only what is over or could not be
   killed. A panic between the process and its threads is none of these ways out:
   it leaves the process to itself. *)
NoWorkerLeft ==
  engine = "none" =>
    /\ child \in {"none", "reaped"} \/ resists
    /\ stderr_reader # "reading"
    /\ greeter = "reading" => child = "reaped" \/ resists

(* A call returns. Starting and stopping an engine need nothing of the process,
   which may hang in its imports or in the driver, as long as it can be killed; a
   request needs a process that goes on working, and that never waits for room
   for its diagnostics: interpolate_rgb24 has no limit of its own. *)
CallsReturn ==
  /\ (engine \in {"handshake", "terminating", "joining"} /\ ~resists) ~> engine \in {"none", "ready"}
  /\ WF_vars(PythonStep /\ UNCHANGED nativeVars)
       => ((engine \in {"sending", "receiving"} /\ ~resists) ~> engine \in {"none", "ready"})
=============================================================================
