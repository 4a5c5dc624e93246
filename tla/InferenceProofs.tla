---------------------------- MODULE InferenceProofs ----------------------------
(***************************************************************************)
(* NoWorkerLeft for every size of the pipe of the diagnostics, and what is *)
(* proved of the native library for the program that also runs CUDA.       *)
(***************************************************************************)
EXTENDS Inference, NativeBackendProofs

EngineTypeOK ==
  /\ engine \in {"none", "handshake", "ready", "sending", "receiving", "terminating", "joining",
                 "panicked"}
  /\ child \in {"none", "loading", "serving", "busy", "exited", "reaped"}
  /\ resists \in BOOLEAN
  /\ stderr_reader \in {"none", "reading", "ended"}

(* There is a process to stop until the engine is on its way out; from there it
   is reaped, unless it could not be killed. *)
StoppedOrResists ==
  /\ engine \in {"handshake", "ready", "sending", "receiving", "terminating", "joining"} => child # "none"
  /\ engine = "joining" => child = "reaped" \/ resists

EngineInv == EngineTypeOK /\ StoppedOrResists /\ NoWorkerLeft

-----------------------------------------------------------------------------
LEMMA EngineStepKeeps ==
  ASSUME EngineInv, CudaStep
  PROVE  EngineInv'
<1> USE DEF EngineInv, EngineTypeOK, StoppedOrResists, NoWorkerLeft, Alive, Dead,
     cudaVars, pythonVars, readerVars, greeterVars
<1>1. CASE Spawn
  BY <1>1 DEF Spawn
<1>2. CASE ReadGreeting \/ HandshakeReceived \/ StartupTimesOut \/ Request \/ Drop
  BY <1>2 DEF ReadGreeting, HandshakeReceived, StartupTimesOut, Request, Drop
<1>3. CASE Send \/ Receive \/ RequestFails
  BY <1>3 DEF Send, Receive, RequestFails
<1>4. CASE Terminate \/ KillFails
  BY <1>4 DEF Terminate, KillFails
<1>5. CASE JoinReader
  BY <1>5 DEF JoinReader
<1>6. CASE ReadStderr \/ ReadStderrFails
  BY <1>6 DEF ReadStderr, ReadStderrFails
<1>7. CASE Speak \/ WriteStderr \/ Greet \/ Answer
  BY <1>7 DEF Speak, WriteStderr, Greet, Answer
<1>8. CASE Exit
  BY <1>8 DEF Exit
<1> QED
  BY <1>1, <1>2, <1>3, <1>4, <1>5, <1>6, <1>7, <1>8 DEF CudaStep, EngineStep, PythonStep

(* The inductive invariant of the CUDA engine. *)
THEOREM EngineCorrect == Spec => []EngineInv
<1> USE DEF EngineInv, EngineTypeOK, StoppedOrResists, NoWorkerLeft, Alive, Dead
<1>1. Init => EngineInv
  BY DEF Init
<1>2. EngineInv /\ [Next]_vars => EngineInv'
  <2>1. EngineInv /\ UNCHANGED cudaVars => EngineInv'
    BY DEF cudaVars, pythonVars, readerVars, greeterVars
  <2> QED
    BY <2>1, EngineStepKeeps DEF Next, vars
<1> QED
  BY <1>1, <1>2, PTL DEF Spec

(* A startup that timed out or was answered by something else, a request that
   failed and a drop each leave no process that can be killed and no thread that
   drains one, and the thread of the handshake reads at most what is over or could
   not be killed. A panic while the threads are started is not among them. *)
THEOREM NoWorkerIsLeft == Spec => []NoWorkerLeft
BY EngineCorrect, PTL DEF EngineInv

(* A job that uses either engine uses the native library as any caller does: every
   step of the two engines is a step of the library or none of its own. *)
THEOREM EnginesUseLibrary == Spec => NativeSpec
<1>1. Init => NativeInit
  BY DEF Init
<1>2. [Next]_vars => [NativeNext]_nativeVars
  BY DEF Next, NativeNext, vars
<1> QED
  BY <1>1, <1>2, PTL DEF Spec, NativeSpec

(* So the Vulkan instance outlives every use of it in the whole program, too. *)
THEOREM InstanceIsKeptByEngines == Spec => []InstanceWhileUsed
BY EnginesUseLibrary, InstanceIsKept, PTL
=============================================================================
