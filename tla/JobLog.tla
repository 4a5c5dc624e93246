-------------------------------- MODULE JobLog --------------------------------
(***************************************************************************)
(* The application's logs, src/src/logging.rs: each job renames the logs   *)
(* of the jobs before it and opens its own, and one thread for each FFmpeg *)
(* process copies its diagnostics there.                                   *)
(*                                                                         *)
(* Nothing keeps two instances of the program from sharing the directory,  *)
(* and a rotation may stop anywhere: a rename fails, or the program ends.  *)
(* The second part follows the diagnostics of the jobs of one instance.    *)
(***************************************************************************)
EXTENDS Integers, FiniteSets

CONSTANTS
  Instances,           \* of the program, that share the directory
  Main,                \* the one whose diagnostics are followed
  LOG_FILE_COUNT_MAX,
  Sources,             \* the processes whose diagnostics are read
  PipeRoom,            \* what the pipe of a process holds
  LOG_FILE_SIZE_MAX,   \* of a log, in lines
  LOG_READ_COUNT_MAX,
  JobMax, AbortMax     \* bounds: jobs that get a log, rotations that do not

ASSUME JobLogAssumption ==
  /\ Main \in Instances
  /\ LOG_FILE_COUNT_MAX \in Nat /\ LOG_FILE_COUNT_MAX > 1
  /\ PipeRoom \in Nat \ {0} /\ LOG_FILE_SIZE_MAX \in Nat \ {0} /\ LOG_READ_COUNT_MAX \in Nat \ {0}
  /\ JobMax \in Nat \ {0} /\ AbortMax \in Nat

Indices == 0..LOG_FILE_COUNT_MAX - 1   \* 0 is interpolate.log, i is interpolate.log.i
NoFile == 0

VARIABLES
  files,               \* the job whose log each file is, or NoFile
  pc,                  \* where each instance is
  target_index,        \* of its rotation
  jobs,                \* how many logs were created
  aborted,             \* rotations that led to no log
  overlapped,          \* an instance touched the files during another's rotation
  process,             \* of a source of Main's job
  pipe,                \* lines written to it and not read
  reader,              \* the thread that reads them
  read_count,
  file_size            \* of Main's log

rotationVars == <<files, pc, target_index, jobs, aborted, overlapped>>
readerVars == <<process, pipe, reader, read_count, file_size>>
vars == <<rotationVars, readerVars>>

Rotating(a) == pc[a] \in {"remove", "rename", "check", "open"}

Init ==
  /\ files = [i \in Indices |-> NoFile]
  /\ pc = [a \in Instances |-> "idle"]
  /\ target_index = [a \in Instances |-> 0]
  /\ jobs = 0 /\ aborted = 0 /\ overlapped = FALSE
  /\ process = [s \in Sources |-> "none"] /\ pipe = [s \in Sources |-> 0]
  /\ reader = [s \in Sources |-> "none"] /\ read_count = [s \in Sources |-> 0]
  /\ file_size = 0

-----------------------------------------------------------------------------
(* JobLog::create and rotate_logs *)

Goto(a, location) == pc' = [pc EXCEPT ![a] = location]

(* Every step on the files notes whether another rotation is under way. *)
Touches(a) == overlapped' = (overlapped \/ \E b \in Instances \ {a} : Rotating(b))

(* Mutant: the range ends one too early. *)
FirstTarget_short == LOG_FILE_COUNT_MAX - 2

(* From the oldest log to the newest, so that each moves into a place that is free. *)
FirstTarget == LOG_FILE_COUNT_MAX - 1

BeginRotation(a) ==
  /\ pc[a] = "idle" /\ jobs < JobMax
  /\ Goto(a, "remove")
  /\ target_index' = [target_index EXCEPT ![a] = FirstTarget]
  /\ Touches(a)
  /\ UNCHANGED <<files, jobs, aborted, readerVars>>

RemoveTarget(a) ==
  /\ pc[a] = "remove"
  /\ files' = [files EXCEPT ![target_index[a]] = NoFile]
  /\ Goto(a, "rename") /\ Touches(a)
  /\ UNCHANGED <<target_index, jobs, aborted, readerVars>>

(* A rename replaces what another instance has put there. *)
RenameSource(a) ==
  LET i == target_index[a] IN
  /\ pc[a] = "rename"
  /\ files' = IF files[i - 1] = NoFile THEN files
              ELSE [files EXCEPT ![i] = files[i - 1], ![i - 1] = NoFile]
  /\ target_index' = [target_index EXCEPT ![a] = i - 1]
  /\ Goto(a, IF i = 1 THEN "check" ELSE "remove")
  /\ Touches(a)
  /\ UNCHANGED <<jobs, aborted, readerVars>>

(* The assertion at the end of rotate_logs unwinds the worker. *)
CheckRotated(a) ==
  /\ pc[a] = "check"
  /\ Goto(a, IF files[0] = NoFile THEN "open" ELSE "panicked")
  /\ UNCHANGED <<files, target_index, jobs, aborted, overlapped, readerVars>>

(* The log is opened, truncated if it exists, and begun. Only then are the
   processes of the job started, each with its thread. *)
Open(a) ==
  /\ pc[a] = "open" /\ jobs < JobMax
  /\ files' = [files EXCEPT ![0] = jobs + 1]
  /\ jobs' = jobs + 1
  /\ Goto(a, "logging") /\ Touches(a)
  /\ IF a = Main
     THEN /\ process' = [s \in Sources |-> "running"] /\ pipe' = [s \in Sources |-> 0]
          /\ reader' = [s \in Sources |-> "reading"] /\ read_count' = [s \in Sources |-> 0]
          /\ file_size' = 1
     ELSE UNCHANGED readerVars
  /\ UNCHANGED <<target_index, aborted>>

(* A failed call is the end of the job, and of the rotation; so is the end of
   the program. *)
Abort(a) ==
  /\ Rotating(a) /\ aborted < AbortMax
  /\ aborted' = aborted + 1
  /\ Goto(a, "idle")
  /\ UNCHANGED <<files, target_index, jobs, overlapped, readerVars>>

NoDiagnostics ==
  /\ process' = [s \in Sources |-> "none"] /\ pipe' = [s \in Sources |-> 0]
  /\ reader' = [s \in Sources |-> "none"] /\ read_count' = [s \in Sources |-> 0]
  /\ file_size' = 0

(* The job is over when its threads are. *)
JobEnds(a) ==
  /\ pc[a] \in {"logging", "panicked"}
  /\ Goto(a, "idle")
  /\ IF a = Main /\ pc[a] = "logging"
     THEN /\ \A s \in Sources : reader[s] = "ended" /\ process[s] = "ended"
          /\ NoDiagnostics
     ELSE UNCHANGED readerVars
  /\ UNCHANGED <<files, target_index, jobs, aborted, overlapped>>

-----------------------------------------------------------------------------
(* The diagnostics of Main's job *)

(* A process writes a line, and blocks while the pipe is full. *)
BeginLine(s) ==
  /\ process[s] = "running"
  /\ process' = [process EXCEPT ![s] = "writing"]
  /\ UNCHANGED <<pipe, reader, read_count, file_size>>

WriteLine(s) ==
  /\ process[s] = "writing" /\ reader[s] = "reading" /\ pipe[s] < PipeRoom
  /\ process' = [process EXCEPT ![s] = "running"]
  /\ pipe' = [pipe EXCEPT ![s] = @ + 1]
  /\ UNCHANGED <<reader, read_count, file_size>>

(* A thread that has ended has closed its pipe, which ends the process. *)
BrokenPipe(s) ==
  /\ process[s] = "writing" /\ reader[s] = "ended"
  /\ process' = [process EXCEPT ![s] = "ended"]
  /\ UNCHANGED <<pipe, reader, read_count, file_size>>

ProcessEnds(s) ==
  /\ process[s] \in {"running", "writing"}
  /\ process' = [process EXCEPT ![s] = "ended"]
  /\ UNCHANGED <<pipe, reader, read_count, file_size>>

(* Mutant: the loop stops at the first error of the log and keeps its pipe. *)
ReadLine_gives_up(s) ==
  /\ reader[s] = "reading" /\ pipe[s] > 0 /\ file_size < LOG_FILE_SIZE_MAX
  /\ read_count[s] < LOG_READ_COUNT_MAX
  /\ pipe' = [pipe EXCEPT ![s] = @ - 1]
  /\ read_count' = [read_count EXCEPT ![s] = @ + 1]
  /\ file_size' = file_size + 1
  /\ UNCHANGED <<process, reader>>

(* One read of spawn_reader's loop, here one line, and its write to the log, which
   fails, or leaves out what does not fit. The loop goes on in any case, so that
   the process does not block. *)
ReadLine(s) ==
  /\ reader[s] = "reading" /\ pipe[s] > 0 /\ read_count[s] < LOG_READ_COUNT_MAX
  /\ pipe' = [pipe EXCEPT ![s] = @ - 1]
  /\ read_count' = [read_count EXCEPT ![s] = @ + 1]
  /\ file_size' \in {file_size, IF file_size < LOG_FILE_SIZE_MAX THEN file_size + 1 ELSE file_size}
  /\ UNCHANGED <<process, reader>>

(* At the end of the pipe, or after too many reads, the thread returns and closes
   its end. *)
ReaderEnds(s) ==
  /\ reader[s] = "reading"
  /\ (pipe[s] = 0 /\ process[s] = "ended") \/ read_count[s] = LOG_READ_COUNT_MAX
  /\ reader' = [reader EXCEPT ![s] = "ended"]
  /\ UNCHANGED <<process, pipe, read_count, file_size>>

ReadFails(s) ==
  /\ reader[s] = "reading"
  /\ reader' = [reader EXCEPT ![s] = "ended"]
  /\ UNCHANGED <<process, pipe, read_count, file_size>>

-----------------------------------------------------------------------------
Rotate(a) ==
  \/ BeginRotation(a) \/ RemoveTarget(a) \/ RenameSource(a) \/ CheckRotated(a) \/ Open(a)
  \/ Abort(a) \/ JobEnds(a)

ReaderStep(s) == ReadLine(s) \/ ReaderEnds(s)

Diagnose(s) ==
  /\ \/ BeginLine(s) \/ WriteLine(s) \/ BrokenPipe(s) \/ ProcessEnds(s)
     \/ ReaderStep(s) \/ ReadFails(s)
  /\ UNCHANGED rotationVars

Next ==
  \/ \E a \in Instances : Rotate(a)
  \/ \E s \in Sources : Diagnose(s)

Spec ==
  /\ Init /\ [][Next]_vars
  /\ \A s \in Sources :
       /\ WF_vars(ReaderStep(s) /\ UNCHANGED rotationVars)
       /\ WF_vars((WriteLine(s) \/ BrokenPipe(s)) /\ UNCHANGED rotationVars)

-----------------------------------------------------------------------------
(* Properties *)

(* As long as instances do not rotate at the same time, the logs of the last
   jobs are there: one fewer than there are files while a rotation is under way,
   and one fewer again for every rotation that stopped half way, which leaves a
   gap the next one does not close. The rotation never panics. *)
HistoryKept ==
  ~overlapped =>
    /\ \A j \in 1..jobs : j > jobs - (LOG_FILE_COUNT_MAX - 1 - aborted) =>
         \E i \in Indices : files[i] = j
    /\ \A a \in Instances : pc[a] # "panicked"

(* A process that writes diagnostics does not wait for ever, whatever happens to
   the log, and the thread of a process that has ended ends, so that
   finish_log_worker, which joins it, returns. *)
DiagnosticsDrained ==
  \A s \in Sources :
    /\ process[s] = "writing" ~> process[s] # "writing"
    /\ process[s] = "ended" ~> reader[s] # "reading"
=============================================================================
