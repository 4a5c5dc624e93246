------------------------------- MODULE Desktop -------------------------------
(***************************************************************************)
(* The desktop application around a job: InterpolateApp in src/src/app.rs, *)
(* the tray in src/src/tray.rs, and the worker thread of a job seen        *)
(* through JobContract.                                                    *)
(*                                                                         *)
(* One UI thread runs every handler, the task that polls the updates of    *)
(* the job, and the task that polls the commands of the tray.  The worker  *)
(* talks to it through a channel with room for one update: status updates  *)
(* are dropped when the channel is full, the terminal update waits.        *)
(***************************************************************************)
EXTENDS Naturals, Sequences

CONSTANTS
  JobMax,       \* bound: jobs the user starts
  TrayCapacity  \* TRAY_COMMAND_QUEUE_SIZE

ASSUME DesktopAssumption ==
  JobMax \in Nat /\ TrayCapacity \in Nat \ {0}

VARIABLES
  \* the worker thread of the current or last job
  phase, cancelled, terminal,
  \* the update channel and the task at its receiving end
  channel,        \* at most one update
  poller,         \* "polling" while the task runs and owns the receiver, "none"
                  \* when it ended with its job, "expired" when it gave up
  \* the application entity
  window,         \* "open", "minimized", then "dropping" and "gone"
  running,        \* app.running
  cancellation,   \* app.cancellation.is_some()
  worker,         \* app.worker.is_some(): the thread has not been joined
  quit_after_job,
  keep_running_background,
  shown,          \* the outcome the status line shows
  jobs,           \* jobs started so far
  \* the tray
  tray,           \* "none" when there is none, "alive" or "closed"
  tray_running,   \* the tray's menu offers to cancel
  commands        \* commands clicked and not yet handled

workerVars == <<phase, cancelled, terminal>>
channelVars == <<channel, poller>>
appVars == <<window, running, cancellation, worker, quit_after_job,
             keep_running_background, shown, jobs>>
trayVars == <<tray, tray_running, commands>>

vars == <<workerVars, channelVars, appVars, trayVars>>

JobThread == INSTANCE JobContract

Receiving == poller = "polling"

(* The thread outlives its terminal update by a moment. *)
WorkerAlive == phase \in {"running", "reporting", "sent"}

(* The UI thread handles events until the application entity is dropped. *)
UiAlive == window \in {"open", "minimized"}

-----------------------------------------------------------------------------
Init ==
  /\ phase = "exited" /\ cancelled = FALSE /\ terminal = "none"
  /\ channel = <<>> /\ poller = "none"
  /\ window = "open"
  /\ running = FALSE /\ cancellation = FALSE /\ worker = FALSE
  /\ quit_after_job = FALSE
  /\ tray \in {"none", "alive"}
  /\ keep_running_background = (tray = "alive")
  /\ shown = "none" /\ jobs = 0
  /\ tray_running = FALSE /\ commands = <<>>

(* tray_controller.set_running fails once the tray has stopped, and background
   mode is given up.  Without a tray there is nothing to tell. *)
SetTrayRunning(value) ==
  IF tray = "closed"
  THEN keep_running_background' = FALSE /\ UNCHANGED tray_running
  ELSE tray_running' = (IF tray = "alive" THEN value ELSE tray_running)
         /\ UNCHANGED keep_running_background

-----------------------------------------------------------------------------
(* The worker *)

(* Phase and Progress updates are tried once, and lost when the slot is taken. *)
SendStatus ==
  /\ phase = "running"
  /\ Receiving /\ channel = <<>>
  /\ channel' = <<"status">>
  /\ UNCHANGED <<workerVars, poller, appVars, trayVars>>

WorkerReports ==
  /\ JobThread!Report
  /\ UNCHANGED <<channelVars, appVars, trayVars>>

(* Mutant: the terminal update is tried once, like the others. *)
SendTerminal_lossy ==
  /\ JobThread!Deliver
  /\ channel' = IF Receiving /\ channel = <<>> THEN <<terminal>> ELSE channel
  /\ UNCHANGED <<poller, appVars, trayVars>>

(* The blocking send: it needs the slot, or a receiver that is gone. *)
SendTerminal ==
  /\ JobThread!Deliver
  /\ \/ Receiving /\ channel = <<>> /\ channel' = <<terminal>>
     \/ ~Receiving /\ UNCHANGED channel
  /\ UNCHANGED <<poller, appVars, trayVars>>

ThreadExits ==
  /\ JobThread!Exit
  /\ UNCHANGED <<channelVars, appVars, trayVars>>

WorkerUnwinds ==
  /\ JobThread!Unwind
  /\ UNCHANGED <<channelVars, appVars, trayVars>>

-----------------------------------------------------------------------------
(* Handlers of the application *)

StartJob ==
  /\ window = "open" /\ ~running /\ jobs < JobMax
  /\ phase' = "running" /\ cancelled' = FALSE /\ terminal' = "none"
  /\ channel' = <<>> /\ poller' = "polling"
  /\ running' = TRUE /\ worker' = TRUE /\ cancellation' = TRUE
  /\ shown' = "none" /\ jobs' = jobs + 1
  /\ SetTrayRunning(TRUE)
  /\ UNCHANGED <<window, quit_after_job, tray, commands>>

CancelJob ==
  /\ window = "open" /\ cancellation
  /\ cancelled' = TRUE
  /\ UNCHANGED <<phase, terminal, channelVars, appVars, trayVars>>

ToggleBackgroundMode ==
  /\ window = "open"
  /\ keep_running_background' = (tray # "none" /\ ~keep_running_background)
  /\ UNCHANGED <<workerVars, channelVars, window, running, cancellation, worker,
                 quit_after_job, shown, jobs, trayVars>>

(* on_window_should_close: the window hides, or the entity is dropped. *)
CloseWindow ==
  /\ UiAlive
  /\ window' = IF running /\ keep_running_background /\ tray # "none"
               THEN "minimized" ELSE "dropping"
  /\ UNCHANGED <<workerVars, channelVars, running, cancellation, worker, quit_after_job,
                 keep_running_background, shown, jobs, trayVars>>

-----------------------------------------------------------------------------
(* The task that polls the job *)

(* Mutant: the flag of the finished job is kept. *)
Conclude_keeps_flag(update) ==
  /\ running' = FALSE /\ UNCHANGED cancellation
  /\ shown' = IF phase = "unwound" THEN "failed" ELSE update
  /\ phase \in {"exited", "unwound"} /\ worker' = FALSE
  /\ SetTrayRunning(FALSE)
  /\ window' = IF quit_after_job THEN "dropping" ELSE window
  /\ quit_after_job' = FALSE
  /\ channel' = <<>> /\ poller' = "none"

(* Mutant: the deferred quit is cleared and not carried out. *)
Conclude_stays_open(update) ==
  /\ running' = FALSE /\ cancellation' = FALSE
  /\ shown' = IF phase = "unwound" THEN "failed" ELSE update
  /\ phase \in {"exited", "unwound"} /\ worker' = FALSE
  /\ SetTrayRunning(FALSE)
  /\ quit_after_job' = FALSE
  /\ UNCHANGED window
  /\ channel' = <<>> /\ poller' = "none"

(* Mutant: the thread is let go and not joined. *)
Conclude_unjoined(update) ==
  /\ running' = FALSE /\ cancellation' = FALSE
  /\ shown' = IF phase = "unwound" THEN "failed" ELSE update
  /\ worker' = FALSE
  /\ SetTrayRunning(FALSE)
  /\ window' = IF quit_after_job THEN "dropping" ELSE window
  /\ quit_after_job' = FALSE
  /\ channel' = <<>> /\ poller' = "none"

(* apply_update with a terminal update, and the end of the polling task *)
Conclude(update) ==
  /\ running' = FALSE /\ cancellation' = FALSE
  /\ shown' = IF phase = "unwound" THEN "failed" ELSE update
  /\ phase \in {"exited", "unwound"}       \* worker.join() returns: the thread has ended
  /\ worker' = FALSE
  /\ SetTrayRunning(FALSE)
  /\ window' = IF quit_after_job THEN "dropping" ELSE window
  /\ quit_after_job' = FALSE
  /\ channel' = <<>> /\ poller' = "none"

PollUpdate ==
  /\ UiAlive /\ Receiving /\ channel # <<>>
  /\ IF Head(channel) = "status"
     THEN channel' = <<>> /\ UNCHANGED <<poller, appVars, tray_running>>
     ELSE Conclude(Head(channel)) /\ UNCHANGED jobs
  /\ UNCHANGED <<workerVars, tray, commands>>

(* Mutant: the polling task ends without a word. *)
PollDisconnected_quiet ==
  /\ UiAlive /\ Receiving /\ channel = <<>> /\ ~WorkerAlive
  /\ poller' = "none"
  /\ UNCHANGED <<workerVars, channel, appVars, trayVars>>

(* The thread has ended, and dropped its end of the channel, without a terminal
   update. *)
PollDisconnected ==
  /\ UiAlive /\ Receiving /\ channel = <<>> /\ ~WorkerAlive
  /\ IF running
     THEN Conclude("failed") /\ UNCHANGED jobs
     ELSE poller' = "none" /\ UNCHANGED <<channel, appVars, tray_running>>
  /\ UNCHANGED <<workerVars, tray, commands>>

(* The polling task has used up its polls, after seven days, and ends; the
   receiver goes with it. *)
PollerExpires ==
  /\ UiAlive /\ Receiving
  /\ poller' = "expired" /\ channel' = <<>>
  /\ UNCHANGED <<workerVars, appVars, trayVars>>

-----------------------------------------------------------------------------
(* The tray *)

(* A click queues a command unless the queue is full; cancelling is offered only
   while the tray believes that a job is running. *)
ClickTray(command) ==
  /\ tray = "alive" /\ Len(commands) < TrayCapacity
  /\ command = "cancel" => tray_running
  /\ commands' = Append(commands, command)
  /\ UNCHANGED <<workerVars, channelVars, appVars, tray, tray_running>>

TrayCloses ==
  /\ tray = "alive"
  /\ tray' = "closed"
  /\ UNCHANGED <<workerVars, channelVars, appVars, tray_running, commands>>

HandleShow ==
  /\ Head(commands) = "show"
  /\ window' = "open"
  /\ UNCHANGED <<cancelled, quit_after_job>>

HandleCancel ==
  /\ Head(commands) = "cancel"
  /\ cancelled' = (cancelled \/ cancellation)
  /\ UNCHANGED <<window, quit_after_job>>

(* Mutant: quitting waits for the job and does not cancel it. *)
HandleQuit_patient ==
  /\ Head(commands) = "quit"
  /\ quit_after_job' = (quit_after_job \/ cancellation)
  /\ window' = IF cancellation THEN window ELSE "dropping"
  /\ UNCHANGED cancelled

HandleQuit ==
  /\ Head(commands) = "quit"
  /\ cancelled' = (cancelled \/ cancellation)
  /\ quit_after_job' = (quit_after_job \/ cancellation)
  /\ window' = IF cancellation THEN window ELSE "dropping"

(* The task reads what is queued even after the tray itself has stopped. *)
PollTray ==
  /\ UiAlive /\ commands # <<>>
  /\ HandleShow \/ HandleCancel \/ HandleQuit
  /\ commands' = Tail(commands)
  /\ UNCHANGED <<phase, terminal, channelVars, running, cancellation, worker,
                 keep_running_background, shown, jobs, tray, tray_running>>

-----------------------------------------------------------------------------
(* Drop for InterpolateApp, on the UI thread: set the flag, wait for the worker,
   then shut the native backend down.  The polling task, with the receiver it
   owns, stays where it is: nothing runs it and nothing drops it. *)

DropSetsFlag ==
  /\ window = "dropping" /\ cancellation /\ ~cancelled
  /\ cancelled' = TRUE
  /\ UNCHANGED <<phase, terminal, channelVars, appVars, trayVars>>

(* Mutant: the backend is shut down under the worker. *)
DropJoins_unjoined ==
  /\ window = "dropping" /\ (cancellation => cancelled)
  /\ worker' = FALSE
  /\ window' = "gone"
  /\ UNCHANGED <<workerVars, channelVars, running, cancellation, quit_after_job,
                 keep_running_background, shown, jobs, trayVars>>

(* Mutant: it waits for a terminal update and not for the thread. *)
DropJoins_update ==
  /\ window = "dropping" /\ (cancellation => cancelled)
  /\ terminal # "none" /\ ~WorkerAlive
  /\ worker' = FALSE
  /\ window' = "gone"
  /\ UNCHANGED <<workerVars, channelVars, running, cancellation, quit_after_job,
                 keep_running_background, shown, jobs, trayVars>>

DropJoins ==
  /\ window = "dropping" /\ (cancellation => cancelled)
  /\ worker => ~WorkerAlive
  /\ worker' = FALSE
  /\ window' = "gone"
  /\ UNCHANGED <<workerVars, channelVars, running, cancellation, quit_after_job,
                 keep_running_background, shown, jobs, trayVars>>

Closed == window = "gone" /\ UNCHANGED vars

-----------------------------------------------------------------------------
Worker == SendStatus \/ WorkerReports \/ SendTerminal \/ ThreadExits \/ WorkerUnwinds
Polling == PollUpdate \/ PollDisconnected
Shutdown == DropSetsFlag \/ DropJoins

User ==
  \/ StartJob \/ CancelJob \/ ToggleBackgroundMode \/ CloseWindow
  \/ \E command \in {"show", "cancel", "quit"} : ClickTray(command)

Next == Worker \/ Polling \/ PollTray \/ PollerExpires \/ Shutdown \/ User \/ TrayCloses \/ Closed

Spec == Init /\ [][Next]_vars

(* The worker ends (JobEnds in Job): its blocking send takes the slot when it can,
   and its thread ends after that; the timers of both polling tasks fire, and Drop
   runs on.  The user does as he pleases, and the tray may stop. *)
Fairness ==
  /\ WF_vars(WorkerReports \/ WorkerUnwinds)
  /\ WF_vars(SendTerminal) /\ WF_vars(ThreadExits)
  /\ WF_vars(Polling)
  /\ WF_vars(PollTray)
  /\ WF_vars(Shutdown)

FairSpec == Spec /\ Fairness
-----------------------------------------------------------------------------
Terminals == {"completed", "cancelled", "failed"}
Commands == {"show", "cancel", "quit"}

TypeOK ==
  /\ phase \in {"running", "reporting", "sent", "exited", "unwound"}
  /\ {cancelled, running, cancellation, worker, quit_after_job,
      keep_running_background, tray_running} \subseteq BOOLEAN
  /\ terminal \in Terminals \cup {"none"}
  /\ channel \in {<<>>} \cup {<<u>> : u \in Terminals \cup {"status"}}
  /\ poller \in {"none", "polling", "expired"}
  /\ window \in {"open", "minimized", "dropping", "gone"}
  /\ shown \in Terminals \cup {"none"}
  /\ jobs \in 0..JobMax
  /\ tray \in {"none", "alive", "closed"}
  /\ commands \in Seq(Commands) /\ Len(commands) <= TrayCapacity

(* What the assertions of start_job, cancel_job and apply_update say of the
   application's own fields, between any two handlers: a running job has a
   cancellation flag and a thread that was not joined, an idle application has
   neither; and it is idle only when the thread has really ended. *)
JobStateCoupled ==
  UiAlive => /\ running <=> cancellation
             /\ running <=> worker
             /\ ~running => ~WorkerAlive /\ channel = <<>> /\ ~Receiving

(* One active job: a job starts only when the thread of the one before it has
   ended, so two jobs never share the native backend or the partial output.  Its
   terminal update alone, which comes earlier, does not let the next one start. *)
OneActiveJob == [][jobs' # jobs => ~WorkerAlive]_vars

(* The channel loses status updates and never the terminal one: when the
   application believes that a job is over, it shows how that job really ended;
   a job whose thread unwound is shown as failed. *)
TerminalDelivered ==
  UiAlive /\ ~running /\ jobs > 0 =>
    shown = IF phase = "unwound" THEN "failed" ELSE terminal

(* Drop shuts the native backend down after the worker that may use it ended. *)
BackendOutlivesWorker == window = "gone" => ~WorkerAlive

(* A deferred quit belongs to the job that was running when it was clicked: it
   has cancelled that job, and it does not survive it to end the next one. *)
QuitIsPending == UiAlive /\ quit_after_job => running /\ cancelled

(* Every job the application shows as running is shown as ended, or the
   application is closing: no update that matters is missed while the polling
   task lives. *)
JobSettles == running ~> (~running \/ ~UiAlive \/ poller = "expired")

(* "Quit" in the tray, once it has been read, closes the application, although it
   first waits for a running job. *)
QuitHonoured == quit_after_job ~> (~UiAlive \/ poller = "expired")

(* Closing an application whose job has been concluded, or that never had one,
   ends. *)
IdleShutdownEnds == (window = "dropping" /\ ~Receiving) ~> window = "gone"

(* "coordinated shutdown", README: closing the window ends the application,
   whatever the job was doing. *)
ShutdownEnds == window = "dropping" ~> window = "gone"
=============================================================================
