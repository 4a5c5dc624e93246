---------------------------- MODULE DesktopProofs ----------------------------
(***************************************************************************)
(* Theorems about the desktop application around its jobs, for any number  *)
(* of jobs and any capacity of the tray's queue: whatever the user clicks, *)
(* whatever the worker thread does that its contract allows, and whether   *)
(* or not the polling task gives up or the tray stops.                     *)
(***************************************************************************)
EXTENDS Desktop, TLAPS

-----------------------------------------------------------------------------
(* The inductive invariant *)

(* A thread that was joined, or never started, does not run, and the application
   is not gone before it has joined its thread. *)
Joined ==
  /\ ~worker => ~WorkerAlive
  /\ window = "gone" => ~worker

(* The channel belongs to a job that was started and whose updates are still
   polled; the terminal update in it is the last thing the worker sent, and the
   worker goes on to its end only after putting it there while somebody polls. *)
Channel ==
  /\ channel # <<>> => Receiving
  /\ Receiving \/ running => jobs > 0
  /\ \A t \in Terminals : channel = <<t>> => phase \in {"sent", "exited"} /\ t = terminal
  /\ Receiving /\ phase \in {"sent", "exited"} => channel = <<terminal>>

(* The contract's account of the terminal update *)
Reported ==
  /\ phase \in {"running", "unwound"} => terminal = "none"
  /\ phase \in {"reporting", "sent"} => terminal \in Terminals
  /\ phase = "exited" /\ jobs > 0 => terminal \in Terminals

DesktopInv ==
  /\ TypeOK
  /\ JobStateCoupled /\ Joined
  /\ Channel /\ Reported /\ TerminalDelivered
  /\ QuitIsPending

-----------------------------------------------------------------------------
(* Steps *)

(* A desktop that has just started satisfies the invariant. *)
LEMMA InitEstablishesInv ==
  ASSUME DesktopAssumption, Init
  PROVE  DesktopInv
<1>1. TypeOK
  <2>1. commands \in Seq(Commands) /\ Len(commands) <= TrayCapacity
    BY DEF Init, DesktopAssumption
  <2>2. jobs \in 0..JobMax
    BY DEF Init, DesktopAssumption
  <2>3. channel \in {<<>>} \cup {<<u>> : u \in Terminals \cup {"status"}}
    BY DEF Init
  <2> QED
    BY <2>1, <2>2, <2>3 DEF Init, TypeOK
<1>2. JobStateCoupled /\ Joined /\ QuitIsPending
  BY DEF Init, JobStateCoupled, Joined, QuitIsPending, WorkerAlive, Receiving, UiAlive
<1>3. Channel /\ Reported /\ TerminalDelivered
  BY DEF Init, Terminals, Channel, Reported, TerminalDelivered, Receiving
<1> QED
  BY <1>1, <1>2, <1>3 DEF DesktopInv

(* The terminal update fits the channel. *)
LEMMA SendTerminalTypes ==
  ASSUME TypeOK, SendTerminal, terminal \in Terminals
  PROVE  channel' \in {<<>>} \cup {<<u>> : u \in Terminals \cup {"status"}}
  BY DEF SendTerminal, TypeOK

(* Every step keeps the types. *)
LEMMA TypeStep ==
  ASSUME DesktopAssumption, TypeOK, Reported, [Next]_vars
  PROVE  TypeOK'
<1> USE DEF TypeOK, Terminals, Commands, workerVars, channelVars, appVars, trayVars,
  Receiving, WorkerAlive, UiAlive, SetTrayRunning
<1>1. CASE SendStatus
  BY <1>1 DEF SendStatus
<1>2. CASE WorkerReports
  BY <1>2 DEF WorkerReports, JobThread!Report
<1>3. CASE SendTerminal
  <2>1. terminal \in Terminals
    BY <1>3 DEF SendTerminal, JobThread!Deliver, Reported
  <2> QED
    BY <1>3, <2>1, SendTerminalTypes DEF SendTerminal, JobThread!Deliver
<1>4. CASE WorkerUnwinds
  BY <1>4 DEF WorkerUnwinds, JobThread!Unwind
<1>5. CASE StartJob
  <2>1. jobs' \in 0..JobMax
    BY <1>5 DEF StartJob, DesktopAssumption
  <2> QED
    BY <1>5, <2>1 DEF StartJob
<1>6. CASE CancelJob
  BY <1>6 DEF CancelJob
<1>7. CASE ToggleBackgroundMode
  BY <1>7 DEF ToggleBackgroundMode
<1>8. CASE CloseWindow
  BY <1>8 DEF CloseWindow
<1>9. CASE PollUpdate
  <2>1. CASE Head(channel) = "status"
    BY <1>9, <2>1 DEF PollUpdate
  <2>2. CASE Head(channel) # "status"
    <3>1. PICK u \in Terminals \cup {"status"} : channel = <<u>>
      BY <1>9 DEF PollUpdate
    <3>2. Head(channel) \in Terminals
      BY <3>1, <2>2
    <3> QED
      BY <1>9, <2>2, <3>2 DEF PollUpdate, Conclude
  <2> QED
    BY <2>1, <2>2
<1>10. CASE PollDisconnected
  BY <1>10 DEF PollDisconnected, Conclude
<1>11. CASE PollerExpires
  BY <1>11 DEF PollerExpires
<1>12. CASE \E command \in {"show", "cancel", "quit"} : ClickTray(command)
  BY <1>12 DEF ClickTray, DesktopAssumption
<1>13. CASE TrayCloses
  BY <1>13 DEF TrayCloses
<1>14. CASE PollTray
  BY <1>14 DEF PollTray, HandleShow, HandleCancel, HandleQuit
<1>15. CASE DropSetsFlag
  BY <1>15 DEF DropSetsFlag
<1>16. CASE DropJoins
  <2>1. /\ UNCHANGED <<terminal, channel, poller, shown, jobs, tray, commands, phase>>
        /\ window' \in {"open", "minimized", "dropping", "gone"}
    BY <1>16 DEF DropJoins
  <2>2. {cancelled', running', cancellation', worker', quit_after_job',
         keep_running_background', tray_running'} \subseteq BOOLEAN
    <3>1. {cancelled, running, cancellation, quit_after_job, keep_running_background,
           tray_running} \subseteq BOOLEAN
      OBVIOUS
    <3>2. /\ UNCHANGED <<cancelled, running, cancellation, quit_after_job,
                         keep_running_background, tray_running>>
          /\ worker' \in BOOLEAN
      BY <1>16, Zenon DEF DropJoins
    <3> QED
      BY <3>1, <3>2
  <2> QED
    BY <2>1, <2>2
<1>17. CASE UNCHANGED vars
  BY <1>17 DEF vars
<1>18. CASE ThreadExits
  BY <1>18 DEF ThreadExits, JobThread!Exit
<1> QED
  BY <1>1, <1>2, <1>3, <1>4, <1>5, <1>6, <1>7, <1>8, <1>9, <1>10, <1>11, <1>12, <1>13, <1>14,
     <1>15, <1>16, <1>17, <1>18
  DEF Next, Worker, Polling, Shutdown, User, Closed

(* Every step keeps the application's fields, the thread and the flag together. *)
LEMMA CouplingStep ==
  ASSUME DesktopInv, [Next]_vars
  PROVE  JobStateCoupled' /\ Joined' /\ QuitIsPending'
<1> USE DEF DesktopInv, TypeOK, JobStateCoupled, Joined, QuitIsPending, workerVars, channelVars,
  appVars, trayVars, Receiving, WorkerAlive, UiAlive, SetTrayRunning
<1>1. CASE SendStatus
  BY <1>1 DEF SendStatus
<1>2. CASE WorkerReports
  BY <1>2 DEF WorkerReports, JobThread!Report
<1>3. CASE SendTerminal
  BY <1>3 DEF SendTerminal, JobThread!Deliver
<1>4. CASE WorkerUnwinds
  BY <1>4 DEF WorkerUnwinds, JobThread!Unwind
<1>5. CASE StartJob
  BY <1>5 DEF StartJob
<1>6. CASE CancelJob
  BY <1>6 DEF CancelJob
<1>7. CASE ToggleBackgroundMode
  BY <1>7 DEF ToggleBackgroundMode
<1>8. CASE CloseWindow
  BY <1>8 DEF CloseWindow
<1>9. CASE PollUpdate
  BY <1>9 DEF PollUpdate, Conclude
<1>10. CASE PollDisconnected
  BY <1>10 DEF PollDisconnected, Conclude
<1>11. CASE PollerExpires
  BY <1>11 DEF PollerExpires
<1>12. CASE \E command \in {"show", "cancel", "quit"} : ClickTray(command)
  BY <1>12 DEF ClickTray
<1>13. CASE TrayCloses
  BY <1>13 DEF TrayCloses
<1>14. CASE PollTray
  BY <1>14 DEF PollTray, HandleShow, HandleCancel, HandleQuit
<1>15. CASE DropSetsFlag
  BY <1>15 DEF DropSetsFlag
<1>16. CASE DropJoins
  BY <1>16 DEF DropJoins
<1>17. CASE UNCHANGED vars
  BY <1>17 DEF vars
<1>18. CASE ThreadExits
  BY <1>18 DEF ThreadExits, JobThread!Exit
<1> QED
  BY <1>1, <1>2, <1>3, <1>4, <1>5, <1>6, <1>7, <1>8, <1>9, <1>10, <1>11, <1>12, <1>13, <1>14,
     <1>15, <1>16, <1>17, <1>18
  DEF Next, Worker, Polling, Shutdown, User, Closed

(* Every step keeps the account of the terminal update. *)
LEMMA DeliveryStep ==
  ASSUME DesktopInv, [Next]_vars
  PROVE  Channel' /\ Reported' /\ TerminalDelivered'
<1> USE DEF DesktopInv, TypeOK, Terminals, JobStateCoupled, Joined, Channel, Reported,
  TerminalDelivered, workerVars, channelVars, appVars, trayVars, Receiving, WorkerAlive, UiAlive
<1>1. CASE SendStatus
  BY <1>1 DEF SendStatus
<1>2. CASE WorkerReports
  BY <1>2 DEF WorkerReports, JobThread!Report
<1>3. CASE SendTerminal
  BY <1>3 DEF SendTerminal, JobThread!Deliver
<1>4. CASE WorkerUnwinds
  BY <1>4 DEF WorkerUnwinds, JobThread!Unwind
<1>5. CASE StartJob
  BY <1>5 DEF StartJob
<1>6. CASE CancelJob
  BY <1>6 DEF CancelJob
<1>7. CASE ToggleBackgroundMode
  BY <1>7 DEF ToggleBackgroundMode
<1>8. CASE CloseWindow
  BY <1>8 DEF CloseWindow
<1>9. CASE PollUpdate
  <2>1. CASE Head(channel) = "status"
    BY <1>9, <2>1 DEF PollUpdate
  <2>2. CASE Head(channel) # "status"
    <3>1. PICK u \in Terminals \cup {"status"} : channel = <<u>>
      BY <1>9 DEF PollUpdate
    <3>2. Head(channel) \in Terminals /\ channel = <<Head(channel)>>
      BY <3>1, <2>2
    <3>3. phase \in {"sent", "exited"} /\ Head(channel) = terminal
      BY <3>2
    <3> QED
      BY <1>9, <2>2, <3>3 DEF PollUpdate, Conclude, SetTrayRunning
  <2> QED
    BY <2>1, <2>2
<1>10. CASE PollDisconnected
  BY <1>10 DEF PollDisconnected, Conclude
<1>11. CASE PollerExpires
  BY <1>11 DEF PollerExpires
<1>12. CASE \E command \in {"show", "cancel", "quit"} : ClickTray(command)
  BY <1>12 DEF ClickTray
<1>13. CASE TrayCloses
  BY <1>13 DEF TrayCloses
<1>14. CASE PollTray
  BY <1>14 DEF PollTray, HandleShow, HandleCancel, HandleQuit
<1>15. CASE DropSetsFlag
  BY <1>15 DEF DropSetsFlag
<1>16. CASE DropJoins
  BY <1>16 DEF DropJoins
<1>17. CASE UNCHANGED vars
  BY <1>17 DEF vars
<1>18. CASE ThreadExits
  BY <1>18 DEF ThreadExits, JobThread!Exit
<1> QED
  BY <1>1, <1>2, <1>3, <1>4, <1>5, <1>6, <1>7, <1>8, <1>9, <1>10, <1>11, <1>12, <1>13, <1>14,
     <1>15, <1>16, <1>17, <1>18
  DEF Next, Worker, Polling, Shutdown, User, Closed

-----------------------------------------------------------------------------
(* Theorems *)

(* The inductive invariant holds in every state of the application. *)
THEOREM DesktopCorrect == Spec => []DesktopInv
<1>1. Init => DesktopInv
  BY DesktopAssumption, InitEstablishesInv
<1>2. DesktopInv /\ [Next]_vars => DesktopInv'
  BY DesktopAssumption, TypeStep, CouplingStep, DeliveryStep DEF DesktopInv
<1> QED
  BY <1>1, <1>2, PTL DEF Spec

(* The application's state stays well typed (InterpolateApp, app.rs). *)
THEOREM TypeCorrect == Spec => []TypeOK
  BY DesktopCorrect, PTL DEF DesktopInv

(* The assertions of start_job, cancel_job and apply_update hold between any two
   handlers, for any number of jobs. *)
THEOREM JobStateIsCoupled == Spec => []JobStateCoupled
  BY DesktopCorrect, PTL DEF DesktopInv

(* The status line shows how the last job ended (poll_updates, apply_update). *)
THEOREM TerminalIsDelivered == Spec => []TerminalDelivered
  BY DesktopCorrect, PTL DEF DesktopInv

(* A deferred quit cancels the job it waits for and does not outlive it. *)
THEOREM QuitBelongsToJob == Spec => []QuitIsPending
  BY DesktopCorrect, PTL DEF DesktopInv

(* Drop joins the worker before the native backend goes. *)
THEOREM BackendIsShutDownLast == Spec => []BackendOutlivesWorker
<1>1. DesktopInv => BackendOutlivesWorker
  BY DEF DesktopInv, Joined, BackendOutlivesWorker
<1> QED
  BY <1>1, DesktopCorrect, PTL

(* A second job never starts while the thread of the first one is alive: the
   application's own flag is enough to know. *)
THEOREM JobsDoNotOverlap == Spec => OneActiveJob
<1>1. DesktopInv /\ [Next]_vars => [jobs' # jobs => ~WorkerAlive]_vars
  <2> SUFFICES ASSUME DesktopInv, Next, jobs' # jobs
               PROVE  ~WorkerAlive
    OBVIOUS
  <2>1. StartJob
    BY DEF Next, Worker, Polling, Shutdown, User, Closed, vars, workerVars, channelVars, appVars,
       trayVars, SendStatus, WorkerReports, SendTerminal, ThreadExits, WorkerUnwinds, CancelJob,
       ToggleBackgroundMode, CloseWindow, PollUpdate, PollDisconnected, PollerExpires, ClickTray,
       TrayCloses, PollTray, DropSetsFlag, DropJoins, Conclude
  <2> QED
    BY <2>1 DEF StartJob, DesktopInv, JobStateCoupled, UiAlive
<1> QED
  BY <1>1, DesktopCorrect, PTL DEF Spec, OneActiveJob
=============================================================================
