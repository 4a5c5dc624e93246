----------------------------- MODULE NativeBackend -----------------------------
(***************************************************************************)
(* The native inference library, src/native/interpolate_backend.cpp: a     *)
(* Vulkan instance shared by everything that asks for GPUs or computes on  *)
(* one, created when it is first needed and destroyed with the last        *)
(* backend, behind one mutex.                                              *)
(*                                                                         *)
(* The library is checked for any number of threads that call it, as its   *)
(* mutex is meant for; the program's own callers are the UI thread, at the *)
(* start and at the end, and the worker in between.                        *)
(***************************************************************************)
EXTENDS Naturals

CONSTANT Threads

VARIABLES
  pc,                        \* where each thread is in the library
  gpu_instance_initialized,
  backend_count

nativeVars == <<pc, gpu_instance_initialized, backend_count>>

(* idle: outside, without a backend.  loading: in create, with the mutex.
   recovering: in a catch block of create, before it takes the mutex again.
   owner: outside, with a backend.  processing: in process_rgb24. *)
Locations == {"idle", "loading", "recovering", "owner", "processing"}

Goto(t, location) == pc' = [pc EXCEPT ![t] = location]

(* Only create keeps the mutex over more than one step. *)
gpu_mutex_free == \A t \in Threads : pc[t] # "loading"

(* Mutant: an instance that a backend uses is destroyed too. *)
release_gpu_instance_if_idle_locked_always == gpu_instance_initialized' = FALSE

release_gpu_instance_if_idle_locked ==
  gpu_instance_initialized' = (gpu_instance_initialized /\ backend_count' # 0)

NativeInit ==
  /\ pc = [t \in Threads |-> "idle"]
  /\ gpu_instance_initialized = FALSE
  /\ backend_count = 0

(* interpolate_backend_gpu_count and interpolate_backend_gpu_name: each is a
   section of its own and leaves the instance behind; creating it may throw. *)
Enumerate(t) ==
  /\ pc[t] = "idle" /\ gpu_mutex_free
  /\ gpu_instance_initialized' \in {gpu_instance_initialized, TRUE}
  /\ UNCHANGED <<pc, backend_count>>

(* interpolate_backend_create, up to the loading of the model: a second backend
   is refused, and so is a GPU that does not exist, after the instance was made. *)
CreateRefused(t) ==
  /\ pc[t] = "idle" /\ gpu_mutex_free
  /\ IF backend_count # 0 THEN UNCHANGED gpu_instance_initialized
                          ELSE gpu_instance_initialized' = FALSE
  /\ UNCHANGED <<pc, backend_count>>

CreateLoads(t) ==
  /\ pc[t] = "idle" /\ gpu_mutex_free
  /\ backend_count = 0
  /\ gpu_instance_initialized' = TRUE
  /\ Goto(t, "loading")
  /\ UNCHANGED backend_count

(* Anything before the mutex, and the creation of the instance, may throw. *)
CreateThrows(t) ==
  /\ pc[t] = "idle"
  /\ Goto(t, "recovering")
  /\ UNCHANGED <<gpu_instance_initialized, backend_count>>

LoadSucceeds(t) ==
  /\ pc[t] = "loading"
  /\ backend_count' = 1
  /\ Goto(t, "owner")
  /\ UNCHANGED gpu_instance_initialized

LoadFails(t) ==
  /\ pc[t] = "loading"
  /\ UNCHANGED backend_count
  /\ release_gpu_instance_if_idle_locked
  /\ Goto(t, "idle")

(* The engine is destroyed and the mutex released while the stack unwinds. *)
LoadThrows(t) ==
  /\ pc[t] = "loading"
  /\ Goto(t, "recovering")
  /\ UNCHANGED <<gpu_instance_initialized, backend_count>>

Recover(t) ==
  /\ pc[t] = "recovering" /\ gpu_mutex_free
  /\ UNCHANGED backend_count
  /\ release_gpu_instance_if_idle_locked
  /\ Goto(t, "idle")

(* interpolate_backend_process_rgb24 computes without the mutex. *)
Process(t) ==
  /\ pc[t] = "owner"
  /\ Goto(t, "processing")
  /\ UNCHANGED <<gpu_instance_initialized, backend_count>>

Processed(t) ==
  /\ pc[t] = "processing"
  /\ Goto(t, "owner")
  /\ UNCHANGED <<gpu_instance_initialized, backend_count>>

Destroy(t) ==
  /\ pc[t] = "owner" /\ gpu_mutex_free
  /\ backend_count' = IF backend_count > 0 THEN backend_count - 1 ELSE 0
  /\ release_gpu_instance_if_idle_locked
  /\ Goto(t, "idle")

Shutdown(t) ==
  /\ pc[t] = "idle" /\ gpu_mutex_free
  /\ UNCHANGED <<pc, backend_count>>
  /\ release_gpu_instance_if_idle_locked

NativeStep(t) ==
  \/ Enumerate(t) \/ CreateRefused(t) \/ CreateLoads(t) \/ CreateThrows(t)
  \/ LoadSucceeds(t) \/ LoadFails(t) \/ LoadThrows(t) \/ Recover(t)
  \/ Process(t) \/ Processed(t) \/ Destroy(t) \/ Shutdown(t)

NativeNext == \E t \in Threads : NativeStep(t)
NativeSpec == NativeInit /\ [][NativeNext]_nativeVars

-----------------------------------------------------------------------------
Owners == {t \in Threads : pc[t] \in {"owner", "processing"}}

(* The instance exists as long as any thread loads a model, holds a backend or
   computes with it, whoever else fails to create one, recovers from an
   exception, lists the GPUs or shuts down; and there is one backend at most,
   which the count knows of. *)
InstanceWhileUsed ==
  /\ (\E t \in Threads : pc[t] \in {"loading", "owner", "processing"}) => gpu_instance_initialized
  /\ \A s, t \in Owners : s = t
  /\ backend_count = IF Owners = {} THEN 0 ELSE 1
=============================================================================
