-------------------------- MODULE NativeBackendProofs --------------------------
(***************************************************************************)
(* InstanceWhileUsed for every set of threads that call the library. It is *)
(* not inductive: the count is also kept by the mutex, which no second     *)
(* thread passes while a model is loaded.                                  *)
(***************************************************************************)
EXTENDS NativeBackend, TLAPS

TypeOK ==
  /\ pc \in [Threads -> Locations]
  /\ gpu_instance_initialized \in BOOLEAN
  /\ backend_count \in {0, 1}

(* One thread loads at most, and while it does there is no backend. *)
LoadingAlone ==
  \A t \in Threads : pc[t] = "loading" =>
    /\ backend_count = 0
    /\ \A s \in Threads : pc[s] = "loading" => s = t

(* The count says whether somebody holds the backend. *)
CountIsOwners ==
  /\ \A s, t \in Owners : s = t
  /\ backend_count = 0 <=> Owners = {}

InstanceForUsers ==
  (\E t \in Threads : pc[t] \in {"loading", "owner", "processing"}) => gpu_instance_initialized

NativeInv == TypeOK /\ LoadingAlone /\ CountIsOwners /\ InstanceForUsers

-----------------------------------------------------------------------------
(* Entering and leaving create without a backend leaves the owners alone. *)
LEMMA OwnersKept ==
  ASSUME TypeOK, NEW t \in Threads, NEW location \in Locations, Goto(t, location),
         pc[t] \notin {"owner", "processing"}, location \notin {"owner", "processing"}
  PROVE  Owners' = Owners
  BY DEF TypeOK, Goto, Owners, Locations

LEMMA NativeInvStep == NativeInv /\ [NativeNext]_nativeVars => NativeInv'
<1> USE DEF NativeInv
<1> SUFFICES ASSUME NativeInv, [NativeNext]_nativeVars PROVE NativeInv'
  OBVIOUS
<1>1. CASE UNCHANGED nativeVars
  BY <1>1 DEF nativeVars, TypeOK, LoadingAlone, CountIsOwners, InstanceForUsers, Owners
<1>2. ASSUME NEW t \in Threads, NativeStep(t) PROVE NativeInv'
  <2> USE DEF gpu_mutex_free
  <2>1. CASE Enumerate(t) \/ CreateRefused(t) \/ Shutdown(t)
    <3>1. UNCHANGED <<pc, backend_count>> /\ Owners' = Owners
      BY <2>1 DEF Enumerate, CreateRefused, Shutdown, Owners
    <3>2. gpu_instance_initialized' \in BOOLEAN
      BY <2>1 DEF Enumerate, CreateRefused, Shutdown, release_gpu_instance_if_idle_locked, TypeOK
    <3>3. InstanceForUsers'
      BY <2>1, <3>1 DEF Enumerate, CreateRefused, Shutdown, release_gpu_instance_if_idle_locked,
            InstanceForUsers, CountIsOwners, TypeOK, Owners
    <3> QED BY <3>1, <3>2, <3>3 DEF TypeOK, LoadingAlone, CountIsOwners
  <2>2. CASE CreateLoads(t)
    <3>1. Owners' = Owners
      BY <2>2, OwnersKept DEF CreateLoads, Locations
    <3> QED BY <2>2, <3>1 DEF CreateLoads, Goto, TypeOK, LoadingAlone, CountIsOwners,
                 InstanceForUsers, Locations
  <2>3. CASE CreateThrows(t) \/ LoadThrows(t)
    <3>1. Owners' = Owners /\ Goto(t, "recovering") /\ UNCHANGED <<gpu_instance_initialized, backend_count>>
      BY <2>3, OwnersKept DEF CreateThrows, LoadThrows, Locations
    <3> QED BY <3>1 DEF Goto, TypeOK, LoadingAlone, CountIsOwners, InstanceForUsers, Locations
  <2>4. CASE LoadSucceeds(t)
    <3>1. Owners = {} /\ Owners' = {t}
      BY <2>4 DEF LoadSucceeds, Goto, TypeOK, LoadingAlone, CountIsOwners, Owners, Locations
    <3> QED BY <2>4, <3>1 DEF LoadSucceeds, Goto, TypeOK, LoadingAlone, CountIsOwners,
                 InstanceForUsers, Locations
  <2>5. CASE LoadFails(t) \/ Recover(t)
    <3>1. Owners' = Owners /\ Goto(t, "idle") /\ UNCHANGED backend_count
      BY <2>5, OwnersKept DEF LoadFails, Recover, Locations
    <3>2. gpu_instance_initialized' = (gpu_instance_initialized /\ backend_count # 0)
      BY <2>5, <3>1 DEF LoadFails, Recover, release_gpu_instance_if_idle_locked
    <3>3. \A s \in Threads : pc'[s] # "loading"
      BY <2>5, <3>1 DEF LoadFails, Recover, Goto, TypeOK, LoadingAlone
    <3>4. InstanceForUsers'
      BY <3>1, <3>2, <3>3 DEF InstanceForUsers, CountIsOwners, TypeOK, Owners, Goto
    <3> QED BY <3>1, <3>2, <3>3, <3>4 DEF Goto, TypeOK, LoadingAlone, CountIsOwners, Locations
  <2>6. CASE Process(t) \/ Processed(t)
    <3>1. Owners' = Owners
      BY <2>6 DEF Process, Processed, Goto, TypeOK, Owners, Locations
    <3> QED BY <2>6, <3>1 DEF Process, Processed, Goto, TypeOK, LoadingAlone, CountIsOwners,
                 InstanceForUsers, Locations
  <2>7. CASE Destroy(t)
    <3>1. Owners = {t} /\ Owners' = {} /\ backend_count' = 0
      BY <2>7 DEF Destroy, Goto, TypeOK, CountIsOwners, Owners, Locations
    <3>2. \A s \in Threads : pc'[s] \notin {"loading", "owner", "processing"}
      BY <2>7, <3>1 DEF Destroy, Goto, TypeOK, Owners
    <3> QED BY <2>7, <3>1, <3>2 DEF Destroy, Goto, release_gpu_instance_if_idle_locked, TypeOK,
                 LoadingAlone, CountIsOwners, InstanceForUsers, Locations
  <2> QED BY <1>2, <2>1, <2>2, <2>3, <2>4, <2>5, <2>6, <2>7 DEF NativeStep
<1> QED BY <1>1, <1>2 DEF NativeNext

(* The Vulkan instance of the native library exists while any thread loads a
   model or uses a backend, and there is one backend at most, which the count
   knows of: whatever number of threads call the library, in whatever order. *)
THEOREM InstanceIsKept == NativeSpec => []InstanceWhileUsed
<1>1. NativeInit => NativeInv
  BY DEF NativeInit, NativeInv, TypeOK, LoadingAlone, CountIsOwners, InstanceForUsers, Owners, Locations
<1>2. NativeInv => InstanceWhileUsed
  BY DEF NativeInv, TypeOK, CountIsOwners, InstanceForUsers, InstanceWhileUsed
<1> QED BY <1>1, <1>2, NativeInvStep, PTL DEF NativeSpec
=============================================================================
