----------------------------- MODULE JobLogProofs -----------------------------
(***************************************************************************)
(* Theorems about the rotation of the logs, for any number of instances    *)
(* and of log files, and wherever a rotation stops: as long as no instance *)
(* rotates in the middle of another's rotation, the history is kept.       *)
(***************************************************************************)
EXTENDS JobLog, TLAPS

-----------------------------------------------------------------------------
(* The inductive invariant *)

RotationTypeOK ==
  /\ files \in [Indices -> Nat]
  /\ pc \in [Instances -> {"idle", "remove", "rename", "check", "open", "logging", "panicked"}]
  /\ target_index \in [Instances -> Indices]
  /\ jobs \in Nat /\ aborted \in Nat
  /\ overlapped \in BOOLEAN
  /\ \A a \in Instances : pc[a] \in {"remove", "rename"} => target_index[a] # 0

(* Only one instance rotates. *)
Alone == \A a, b \in Instances : Rotating(a) /\ Rotating(b) => a = b

(* The place a log moves into is free, and so is the first one in the end. *)
Vacant ==
  \A a \in Instances :
    /\ pc[a] = "remove" /\ target_index[a] < LOG_FILE_COUNT_MAX - 1 =>
         files[target_index[a]] = NoFile
    /\ pc[a] = "rename" => files[target_index[a]] = NoFile
    /\ pc[a] \in {"check", "open"} => target_index[a] = 0 /\ files[0] = NoFile
    /\ pc[a] # "panicked"

(* The rotation that is under way has moved the log at index i already. *)
Moved(i) == \E a \in Instances : Rotating(a) /\ target_index[a] < i

(* The log of job j has been moved once for each later job, at most once for each
   rotation that stopped half way, and once more if the rotation that is under
   way has moved it. *)
Placed(i, j) == files[i] = j /\ i <= jobs - j + aborted + IF Moved(i) THEN 1 ELSE 0

Kept ==
  \A j \in 1..jobs : j > jobs - (LOG_FILE_COUNT_MAX - 1 - aborted) =>
    \E i \in Indices : Placed(i, j)

RotationInv == ~overlapped => Alone /\ Vacant /\ Kept

-----------------------------------------------------------------------------
(* Steps *)

(* Every step keeps the types. *)
LEMMA TypeStep ==
  ASSUME JobLogAssumption, RotationTypeOK, [Next]_vars
  PROVE  RotationTypeOK'
<1> USE DEF RotationTypeOK, Indices, NoFile, Goto, Touches, JobLogAssumption
<1>1. ASSUME NEW a \in Instances, BeginRotation(a) PROVE RotationTypeOK'
  BY <1>1 DEF BeginRotation, FirstTarget
<1>2. ASSUME NEW a \in Instances, RemoveTarget(a) PROVE RotationTypeOK'
  BY <1>2 DEF RemoveTarget
<1>3. ASSUME NEW a \in Instances, RenameSource(a) PROVE RotationTypeOK'
  <2>1. files' \in [Indices -> Nat]
    BY <1>3 DEF RenameSource
  <2>2. target_index' \in [Instances -> Indices]
    BY <1>3 DEF RenameSource
  <2>3. pc[a] = "rename" /\ target_index[a] # 0 /\ target_index'[a] = target_index[a] - 1
    BY <1>3 DEF RenameSource
  <2>4. pc' = [pc EXCEPT ![a] = IF target_index[a] = 1 THEN "check" ELSE "remove"]
    BY <1>3 DEF RenameSource
  <2>5. \A b \in Instances : pc'[b] \in {"remove", "rename"} => target_index'[b] # 0
    BY <1>3, <2>3, <2>4 DEF RenameSource
  <2> QED
    BY <1>3, <2>1, <2>2, <2>4, <2>5 DEF RenameSource
<1>4. ASSUME NEW a \in Instances, CheckRotated(a) PROVE RotationTypeOK'
  BY <1>4 DEF CheckRotated
<1>5. ASSUME NEW a \in Instances, Open(a) PROVE RotationTypeOK'
  BY <1>5 DEF Open
<1>6. ASSUME NEW a \in Instances, Abort(a) PROVE RotationTypeOK'
  BY <1>6 DEF Abort
<1>7. ASSUME NEW a \in Instances, JobEnds(a) PROVE RotationTypeOK'
  BY <1>7 DEF JobEnds
<1>8. CASE UNCHANGED rotationVars
  BY <1>8 DEF rotationVars
<1> QED
  BY <1>1, <1>2, <1>3, <1>4, <1>5, <1>6, <1>7, <1>8 DEF Next, Rotate, Diagnose, vars

(* Every step keeps the history, or overlaps with another rotation. *)
LEMMA RotationInvStep ==
  ASSUME JobLogAssumption, RotationTypeOK, RotationTypeOK', RotationInv, [Next]_vars
  PROVE  RotationInv'
<1> SUFFICES ASSUME ~overlapped' PROVE (Alone /\ Vacant /\ Kept)'
  BY DEF RotationInv
<1>0. ~overlapped
  BY DEF RotationTypeOK, Next, Rotate, Diagnose, vars, rotationVars, BeginRotation, RemoveTarget,
     RenameSource, CheckRotated, Open, Abort, JobEnds, Touches
<1>a. Alone /\ Vacant /\ Kept
  BY <1>0 DEF RotationInv
<1> USE DEF RotationTypeOK, Indices, NoFile, Goto, Touches, JobLogAssumption, Rotating
<1>1. ASSUME NEW a \in Instances, BeginRotation(a) PROVE (Alone /\ Vacant /\ Kept)'
  <2>1. \A b \in Instances : ~Rotating(b)
    BY <1>1 DEF BeginRotation
  <2>2. (Alone /\ Vacant)'
    BY <1>1, <1>a, <2>1 DEF BeginRotation, Alone, Vacant, FirstTarget
  <2>3. \A i \in Indices : ~Moved(i)
    BY <2>1 DEF Moved
  <2>4. ASSUME NEW i \in Indices, NEW j \in Nat, Placed(i, j) PROVE Placed(i, j)'
    BY <1>1, <2>3, <2>4 DEF BeginRotation, Placed
  <2> QED
    BY <1>1, <1>a, <2>2, <2>4 DEF BeginRotation, Kept
<1>2. ASSUME NEW a \in Instances, RemoveTarget(a) PROVE (Alone /\ Vacant /\ Kept)'
  <2>1. (Alone /\ Vacant)'
    BY <1>2, <1>a DEF RemoveTarget, Alone, Vacant
  <2>2. \A i \in Indices : /\ Moved(i) <=> target_index[a] < i
                           /\ Moved(i)' <=> Moved(i)
    BY <1>2, <1>a DEF RemoveTarget, Alone, Moved
  <2>3. ASSUME NEW j \in 1..jobs, j > jobs - (LOG_FILE_COUNT_MAX - 1 - aborted),
               NEW i \in Indices, Placed(i, j)
        PROVE  Placed(i, j)'
    <3>1. i # target_index[a]
      <4>1. CASE target_index[a] < LOG_FILE_COUNT_MAX - 1
        BY <1>2, <1>a, <2>3, <4>1 DEF RemoveTarget, Vacant, Placed
      <4>2. CASE target_index[a] = LOG_FILE_COUNT_MAX - 1
        BY <2>2, <2>3, <4>2 DEF Placed
      <4> QED
        BY <4>1, <4>2
    <3> QED
      BY <1>2, <2>2, <2>3, <3>1 DEF RemoveTarget, Placed
  <2> QED
    BY <1>2, <1>a, <2>1, <2>3 DEF RemoveTarget, Kept
<1>3. ASSUME NEW a \in Instances, RenameSource(a) PROVE (Alone /\ Vacant /\ Kept)'
  <2>0. PICK t \in 1..LOG_FILE_COUNT_MAX - 1 : t = target_index[a]
    BY <1>3 DEF RenameSource
  <2>1. /\ pc[a] = "rename" /\ target_index[a] = t /\ files[t] = NoFile
        /\ target_index' = [target_index EXCEPT ![a] = t - 1]
        /\ pc' = [pc EXCEPT ![a] = IF t = 1 THEN "check" ELSE "remove"]
        /\ UNCHANGED <<jobs, aborted>>
    BY <1>3, <1>a, <2>0 DEF RenameSource, Vacant
  <2>2. /\ files'[t - 1] = NoFile
        /\ files'[t] = files[t - 1]
        /\ \A i \in Indices : i \notin {t, t - 1} => files'[i] = files[i]
    BY <1>3, <2>1 DEF RenameSource
  <2>3. \A b \in Instances : Rotating(b)' <=> Rotating(b)
    BY <2>1
  <2>4. Alone' /\ \A b \in Instances : Rotating(b) <=> b = a
    BY <1>a, <2>1, <2>3 DEF Alone
  <2>5. Vacant'
    <3>1. \A b \in Instances \ {a} : pc'[b] \in {"idle", "logging"}
      BY <1>a, <2>1, <2>4 DEF Vacant
    <3>2. /\ target_index'[a] = t - 1 /\ files'[t - 1] = NoFile
          /\ pc'[a] = IF t = 1 THEN "check" ELSE "remove"
      BY <2>1, <2>2
    <3>3. ASSUME NEW b \in Instances
          PROVE  /\ pc'[b] = "remove" => files'[target_index'[b]] = NoFile
                 /\ pc'[b] # "rename" /\ pc'[b] # "panicked"
                 /\ pc'[b] \in {"check", "open"} => target_index'[b] = 0 /\ files'[0] = NoFile
      <4>1. CASE b = a
        <5>1. CASE t = 1
          <6>1. pc'[b] = "check" /\ target_index'[b] = 0 /\ files'[0] = NoFile
            BY <3>2, <4>1, <5>1
          <6> QED
            BY <6>1, Zenon
        <5>2. CASE t # 1
          <6>1. pc'[b] = "remove" /\ files'[target_index'[b]] = NoFile
            BY <3>2, <4>1, <5>2
          <6> QED
            BY <6>1, Zenon
        <5> QED
          BY <5>1, <5>2
      <4>2. CASE b # a
        <5>1. pc'[b] = "idle" \/ pc'[b] = "logging"
          BY <3>1, <4>2
        <5> QED
          BY <5>1
      <4> QED
        BY <4>1, <4>2
    <3> QED
      BY <3>3 DEF Vacant
  <2>6. \A i \in Indices : /\ Moved(i) <=> t < i
                           /\ Moved(i)' <=> t - 1 < i
    BY <2>1, <2>3, <2>4 DEF Moved
  <2>7. ASSUME NEW j \in 1..jobs, NEW i \in Indices, Placed(i, j)
        PROVE  \E k \in Indices : Placed(k, j)'
    <3>1. CASE i = t
      BY <2>1, <2>7, <3>1 DEF Placed
    <3>2. CASE i = t - 1
      <4>1. files'[t] = j /\ t <= jobs - j + aborted + 1 /\ t \in Indices
        BY <2>1, <2>2, <2>6, <2>7, <3>2 DEF Placed
      <4>2. Moved(t)'
        BY <2>1, <2>6, <4>1
      <4> QED
        BY <2>1, <4>1, <4>2 DEF Placed
    <3>3. CASE i \notin {t, t - 1}
      <4>1. files'[i] = j
        BY <2>2, <2>7, <3>3 DEF Placed
      <4>2. Moved(i) => Moved(i)'
        BY <2>1, <2>6
      <4>3. /\ i <= jobs - j + aborted + IF Moved(i) THEN 1 ELSE 0
            /\ jobs' = jobs /\ aborted' = aborted
        BY <2>1, <2>7 DEF Placed
      <4>4. i <= jobs' - j + aborted' + IF Moved(i)' THEN 1 ELSE 0
        BY <4>2, <4>3, SMTT(30)
      <4> QED
        BY <4>1, <4>4 DEF Placed
    <3> QED
      BY <3>1, <3>2, <3>3
  <2> QED
    BY <1>a, <2>1, <2>4, <2>5, <2>7 DEF Kept
<1>b. ASSUME UNCHANGED <<files, target_index, jobs, aborted>>,
             \A b \in Instances : Rotating(b)' <=> Rotating(b)
      PROVE  Alone' /\ Kept'
  BY <1>a, <1>b DEF Alone, Kept, Placed, Moved
<1>4. ASSUME NEW a \in Instances, CheckRotated(a) PROVE (Alone /\ Vacant /\ Kept)'
  <2>1. Vacant'
    BY <1>4, <1>a DEF CheckRotated, Vacant
  <2> QED
    BY <1>4, <1>a, <1>b, <2>1 DEF CheckRotated, Vacant
<1>5. ASSUME NEW a \in Instances, Open(a) PROVE (Alone /\ Vacant /\ Kept)'
  <2>1. (Alone /\ Vacant)'
    BY <1>5, <1>a DEF Open, Alone, Vacant
  <2>2. target_index[a] = 0 /\ files[0] = NoFile
    BY <1>5, <1>a DEF Open, Vacant
  <2>3. /\ files' = [files EXCEPT ![0] = jobs + 1]
        /\ jobs' = jobs + 1 /\ aborted' = aborted
    BY <1>5 DEF Open
  <2>4. ASSUME NEW j \in 1..jobs, NEW i \in Indices, Placed(i, j) PROVE Placed(i, j)'
    <3>1. i # 0 /\ files'[i] = j
      BY <2>2, <2>3, <2>4 DEF Placed
    <3>2. i <= jobs - j + aborted + 1
      <4>1. CASE Moved(i)
        BY <2>4, <4>1 DEF Placed
      <4>2. CASE ~Moved(i)
        BY <2>4, <4>2 DEF Placed
      <4> QED
        BY <4>1, <4>2
    <3> QED
      BY <2>3, <3>1, <3>2 DEF Placed
  <2>5. PICK n \in Nat : n = jobs + 1
    OBVIOUS
  <2>6. Placed(0, n)' /\ 0 \in Indices
    BY <2>3, <2>5 DEF Placed
  <2>7. jobs' = n /\ n = jobs + 1 /\ aborted' = aborted
    BY <2>3, <2>5
  <2>8. ASSUME NEW j \in 1..n, j > n - (LOG_FILE_COUNT_MAX - 1 - aborted)
        PROVE  \E i \in Indices : Placed(i, j)'
    <3>1. CASE j = n
      BY <2>6, <3>1
    <3>2. CASE j # n
      <4>1. j \in 1..jobs /\ j > jobs - (LOG_FILE_COUNT_MAX - 1 - aborted)
        BY <2>7, <2>8, <3>2
      <4>2. PICK i \in Indices : Placed(i, j)
        BY <1>a, <4>1 DEF Kept
      <4> QED
        BY <2>4, <4>1, <4>2
    <3> QED
      BY <3>1, <3>2
  <2>9. Kept'
    BY <2>7, <2>8 DEF Kept
  <2> QED
    BY <2>1, <2>9
<1>6. ASSUME NEW a \in Instances, Abort(a) PROVE (Alone /\ Vacant /\ Kept)'
  <2>1. (Alone /\ Vacant)'
    BY <1>6, <1>a DEF Abort, Alone, Vacant
  <2>2. UNCHANGED <<files, jobs>> /\ aborted' = aborted + 1
    BY <1>6 DEF Abort
  <2>3. ASSUME NEW j \in 1..jobs, NEW i \in Indices, Placed(i, j) PROVE Placed(i, j)'
    <3>1. files'[i] = j /\ i <= jobs - j + aborted + 1
      BY <2>2, <2>3 DEF Placed
    <3> QED
      BY <2>2, <3>1 DEF Placed
  <2> QED
    BY <1>a, <2>1, <2>2, <2>3 DEF Kept
<1>7. ASSUME NEW a \in Instances, JobEnds(a) PROVE (Alone /\ Vacant /\ Kept)'
  <2>1. Vacant'
    BY <1>7, <1>a DEF JobEnds, Vacant
  <2> QED
    BY <1>7, <1>b, <2>1 DEF JobEnds
<1>8. CASE UNCHANGED rotationVars
  BY <1>8, <1>a DEF rotationVars, Alone, Vacant, Kept, Placed, Moved
<1> QED
  BY <1>1, <1>2, <1>3, <1>4, <1>5, <1>6, <1>7, <1>8 DEF Next, Rotate, Diagnose, vars

-----------------------------------------------------------------------------
(* Theorems *)

(* The inductive invariant holds as long as rotations do not overlap. *)
THEOREM RotationCorrect == Spec => [](RotationTypeOK /\ RotationInv)
<1>1. Init => RotationTypeOK /\ RotationInv
  <2> SUFFICES ASSUME Init PROVE RotationTypeOK /\ RotationInv
    OBVIOUS
  <2>1. RotationTypeOK
    <3>1. 0 \in Indices /\ NoFile \in Nat
      BY JobLogAssumption DEF Indices, NoFile
    <3> QED
      BY <3>1 DEF Init, RotationTypeOK
  <2>2. RotationInv
    BY DEF Init, RotationInv, Alone, Vacant, Kept, Rotating
  <2> QED
    BY <2>1, <2>2
<1>2. RotationTypeOK /\ RotationInv /\ [Next]_vars => RotationTypeOK' /\ RotationInv'
  BY JobLogAssumption, TypeStep, RotationInvStep
<1> QED
  BY <1>1, <1>2, PTL DEF Spec

(* JobLog::create keeps the logs of the last jobs, one fewer than there are files
   and one fewer again for each rotation that stopped half way, and its assertion
   never fails, for any number of instances that take turns. *)
THEOREM HistoryIsKept == Spec => []HistoryKept
<1>1. RotationInv => HistoryKept
  BY DEF RotationInv, Vacant, Kept, Placed, HistoryKept
<1> QED
  BY <1>1, RotationCorrect, PTL
=============================================================================
