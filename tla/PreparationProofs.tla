--------------------------- MODULE PreparationProofs ---------------------------
(***************************************************************************)
(* RequestHonoured and MachineSuits for every request, source and machine: *)
(* the lemmas say that the n-th card of a name in one list is the n-th of  *)
(* that name in the other.                                                 *)
(***************************************************************************)
EXTENDS Preparation, FiniteSetTheorems, FunctionTheorems, TLAPS

-----------------------------------------------------------------------------
(* Cards *)

(* The cards of a name among the first k *)
Named(list, k, name) == {j \in 1..k : NameOf[list[j]] = name}

LEMMA NamedIsFinite ==
  ASSUME NEW list, NEW k \in Nat, NEW name
  PROVE  IsFiniteSet(Named(list, k, name)) /\ Cardinality(Named(list, k, name)) \in Nat
<1>1. IsFiniteSet(1..k) /\ Named(list, k, name) \in SUBSET (1..k)
  BY FS_Interval DEF Named
<1> QED
  BY <1>1, FS_Subset, FS_CardinalityType

(* A later card of a name has more of them before it. *)
LEMMA CountGrows ==
  ASSUME NEW list, NEW i \in Nat, NEW k \in Nat, i < k, NEW name, NameOf[list[i + 1]] = name
  PROVE  Cardinality(Named(list, i, name)) # Cardinality(Named(list, k, name))
<1>1. Named(list, i, name) \in SUBSET Named(list, k, name)
  BY DEF Named
<1>2. i + 1 \in Named(list, k, name) /\ i + 1 \notin Named(list, i, name)
  BY DEF Named
<1> QED
  BY <1>1, <1>2, NamedIsFinite, FS_Subset

LEMMA CountIsUnique ==
  ASSUME NEW list, NEW i \in Nat, NEW k \in Nat, NEW name,
         NameOf[list[i + 1]] = name, NameOf[list[k + 1]] = name,
         Cardinality(Named(list, i, name)) = Cardinality(Named(list, k, name))
  PROVE  i = k
<1>1. CASE i < k
  BY <1>1, CountGrows
<1>2. CASE k < i
  BY <1>2, CountGrows
<1> QED
  BY <1>1, <1>2

LEMMA MinOfOne ==
  ASSUME NEW x \in Int
  PROVE  Min({x}) = x
BY DEF Min

LEMMA MinOfTwo ==
  ASSUME NEW x \in Nat, NEW y \in Nat
  PROVE  Min({x, y}) \in {x, y} /\ Min({x, y}) <= x /\ Min({x, y}) <= y
<1>1. \E m \in {x, y} : \A z \in {x, y} : m <= z
  <2>1. CASE x <= y
    BY <2>1
  <2>2. CASE y <= x
    BY <2>2
  <2> QED
    BY <2>1, <2>2
<1> QED
  BY <1>1 DEF Min

(* Occurrence finds the one card of the name with n of them before it. *)
LEMMA OccurrenceFinds ==
  ASSUME NEW list \in Seq(Cards), NEW name, NEW n \in Nat, Occurrence(list, name, n) # None
  PROVE  /\ Occurrence(list, name, n) \in 0..(Len(list) - 1)
         /\ NameOf[list[Occurrence(list, name, n) + 1]] = name
         /\ Cardinality(Named(list, Occurrence(list, name, n), name)) = n
<1> DEFINE Found == {i \in 0..(Len(list) - 1) :
                       NameOf[list[i + 1]] = name /\ Cardinality(Named(list, i, name)) = n}
<1>1. Occurrence(list, name, n) = IF Found = {} THEN None ELSE Min(Found)
  BY DEF Occurrence, Named
<1>2. PICK i \in Found : TRUE
  BY <1>1
<1>3. \A k \in Found : k = i
  BY CountIsUnique
<1>4. Found = {i}
  BY <1>2, <1>3
<1>5. Min(Found) = i
  BY <1>4, MinOfOne
<1> QED
  BY <1>1, <1>2, <1>4, <1>5

(* A card that CUDA lists has as many cards of its name before it as in the list
   of Vulkan. *)
LEMMA SameCount ==
  ASSUME PreparationAssumption, NEW m \in Machines, NumberedAlike(m), NEW i \in Nat, NEW k \in Nat,
         i + 1 \in DOMAIN m.vulkan, k + 1 \in DOMAIN m.cuda, m.vulkan[i + 1] = m.cuda[k + 1],
         NEW name, NameOf[m.cuda[k + 1]] = name
  PROVE  Cardinality(Named(m.vulkan, i, name)) = Cardinality(Named(m.cuda, k, name))
<1> DEFINE V == Named(m.vulkan, i, name)
           C == Named(m.cuda, k, name)
           place == [j \in C |-> CHOOSE q \in V : m.vulkan[q] = m.cuda[j]]
<1>0. /\ m.vulkan \in Seq(Cards) /\ m.cuda \in Seq(Cards)
      /\ \A p, q \in DOMAIN m.vulkan : m.vulkan[p] = m.vulkan[q] => p = q
      /\ \A p, q \in DOMAIN m.cuda : m.cuda[p] = m.cuda[q] => p = q
      /\ \A a, b \in Cards : NameOf[a] = NameOf[b] /\ a \in Listed(m.cuda) =>
           /\ b \in Listed(m.cuda) <=> b \in Listed(m.vulkan)
           /\ Before(m.cuda, a, b) <=> Before(m.vulkan, a, b)
  BY DEF PreparationAssumption, NumberedAlike, Once
<1>1. /\ V \subseteq DOMAIN m.vulkan /\ C \subseteq DOMAIN m.cuda
      /\ m.cuda[k + 1] \in Cards
  BY <1>0 DEF Named
<1>2. ASSUME NEW j \in C PROVE \E q \in V : m.vulkan[q] = m.cuda[j]
  <2>1. j < k + 1 /\ j \in DOMAIN m.cuda /\ m.cuda[j] \in Cards /\ NameOf[m.cuda[j]] = name
    BY <1>0, <1>1 DEF Named
  <2>2. Before(m.cuda, m.cuda[j], m.cuda[k + 1]) /\ m.cuda[j] \in Listed(m.cuda)
    BY <2>1 DEF Before, Listed
  <2>3. Before(m.vulkan, m.cuda[j], m.vulkan[i + 1])
    BY <1>0, <1>1, <2>1, <2>2
  <2>4. PICK p, q \in DOMAIN m.vulkan : p < q /\ m.vulkan[p] = m.cuda[j] /\ m.vulkan[q] = m.vulkan[i + 1]
    BY <2>3 DEF Before
  <2>5. q = i + 1
    BY <1>0, <2>4
  <2> QED
    BY <1>0, <2>1, <2>4, <2>5 DEF Named
<1>3. ASSUME NEW q \in V PROVE \E j \in C : m.cuda[j] = m.vulkan[q]
  <2>1. q < i + 1 /\ q \in DOMAIN m.vulkan /\ m.vulkan[q] \in Cards /\ NameOf[m.vulkan[q]] = name
    BY <1>0, <1>1 DEF Named
  <2>2. m.vulkan[q] \in Listed(m.cuda)
    <3>1. m.vulkan[q] \in Listed(m.vulkan) /\ m.cuda[k + 1] \in Listed(m.cuda)
      BY <2>1 DEF Listed
    <3> QED
      BY <1>0, <1>1, <2>1, <3>1
  <2>3. Before(m.cuda, m.vulkan[q], m.cuda[k + 1])
    <3>1. Before(m.vulkan, m.vulkan[q], m.cuda[k + 1])
      BY <2>1 DEF Before
    <3> QED
      BY <1>0, <1>1, <2>1, <2>2, <3>1
  <2>4. PICK p, r \in DOMAIN m.cuda : p < r /\ m.cuda[p] = m.vulkan[q] /\ m.cuda[r] = m.cuda[k + 1]
    BY <2>3 DEF Before
  <2>5. r = k + 1
    BY <1>0, <2>4
  <2> QED
    BY <1>0, <2>1, <2>4, <2>5 DEF Named
<1>4. \A j \in C : place[j] \in V /\ m.vulkan[place[j]] = m.cuda[j]
  BY <1>2
<1>5. place \in [C -> V] /\ \A j, l \in C : place[j] = place[l] => j = l
  <2> HIDE DEF C, V
  <2>1. place \in [C -> V]
    BY <1>4
  <2> HIDE DEF place
  <2>2. \A j, l \in C : place[j] = place[l] => j = l
    BY <1>0, <1>1, <1>4
  <2> QED
    BY <2>1, <2>2
<1>6. \A q \in V : \E j \in C : place[j] = q
  <2> HIDE DEF C, V, place
  <2> QED
    BY <1>0, <1>1, <1>3, <1>4
<1>7. ExistsBijection(C, V)
  <2> HIDE DEF C, V, place
  <2> QED
    BY <1>5, <1>6, Fun_IsBij DEF ExistsBijection
<1> QED
  BY <1>7, NamedIsFinite, FS_Bijection

(* What is found in CUDA's list is a card of the name selected. *)
LEMMA SameName ==
  ASSUME PreparationAssumption, NEW m \in Machines, NEW gpu_index \in Nat,
         Counterpart(m.cuda, m, gpu_index) # None
  PROVE  LET name == NameOf[m.vulkan[gpu_index + 1]]
             k == Counterpart(m.cuda, m, gpu_index)
         IN  /\ k \in 0..(Len(m.cuda) - 1) /\ gpu_index + 1 \in DOMAIN m.vulkan
             /\ NameOf[m.cuda[k + 1]] = name
             /\ Cardinality(Named(m.cuda, k, name)) = Cardinality(Named(m.vulkan, gpu_index, name))
<1> DEFINE name == NameOf[m.vulkan[gpu_index + 1]]
           n == Cardinality(Named(m.vulkan, gpu_index, name))
           k == Occurrence(m.cuda, name, n)
<1>0. m.vulkan \in Seq(Cards) /\ m.cuda \in Seq(Cards)
  BY DEF PreparationAssumption
<1>1. gpu_index + 1 \in DOMAIN m.vulkan /\ Counterpart(m.cuda, m, gpu_index) = k
  BY <1>0 DEF Counterpart, Named
<1>2. n \in Nat
  BY NamedIsFinite
<1>3. k \in 0..(Len(m.cuda) - 1) /\ NameOf[m.cuda[k + 1]] = name /\ Cardinality(Named(m.cuda, k, name)) = n
  <2> HIDE DEF n, name
  <2> QED
    BY <1>0, <1>1, <1>2, OccurrenceFinds
<1> QED
  BY <1>1, <1>3

(* With cards of one name numbered alike it is the card selected. *)
LEMMA SameCard ==
  ASSUME PreparationAssumption, NEW m \in Machines, NumberedAlike(m), NEW gpu_index \in Nat,
         Counterpart(m.cuda, m, gpu_index) # None
  PROVE  m.cuda[Counterpart(m.cuda, m, gpu_index) + 1] = m.vulkan[gpu_index + 1]
<1> DEFINE name == NameOf[m.vulkan[gpu_index + 1]]
           n == Cardinality(Named(m.vulkan, gpu_index, name))
           k == Counterpart(m.cuda, m, gpu_index)
<1>0. /\ m.vulkan \in Seq(Cards) /\ m.cuda \in Seq(Cards)
      /\ \A a, b \in Cards : NameOf[a] = NameOf[b] /\ a \in Listed(m.cuda) =>
           (b \in Listed(m.cuda) <=> b \in Listed(m.vulkan))
  BY DEF PreparationAssumption, NumberedAlike
<1>1. /\ k \in 0..(Len(m.cuda) - 1) /\ gpu_index + 1 \in DOMAIN m.vulkan
      /\ NameOf[m.cuda[k + 1]] = name /\ Cardinality(Named(m.cuda, k, name)) = n
  BY SameName
<1> HIDE DEF k
<1>2. PICK i \in Nat : i + 1 \in DOMAIN m.vulkan /\ m.vulkan[i + 1] = m.cuda[k + 1]
  <2>1. k + 1 \in DOMAIN m.cuda /\ m.cuda[k + 1] \in Cards
    BY <1>0, <1>1
  <2>2. m.cuda[k + 1] \in Listed(m.vulkan)
    BY <1>0, <2>1 DEF Listed
  <2>3. PICK p \in DOMAIN m.vulkan : m.vulkan[p] = m.cuda[k + 1]
    BY <2>2 DEF Listed
  <2>4. p - 1 \in Nat /\ (p - 1) + 1 = p
    BY <1>0, <2>3
  <2> QED
    BY <2>3, <2>4
<1>3. Cardinality(Named(m.vulkan, i, name)) = n
  <2>1. k + 1 \in DOMAIN m.cuda /\ k \in Nat
    BY <1>0, <1>1
  <2> HIDE DEF n, name
  <2>2. NameOf[m.cuda[k + 1]] = name /\ m.vulkan[i + 1] = m.cuda[k + 1] /\ i + 1 \in DOMAIN m.vulkan
    BY <1>1, <1>2
  <2>3. Cardinality(Named(m.vulkan, i, name)) = Cardinality(Named(m.cuda, k, name))
    BY <2>1, <2>2, SameCount, SMTT(40)
  <2> QED
    BY <1>1, <2>3
<1>4. i = gpu_index
  <2>1. NameOf[m.vulkan[i + 1]] = name
    BY <1>1, <1>2
  <2> QED
    BY <1>3, <2>1, CountIsUnique
<1> QED
  BY <1>2, <1>4 DEF k

-----------------------------------------------------------------------------
(* The inductive invariant *)

AfterMap == {"vram", "backend", "decoder", "encoder", "frames"}
AfterMemory == {"format", "map"} \cup AfterMap
AfterProbe == {"rate", "memory"} \cup AfterMemory

Uses == {"inference", "decoder", "encoder"}

PreparationTypeOK ==
  /\ pc \in {"validate", "probe", "error", "panic"} \cup AfterProbe
  /\ machine \in Machines /\ request \in Requests
  /\ pc \in AfterProbe => metadata.width \in Nat /\ metadata.height \in Nat
  /\ available \in Nat /\ free \in Nat
  /\ adapted \subseteq {"low_memory", "cpu_decode", "half_scale", "software_fallback"}
  /\ devices \in [Uses -> Cards \cup {Unused}]

(* What the phases have made of the configuration *)
RequestWith(made) == [request EXCEPT
  !.uhd = @ \/ made \cap {"low_memory", "half_scale"} # {},
  !.nvdec = @ /\ made \cap {"low_memory", "cpu_decode"} = {},
  !.threads = IF "low_memory" \in made THEN 1 ELSE @]

Applied == configuration = RequestWith(adapted)

(* Nothing is made twice, or before it is known. *)
AdaptedInOrder ==
  /\ pc \in {"validate", "probe", "rate", "memory"} => adapted = {}
  /\ pc = "format" => adapted \subseteq {"low_memory"}
  /\ pc \in {"map", "vram"} => adapted \subseteq {"low_memory", "cpu_decode"}

AdaptedTruth ==
  /\ "half_scale" \in adapted => ~request.uhd /\ "low_memory" \notin adapted
  /\ "cpu_decode" \in adapted => request.nvdec /\ "low_memory" \notin adapted
  /\ "software_fallback" \in adapted => request.encoder # "software"

Choice ==
  encoder_choice = IF "software_fallback" \in adapted THEN "software" ELSE request.encoder

Encoded ==
  pc = "frames" =>
    /\ encoder.codec \in {"software", "nvidia"}
    /\ encoder_choice # "automatic" => encoder.codec = encoder_choice
    /\ encoder.preset = encoder_preset_argument(encoder.codec, request.preset)

(* The device is known whenever something was asked for that needs it. *)
Mapping ==
  /\ cuda_gpu_index \in {None, map_gpu_index(machine, request)}
  /\ pc \in AfterMap /\ (configuration.nvdec \/ UsesCuda) => cuda_gpu_index # None

Selected == machine.vulkan[request.gpu_index + 1]

(* Whatever uses a GPU uses the card of CUDA's number, but for Vulkan's inference. *)
Placed(use) ==
  devices[use] # Unused =>
    IF use = "inference" /\ request.inference # "cuda" THEN devices[use] = Selected
    ELSE cuda_gpu_index # None /\ devices[use] = CudaCard

DevicesPlaced ==
  /\ \A use \in Uses : Placed(use)
  /\ pc \in {"validate", "probe"} \cup (AfterProbe \ {"decoder", "encoder", "frames"}) =>
       \A use \in Uses : devices[use] = Unused
  /\ pc = "decoder" => devices["decoder"] = Unused
  /\ pc \in {"encoder", "frames"} => (configuration.nvdec <=> devices["decoder"] # Unused)
  /\ pc = "frames" => devices["inference"] # Unused
  /\ pc \in {"decoder", "encoder"} => devices["inference"] # Unused

UhdSource == metadata.width >= 3840 \/ metadata.height >= 2160

MemorySuits ==
  pc \in AfterMemory =>
    /\ available >= FrameBuffers + GiB
    /\ ~configuration.uhd \/ configuration.nvdec => available >= 6 * GiB

VramSuits ==
  pc \in AfterMap \ {"vram"} /\ UsesCuda =>
    /\ free >= 2 * GiB
    /\ ~configuration.uhd /\ UhdSource => free >= 6 * GiB

RateSuits == pc \in {"memory"} \cup AfterMemory => validate_target_fps(request.target, metadata.rate)

PreparationInv ==
  /\ PreparationTypeOK /\ Applied /\ AdaptedInOrder /\ AdaptedTruth /\ Choice /\ Encoded
  /\ Mapping /\ DevicesPlaced /\ MemorySuits /\ VramSuits /\ RateSuits

-----------------------------------------------------------------------------
(* Lemmas about the state *)

LEMMA AdaptedFields ==
  ASSUME PreparationAssumption, request \in Requests, NEW made
  PROVE  /\ RequestWith(made).target = request.target
         /\ RequestWith(made).inference = request.inference
         /\ RequestWith(made).encoder = request.encoder
         /\ RequestWith(made).preset = request.preset
         /\ RequestWith(made).gpu_index = request.gpu_index
         /\ RequestWith(made).uhd = (request.uhd \/ made \cap {"low_memory", "half_scale"} # {})
         /\ RequestWith(made).nvdec = (request.nvdec /\ made \cap {"low_memory", "cpu_decode"} = {})
         /\ RequestWith(made).threads = IF "low_memory" \in made THEN 1 ELSE request.threads
BY DEF PreparationAssumption, RequestWith

LEMMA AdaptMemory ==
  ASSUME PreparationAssumption, request \in Requests
  PROVE  [RequestWith({}) EXCEPT !.uhd = TRUE, !.nvdec = FALSE, !.threads = 1] = RequestWith({"low_memory"})
BY DEF PreparationAssumption, RequestWith

LEMMA AdaptFormat ==
  ASSUME PreparationAssumption, request \in Requests, NEW made
  PROVE  [RequestWith(made) EXCEPT !.nvdec = FALSE] = RequestWith(made \cup {"cpu_decode"})
BY DEF PreparationAssumption, RequestWith

LEMMA AdaptVram ==
  ASSUME PreparationAssumption, request \in Requests, NEW made
  PROVE  [RequestWith(made) EXCEPT !.uhd = TRUE] = RequestWith(made \cup {"half_scale"})
BY DEF PreparationAssumption, RequestWith

LEMMA AdaptEncoder ==
  ASSUME NEW made
  PROVE  RequestWith(made) = RequestWith(made \cup {"software_fallback"})
<1>1. /\ (made \cup {"software_fallback"}) \cap {"low_memory", "half_scale"} = made \cap {"low_memory", "half_scale"}
      /\ (made \cup {"software_fallback"}) \cap {"low_memory", "cpu_decode"} = made \cap {"low_memory", "cpu_decode"}
      /\ "low_memory" \in (made \cup {"software_fallback"}) <=> "low_memory" \in made
  OBVIOUS
<1> QED
  BY <1>1 DEF RequestWith

(* A number that CUDA knows stands for a card. *)
LEMMA KnownCard ==
  ASSUME PreparationAssumption, PreparationTypeOK, KnownToCuda
  PROVE  CudaCard \in Cards /\ CudaCard # Unused /\ cuda_gpu_index # None
<1>1. machine.cuda \in Seq(Cards)
  BY DEF PreparationAssumption, PreparationTypeOK
<1>2. cuda_gpu_index \in Nat /\ cuda_gpu_index + 1 \in 1..Len(machine.cuda)
  BY <1>1 DEF KnownToCuda
<1>3. CudaCard \in Cards
  BY <1>1, <1>2 DEF CudaCard
<1> QED
  BY <1>2, <1>3 DEF PreparationAssumption, None

LEMMA FrameBuffersNat ==
  ASSUME PreparationTypeOK, pc \in AfterProbe
  PROVE  FrameBuffers \in Nat
<1>1. metadata.width \in Nat /\ metadata.height \in Nat
  BY DEF PreparationTypeOK
<1>2. PICK w \in Nat, h \in Nat : w = metadata.width /\ h = metadata.height
  BY <1>1
<1>3. w * h * 3 \in Nat
  OBVIOUS
<1>4. (w * h * 3) \div 1024 \in Nat
  BY <1>3
<1> QED
  BY <1>2, <1>4 DEF FrameBuffers, FrameBytes, FRAME_BUFFER_COUNT

-----------------------------------------------------------------------------
(* Steps *)

(* A step that leaves everything but pc and what was observed: nothing it decides
   is undone. *)
LEMMA QuietStep ==
  ASSUME PreparationInv,
         UNCHANGED <<machine, request, configuration, adapted, cuda_gpu_index, devices, encoder,
                     encoder_choice>>
  PROVE  /\ Applied' /\ AdaptedTruth' /\ Choice'
         /\ devices' \in [Uses -> Cards \cup {Unused}]
         /\ \A use \in Uses : Placed(use)'
         /\ adapted' \subseteq {"low_memory", "cpu_decode", "half_scale", "software_fallback"}
         /\ cuda_gpu_index' \in {None, map_gpu_index(machine, request)'}
         /\ machine' \in Machines /\ request' \in Requests
BY DEF PreparationInv, PreparationTypeOK, Applied, RequestWith, AdaptedTruth, Choice, DevicesPlaced, Placed, CudaCard, Selected, Uses,
   Mapping

LEMMA EndStep ==
  ASSUME PreparationInv, pc' \in {"error", "panic"},
         available' \in Nat, free' \in Nat,
         UNCHANGED <<machine, request, configuration, adapted, cuda_gpu_index, devices, encoder,
                     encoder_choice>>
  PROVE  PreparationInv'
<1>1. PreparationTypeOK'
  BY QuietStep DEF PreparationTypeOK, AfterProbe, AfterMemory, AfterMap
<1>2. AdaptedInOrder' /\ Encoded' /\ MemorySuits' /\ VramSuits' /\ RateSuits'
  BY DEF AdaptedInOrder, Encoded, MemorySuits, VramSuits, RateSuits, AfterMemory, AfterMap
<1>3. Mapping' /\ DevicesPlaced'
  BY QuietStep DEF Mapping, DevicesPlaced, AfterProbe, AfterMemory, AfterMap
<1> QED
  BY <1>1, <1>2, <1>3, QuietStep DEF PreparationInv

LEMMA FailsStep ==
  ASSUME PreparationInv, NEW label, Fails(label)
  PROVE  PreparationInv'
BY EndStep DEF Fails, environment, notices, observed, started, PreparationInv, PreparationTypeOK

LEMMA ValidateStep ==
  ASSUME PreparationInv, Validate
  PROVE  PreparationInv'
<1>1. /\ pc = "validate" /\ pc' \in {"probe", "error"}
      /\ UNCHANGED <<machine, request, configuration, metadata, available, free, adapted,
                     cuda_gpu_index, devices, encoder, encoder_choice>>
  BY DEF Validate, GoTo, environment, notices, observed, started
<1>2. CASE pc' = "error"
  BY <1>1, <1>2, EndStep DEF PreparationInv, PreparationTypeOK
<1>3. CASE pc' = "probe"
  <2>1. PreparationTypeOK' /\ AdaptedInOrder'
    BY <1>1, <1>3, QuietStep DEF PreparationInv, PreparationTypeOK, AdaptedInOrder, AfterProbe, AfterMemory,
       AfterMap
  <2>2. Encoded' /\ MemorySuits' /\ VramSuits' /\ RateSuits'
    BY <1>3 DEF Encoded, MemorySuits, VramSuits, RateSuits, AfterMemory, AfterMap
  <2>3. Mapping' /\ DevicesPlaced'
    BY <1>1, <1>3, QuietStep DEF PreparationInv, Mapping, DevicesPlaced, AfterProbe, AfterMemory, AfterMap
  <2> QED
    BY <2>1, <2>2, <2>3, QuietStep, <1>1 DEF PreparationInv
<1> QED
  BY <1>1, <1>2, <1>3

LEMMA ProbeStep ==
  ASSUME PreparationAssumption, PreparationInv, Probe
  PROVE  PreparationInv'
<1>1. /\ pc = "probe"
      /\ UNCHANGED <<machine, request, configuration, available, free, adapted,
                     cuda_gpu_index, devices, encoder, encoder_choice>>
  BY DEF Probe, environment, notices, started
<1>2. pc' = "error" \/ (pc' = "rate" /\ metadata'.width \in Nat /\ metadata'.height \in Nat)
  BY DEF Probe, GoTo, PreparationAssumption
<1>3. CASE pc' = "error"
  BY <1>1, <1>3, EndStep DEF PreparationInv, PreparationTypeOK
<1>4. CASE pc' = "rate" /\ metadata'.width \in Nat /\ metadata'.height \in Nat
  <2>1. PreparationTypeOK' /\ AdaptedInOrder'
    BY <1>1, <1>4, QuietStep DEF PreparationInv, PreparationTypeOK, AdaptedInOrder, AfterProbe, AfterMemory,
       AfterMap
  <2>2. Encoded' /\ MemorySuits' /\ VramSuits' /\ RateSuits'
    BY <1>4 DEF Encoded, MemorySuits, VramSuits, RateSuits, AfterMemory, AfterMap
  <2>3. Mapping' /\ DevicesPlaced'
    BY <1>1, <1>4, QuietStep DEF PreparationInv, Mapping, DevicesPlaced, AfterProbe, AfterMemory, AfterMap
  <2> QED
    BY <2>1, <2>2, <2>3, QuietStep, <1>1 DEF PreparationInv
<1> QED
  BY <1>2, <1>3, <1>4

LEMMA CheckRateStep ==
  ASSUME PreparationAssumption, PreparationInv, CheckRate
  PROVE  PreparationInv'
<1>1. /\ pc = "rate"
      /\ UNCHANGED <<machine, request, configuration, metadata, available, free, adapted,
                     cuda_gpu_index, devices, encoder, encoder_choice>>
      /\ \/ pc' = "error"
         \/ pc' = "memory" /\ validate_target_fps(configuration.target, metadata.rate)
  BY DEF CheckRate, GoTo, environment, notices, observed, started
<1>2. CASE pc' = "error"
  BY <1>1, <1>2, EndStep DEF PreparationInv, PreparationTypeOK
<1>3. CASE pc' = "memory" /\ validate_target_fps(configuration.target, metadata.rate)
  <2>1. PreparationTypeOK' /\ AdaptedInOrder'
    BY <1>1, <1>3, QuietStep DEF PreparationInv, PreparationTypeOK, AdaptedInOrder, AfterProbe, AfterMemory,
       AfterMap
  <2>2. Encoded' /\ MemorySuits' /\ VramSuits'
    BY <1>3 DEF Encoded, MemorySuits, VramSuits, AfterMemory, AfterMap
  <2>3. RateSuits'
    <3>1. configuration.target = request.target
      BY AdaptedFields DEF PreparationInv, PreparationTypeOK, Applied
    <3>2. validate_target_fps(request.target, metadata.rate)'
      BY <1>1, <1>3, <3>1
    <3> QED
      BY <3>2 DEF RateSuits
  <2>4. Mapping' /\ DevicesPlaced'
    BY <1>1, <1>3, QuietStep DEF PreparationInv, Mapping, DevicesPlaced, AfterProbe, AfterMemory, AfterMap
  <2> QED
    BY <2>1, <2>2, <2>3, <2>4, QuietStep, <1>1 DEF PreparationInv
<1> QED
  BY <1>1, <1>2, <1>3

(* Less memory changes the configuration to what its phase tells. *)
LEMMA FitMemoryStep ==
  ASSUME PreparationAssumption, PreparationInv, FitMemory
  PROVE  PreparationInv'
<1>0. /\ pc = "memory" /\ adapted = {}
      /\ UNCHANGED <<machine, request, metadata, free, cuda_gpu_index, devices, encoder, encoder_choice>>
      /\ UsesCuda <=> request.inference = "cuda"
  BY AdaptedFields DEF FitMemory, environment, notices, started, PreparationInv, PreparationTypeOK, AdaptedInOrder,
     Applied, UsesCuda
<1>1. PICK host \in HostMemory, cgroup \in CgroupMemory :
        LET memory == IF cgroup = NoLimit THEN host ELSE Min({host, cgroup})
            reserve == IF configuration.inference = "vulkan"
                       THEN MEMORY_SAFETY_RESERVE \div 2 ELSE MEMORY_SAFETY_RESERVE
            constrained == \/ memory < MEMORY_CONSTRAINED_AVAILABLE
                           \/ memory < FrameBuffers + reserve
        IN  /\ available' = memory
            /\ \/ memory = 0 /\ pc' = "panic" /\ UNCHANGED <<configuration, adapted>>
               \/ /\ memory > 0 /\ ~constrained /\ pc' = "format"
                  /\ UNCHANGED <<configuration, adapted>>
               \/ /\ memory > 0 /\ constrained
                  /\ memory < FrameBuffers + MEMORY_SAFETY_RESERVE \div 2
                  /\ pc' = "error" /\ UNCHANGED <<configuration, adapted>>
               \/ /\ memory > 0 /\ constrained
                  /\ memory >= FrameBuffers + MEMORY_SAFETY_RESERVE \div 2
                  /\ configuration' = [configuration EXCEPT !.uhd = TRUE, !.nvdec = FALSE,
                                                            !.threads = 1]
                  /\ adapted' = adapted \cup {"low_memory"} /\ pc' = "format"
  BY ZenonT(60) DEF FitMemory, GoTo, Adapt, notices
<1>2. available' \in Nat
  <2>1. host \in Nat /\ (cgroup # NoLimit => cgroup \in Nat)
    BY DEF PreparationAssumption
  <2> QED
    BY <1>1, <2>1, MinOfTwo
<1>3. FrameBuffers \in Nat
  BY <1>0, FrameBuffersNat DEF PreparationInv, AfterProbe
<1>4. CASE pc' \in {"panic", "error"}
  <2>1. UNCHANGED <<configuration, adapted>>
    BY <1>1, <1>4
  <2> QED
    BY <1>0, <1>2, <1>4, <2>1, EndStep DEF PreparationInv, PreparationTypeOK
<1>5. CASE pc' = "format" /\ UNCHANGED <<configuration, adapted>>
                         /\ available' >= 6 * GiB /\ available' >= FrameBuffers + GiB
  <2>1. PreparationTypeOK' /\ AdaptedInOrder'
    BY <1>0, <1>2, <1>5, QuietStep DEF PreparationInv, PreparationTypeOK, AdaptedInOrder, AfterProbe,
       AfterMemory, AfterMap
  <2>2. MemorySuits' /\ RateSuits'
    BY <1>0, <1>5 DEF PreparationInv, MemorySuits, RateSuits, FrameBuffers, FrameBytes
  <2>3. Mapping' /\ DevicesPlaced' /\ Encoded' /\ VramSuits'
    BY <1>0, <1>5, QuietStep DEF PreparationInv, Mapping, DevicesPlaced, Encoded, VramSuits,
       AfterProbe, AfterMemory, AfterMap
  <2> QED
    BY <1>0, <1>5, <2>1, <2>2, <2>3, QuietStep DEF PreparationInv
<1>6. CASE /\ pc' = "format" /\ available' >= FrameBuffers + GiB
           /\ configuration' = [configuration EXCEPT !.uhd = TRUE, !.nvdec = FALSE, !.threads = 1]
           /\ adapted' = adapted \cup {"low_memory"}
  <2>1. adapted' = {"low_memory"} /\ configuration' = RequestWith(adapted')
    BY <1>0, <1>6, AdaptMemory DEF PreparationInv, PreparationTypeOK, Applied
  <2>2. RequestWith(adapted') = RequestWith(adapted)'
    BY <1>0 DEF RequestWith
  <2>3. Applied' /\ AdaptedInOrder' /\ AdaptedTruth' /\ Choice'
    BY <1>0, <1>6, <2>1, <2>2 DEF PreparationInv, Applied, AdaptedInOrder, AdaptedTruth, Choice
  <2>4. configuration'.uhd = TRUE /\ configuration'.nvdec = FALSE
    BY <2>1, AdaptedFields DEF PreparationInv, PreparationTypeOK
  <2>5. PreparationTypeOK'
    BY <1>0, <1>2, <1>6, <2>1 DEF PreparationInv, PreparationTypeOK, AfterProbe, AfterMemory, AfterMap
  <2>6. MemorySuits' /\ RateSuits'
    BY <1>0, <1>6, <2>4 DEF PreparationInv, MemorySuits, RateSuits, FrameBuffers, FrameBytes
  <2>7. Mapping' /\ DevicesPlaced' /\ Encoded' /\ VramSuits'
    BY <1>0, <1>6 DEF PreparationInv, Mapping, DevicesPlaced, Placed, CudaCard, Selected, Uses, Encoded, VramSuits,
       AfterProbe, AfterMemory, AfterMap
  <2> QED
    BY <2>3, <2>5, <2>6, <2>7 DEF PreparationInv
<1>7. \/ pc' \in {"panic", "error"}
      \/ /\ pc' = "format" /\ UNCHANGED <<configuration, adapted>>
         /\ available' >= 6 * GiB /\ available' >= FrameBuffers + GiB
      \/ /\ pc' = "format" /\ available' >= FrameBuffers + GiB
         /\ configuration' = [configuration EXCEPT !.uhd = TRUE, !.nvdec = FALSE, !.threads = 1]
         /\ adapted' = adapted \cup {"low_memory"}
  BY <1>1, <1>2, <1>3 DEF MEMORY_SAFETY_RESERVE, MEMORY_CONSTRAINED_AVAILABLE, GiB, MiB
<1> QED
  BY <1>4, <1>5, <1>6, <1>7

LEMMA FitFormatStep ==
  ASSUME PreparationAssumption, PreparationInv, FitFormat
  PROVE  PreparationInv'
<1>0. /\ pc = "format" /\ pc' = "map" /\ adapted \subseteq {"low_memory"}
      /\ UNCHANGED <<machine, request, metadata, available, free, cuda_gpu_index, devices, encoder,
                     encoder_choice>>
  BY DEF FitFormat, GoTo, environment, notices, observed, started, PreparationInv, AdaptedInOrder
<1>1. CASE UNCHANGED <<configuration, adapted>>
  <2>1. PreparationTypeOK' /\ AdaptedInOrder'
    BY <1>0, <1>1, QuietStep DEF PreparationInv, PreparationTypeOK, AdaptedInOrder, AfterProbe,
       AfterMemory, AfterMap
  <2>2. MemorySuits' /\ RateSuits'
    BY <1>0, <1>1 DEF PreparationInv, MemorySuits, RateSuits, FrameBuffers, FrameBytes, AfterMemory
  <2>3. Mapping' /\ DevicesPlaced' /\ Encoded' /\ VramSuits'
    BY <1>0, <1>1, QuietStep DEF PreparationInv, Mapping, DevicesPlaced, Encoded, VramSuits,
       AfterProbe, AfterMemory, AfterMap
  <2> QED
    BY <1>0, <1>1, <2>1, <2>2, <2>3, QuietStep DEF PreparationInv
<1>2. CASE /\ configuration.nvdec /\ configuration' = [configuration EXCEPT !.nvdec = FALSE]
           /\ adapted' = adapted \cup {"cpu_decode"}
  <2>1. /\ configuration' = RequestWith(adapted')
        /\ request.nvdec /\ adapted \cap {"low_memory", "cpu_decode"} = {}
    BY <1>2, AdaptFormat, AdaptedFields DEF PreparationInv, PreparationTypeOK, Applied
  <2>2. RequestWith(adapted') = RequestWith(adapted)'
    BY <1>0 DEF RequestWith
  <2>3. adapted = {}
    BY <1>0, <2>1
  <2>4. Applied' /\ AdaptedInOrder' /\ AdaptedTruth' /\ Choice'
    BY <1>0, <1>2, <2>1, <2>2, <2>3 DEF PreparationInv, Applied, AdaptedInOrder, AdaptedTruth, Choice
  <2>5. configuration'.uhd = configuration.uhd /\ ~configuration'.nvdec
    BY <1>2, <2>1, <2>3, AdaptedFields DEF PreparationInv, PreparationTypeOK, Applied
  <2>6. PreparationTypeOK'
    BY <1>0, <1>2, <2>3 DEF PreparationInv, PreparationTypeOK, AfterProbe, AfterMemory, AfterMap
  <2>7. MemorySuits' /\ RateSuits'
    BY <1>0, <2>5 DEF PreparationInv, MemorySuits, RateSuits, FrameBuffers, FrameBytes, AfterMemory
  <2>8. Mapping' /\ DevicesPlaced' /\ Encoded' /\ VramSuits'
    BY <1>0 DEF PreparationInv, Mapping, DevicesPlaced, Placed, CudaCard, Selected, Uses, Encoded, VramSuits,
       AfterProbe, AfterMemory, AfterMap
  <2> QED
    BY <2>4, <2>6, <2>7, <2>8 DEF PreparationInv
<1> QED
  BY <1>1, <1>2 DEF FitFormat, Adapt, notices

LEMMA MapGpuStep ==
  ASSUME PreparationAssumption, PreparationInv, MapGpu
  PROVE  PreparationInv'
<1>0. /\ pc = "map" /\ configuration.gpu_index = request.gpu_index
      /\ configuration.inference = request.inference
      /\ UNCHANGED <<machine, request, configuration, metadata, available, free, adapted, devices,
                     encoder, encoder_choice>>
  BY AdaptedFields DEF MapGpu, environment, notices, observed, started, PreparationInv, PreparationTypeOK, Applied
<1>1. /\ cuda_gpu_index' \in {None, map_gpu_index(machine, request)}
      /\ \/ pc' = "error"
         \/ /\ pc' = IF UsesCuda THEN "vram" ELSE "backend"
            /\ configuration.nvdec \/ UsesCuda => cuda_gpu_index' # None
  BY <1>0 DEF MapGpu, GoTo, map_gpu_index
<1>2. UsesCuda' <=> UsesCuda
  BY <1>0 DEF UsesCuda
<1>3. Applied' /\ AdaptedTruth' /\ Choice'
  BY <1>0 DEF PreparationInv, Applied, RequestWith, AdaptedTruth, Choice
<1>4. PreparationTypeOK' /\ AdaptedInOrder'
  BY <1>0, <1>1 DEF PreparationInv, PreparationTypeOK, AdaptedInOrder, AfterProbe, AfterMemory, AfterMap
<1>5. MemorySuits' /\ RateSuits'
  BY <1>0, <1>1 DEF PreparationInv, MemorySuits, RateSuits, FrameBuffers, FrameBytes, AfterMemory, AfterMap
<1>6. VramSuits' /\ Encoded'
  BY <1>1, <1>2 DEF VramSuits, Encoded, AfterMap
<1>7. Mapping'
  <2>1. map_gpu_index(machine, request)'
          = map_gpu_index(machine, request)
    BY <1>0
  <2> QED
    BY <1>0, <1>1, <1>2, <2>1 DEF Mapping, AfterMap
<1>8. DevicesPlaced'
  BY <1>0, <1>1 DEF PreparationInv, DevicesPlaced, Placed, CudaCard, Selected, Uses, AfterProbe, AfterMemory, AfterMap
<1> QED
  BY <1>3, <1>4, <1>5, <1>6, <1>7, <1>8 DEF PreparationInv

LEMMA FitVramStep ==
  ASSUME PreparationAssumption, PreparationInv, FitVram
  PROVE  PreparationInv'
<1>0. /\ pc = "vram"
      /\ UNCHANGED <<machine, request, metadata, available, cuda_gpu_index, devices, encoder,
                     encoder_choice>>
      /\ adapted \subseteq {"low_memory", "cpu_decode"}
  BY DEF FitVram, environment, notices, started, PreparationInv, AdaptedInOrder
<1>1. /\ free' \in Nat
      /\ \/ pc' = "error" /\ UNCHANGED <<configuration, adapted>>
         \/ /\ pc' = "backend" /\ UNCHANGED <<configuration, adapted>>
            /\ free' >= 2 * GiB
            /\ UhdSource /\ ~configuration.uhd => free' >= 6 * GiB
         \/ /\ pc' = "backend" /\ free' >= 2 * GiB /\ ~configuration.uhd
            /\ configuration' = [configuration EXCEPT !.uhd = TRUE]
            /\ adapted' = adapted \cup {"half_scale"}
  BY DEF FitVram, adapt_configuration_for_cuda_memory, notices, GoTo, Adapt, UhdSource, CUDA_HALF_SCALE_FREE_MEMORY_MIN,
     CUDA_FULL_SCALE_FREE_MEMORY_MIN, GiB, MiB, PreparationAssumption
<1>2. UhdSource' <=> UhdSource
  BY <1>0 DEF UhdSource
<1>3. CASE pc' = "error" /\ UNCHANGED <<configuration, adapted>>
  BY <1>0, <1>1, <1>3, EndStep DEF PreparationInv, PreparationTypeOK
<1>4. CASE /\ pc' = "backend" /\ UNCHANGED <<configuration, adapted>> /\ free' >= 2 * GiB
           /\ UhdSource /\ ~configuration.uhd => free' >= 6 * GiB
  <2>1. PreparationTypeOK' /\ AdaptedInOrder'
    BY <1>0, <1>1, <1>4, QuietStep DEF PreparationInv, PreparationTypeOK, AdaptedInOrder, AfterProbe,
       AfterMemory, AfterMap
  <2>2. MemorySuits' /\ RateSuits'
    BY <1>0, <1>4 DEF PreparationInv, MemorySuits, RateSuits, FrameBuffers, FrameBytes, AfterMemory, AfterMap
  <2>3. VramSuits' /\ Encoded'
    BY <1>2, <1>4 DEF VramSuits, Encoded
  <2>4. Mapping' /\ DevicesPlaced'
    BY <1>0, <1>4, QuietStep DEF PreparationInv, Mapping, UsesCuda, DevicesPlaced, AfterProbe,
       AfterMemory, AfterMap
  <2> QED
    BY <1>0, <1>4, <2>1, <2>2, <2>3, <2>4, QuietStep DEF PreparationInv
<1>5. CASE /\ pc' = "backend" /\ free' >= 2 * GiB /\ ~configuration.uhd
           /\ configuration' = [configuration EXCEPT !.uhd = TRUE]
           /\ adapted' = adapted \cup {"half_scale"}
  <2>1. /\ configuration' = RequestWith(adapted')
        /\ ~request.uhd /\ "low_memory" \notin adapted
    BY <1>5, AdaptVram, AdaptedFields DEF PreparationInv, PreparationTypeOK, Applied
  <2>2. RequestWith(adapted') = RequestWith(adapted)'
    BY <1>0 DEF RequestWith
  <2>3. Applied' /\ AdaptedInOrder' /\ AdaptedTruth' /\ Choice'
    BY <1>0, <1>5, <2>1, <2>2 DEF PreparationInv, Applied, AdaptedInOrder, AdaptedTruth, Choice
  <2>4. adapted' \cap {"low_memory", "cpu_decode"} = adapted \cap {"low_memory", "cpu_decode"}
    BY <1>5
  <2>5. /\ configuration'.uhd /\ (configuration'.nvdec <=> configuration.nvdec)
        /\ configuration'.inference = configuration.inference
    BY <1>5, <2>1, <2>4, AdaptedFields DEF PreparationInv, PreparationTypeOK, Applied
  <2>6. PreparationTypeOK'
    BY <1>0, <1>1, <1>5 DEF PreparationInv, PreparationTypeOK, AfterProbe, AfterMemory, AfterMap
  <2>7. MemorySuits' /\ RateSuits'
    BY <1>0, <1>5, <2>5 DEF PreparationInv, MemorySuits, RateSuits, FrameBuffers, FrameBytes, AfterMemory,
       AfterMap
  <2>8. VramSuits' /\ Encoded'
    BY <1>5, <2>5 DEF VramSuits, Encoded
  <2>9. Mapping' /\ DevicesPlaced'
    BY <1>0, <1>5, <2>5 DEF PreparationInv, Mapping, UsesCuda, DevicesPlaced, Placed, CudaCard, Selected, Uses, AfterProbe,
       AfterMemory, AfterMap
  <2> QED
    BY <2>3, <2>6, <2>7, <2>8, <2>9 DEF PreparationInv
<1> QED
  BY <1>1, <1>3, <1>4, <1>5

(* The last steps change the devices and the encoder only. *)
LEMMA StartStep ==
  ASSUME PreparationInv, pc \in AfterMap \ {"vram"}, pc' \in AfterMap \ {"vram"},
         UNCHANGED <<machine, request, configuration, metadata, available, free, cuda_gpu_index>>,
         adapted' \in {adapted, adapted \cup {"software_fallback"}},
         DevicesPlaced', Encoded', Choice', AdaptedTruth',
         devices' \in [Uses -> Cards \cup {Unused}]
  PROVE  PreparationInv'
<1>1. RequestWith(adapted') = RequestWith(adapted) /\ RequestWith(adapted)' = RequestWith(adapted')
  <2>1. RequestWith(adapted)' = RequestWith(adapted')
    BY DEF RequestWith
  <2> QED
    BY <2>1, AdaptEncoder
<1>2. Applied' /\ AdaptedInOrder'
  BY <1>1 DEF PreparationInv, Applied, AdaptedInOrder, AfterMap
<1>3. PreparationTypeOK'
  BY DEF PreparationInv, PreparationTypeOK, AfterProbe, AfterMemory, AfterMap
<1>4. MemorySuits' /\ RateSuits'
  BY DEF PreparationInv, MemorySuits, RateSuits, FrameBuffers, FrameBytes, AfterMemory, AfterMap
<1>5. VramSuits' /\ Mapping'
  BY DEF PreparationInv, VramSuits, UhdSource, UsesCuda, Mapping, AfterMap
<1> QED
  BY <1>2, <1>3, <1>4, <1>5 DEF PreparationInv

LEMMA CreateBackendStep ==
  ASSUME PreparationAssumption, PreparationInv, CreateBackend
  PROVE  PreparationInv'
<1>0. /\ pc = "backend" /\ configuration.gpu_index = request.gpu_index
      /\ configuration.inference = request.inference
      /\ UNCHANGED <<machine, request, configuration, metadata, available, free, cuda_gpu_index,
                     adapted, encoder, encoder_choice>>
  BY AdaptedFields DEF CreateBackend, environment, notices, observed, PreparationInv, PreparationTypeOK,
     Applied
<1>1. request.gpu_index \in Nat /\ machine.vulkan \in Seq(Cards) /\ Unused \notin Cards
  BY DEF PreparationInv, PreparationTypeOK, PreparationAssumption
<1>2. \/ pc' = "error" /\ UNCHANGED devices
      \/ \E card \in Cards :
           /\ pc' = "decoder" /\ devices' = [devices EXCEPT !["inference"] = card]
           /\ IF request.inference # "cuda" THEN card = Selected
              ELSE cuda_gpu_index # None /\ card = CudaCard
  <2>1. CASE UsesCuda
    BY <1>0, <2>1, KnownCard DEF CreateBackend, GoTo, PreparationInv, UsesCuda
  <2>2. CASE ~UsesCuda
    BY <1>0, <1>1, <2>2 DEF CreateBackend, GoTo, Selected, UsesCuda
  <2> QED
    BY <2>1, <2>2
<1>3. CASE pc' = "error" /\ UNCHANGED devices
  BY <1>0, <1>3, EndStep DEF PreparationInv, PreparationTypeOK
<1>4. ASSUME NEW card \in Cards, pc' = "decoder", devices' = [devices EXCEPT !["inference"] = card],
             IF request.inference # "cuda" THEN card = Selected
             ELSE cuda_gpu_index # None /\ card = CudaCard
      PROVE  PreparationInv'
  <2>1. devices' \in [Uses -> Cards \cup {Unused}]
    BY <1>4 DEF PreparationInv, PreparationTypeOK
  <2>2. \A use \in Uses : devices'[use] = IF use = "inference" THEN card ELSE Unused
    BY <1>0, <1>4 DEF PreparationInv, PreparationTypeOK, DevicesPlaced, Uses, AfterProbe, AfterMemory,
       AfterMap
  <2>3. \A use \in Uses : Placed(use)'
    BY <1>0, <1>4, <2>2 DEF Placed, CudaCard, Selected
  <2>4. devices'["decoder"] = Unused /\ devices'["inference"] # Unused
    BY <1>1, <2>2 DEF Uses
  <2>5. DevicesPlaced'
    BY <1>4, <2>3, <2>4 DEF DevicesPlaced, AfterProbe, AfterMemory, AfterMap
  <2>6. Encoded' /\ Choice' /\ AdaptedTruth'
    BY <1>0, <1>4 DEF PreparationInv, Encoded, Choice, AdaptedTruth
  <2> QED
    BY <1>0, <1>4, <2>1, <2>5, <2>6, StartStep DEF AfterMap
<1> QED
  BY <1>2, <1>3, <1>4

LEMMA SpawnDecoderStep ==
  ASSUME PreparationAssumption, PreparationInv, SpawnDecoder
  PROVE  PreparationInv'
<1>0. /\ pc = "decoder" /\ devices["decoder"] = Unused
      /\ UNCHANGED <<machine, request, configuration, metadata, available, free, cuda_gpu_index,
                     adapted, encoder, encoder_choice>>
  BY DEF SpawnDecoder, environment, notices, observed, PreparationInv, DevicesPlaced
<1>1. \/ pc' = "error" /\ UNCHANGED devices
      \/ ~configuration.nvdec /\ pc' = "encoder" /\ UNCHANGED devices
      \/ /\ configuration.nvdec /\ pc' = "encoder" /\ KnownToCuda
         /\ devices' = [devices EXCEPT !["decoder"] = CudaCard]
  BY DEF SpawnDecoder, GoTo
<1>2. Encoded' /\ Choice' /\ AdaptedTruth'
  BY <1>0, <1>1 DEF PreparationInv, Encoded, Choice, AdaptedTruth
<1>3. CASE pc' = "error" /\ UNCHANGED devices
  BY <1>0, <1>3, EndStep DEF PreparationInv, PreparationTypeOK
<1>4. CASE ~configuration.nvdec /\ pc' = "encoder" /\ UNCHANGED devices
  <2>1. DevicesPlaced'
    BY <1>0, <1>4 DEF PreparationInv, DevicesPlaced, Placed, CudaCard, Selected, Uses, AfterProbe, AfterMemory, AfterMap
  <2> QED
    BY <1>0, <1>2, <1>4, <2>1, StartStep DEF PreparationInv, PreparationTypeOK, AfterMap
<1>5. CASE /\ configuration.nvdec /\ pc' = "encoder" /\ KnownToCuda
           /\ devices' = [devices EXCEPT !["decoder"] = CudaCard]
  <2>1. devices' \in [Uses -> Cards \cup {Unused}]
    BY <1>5, KnownCard DEF PreparationInv, PreparationTypeOK
  <2>2. CudaCard # Unused /\ cuda_gpu_index # None
    BY <1>5, KnownCard DEF PreparationInv
  <2>3. DevicesPlaced'
    BY <1>0, <1>5, <2>2 DEF PreparationInv, PreparationTypeOK, DevicesPlaced, Placed, CudaCard, Selected, Uses, AfterProbe,
       AfterMemory, AfterMap
  <2> QED
    BY <1>0, <1>2, <1>5, <2>1, <2>3, StartStep DEF AfterMap
<1> QED
  BY <1>1, <1>3, <1>4, <1>5

LEMMA SpawnEncoderStep ==
  ASSUME PreparationAssumption, PreparationInv, SpawnEncoder
  PROVE  PreparationInv'
<1>0. /\ pc = "encoder" /\ pc' = "frames" /\ configuration.preset = request.preset
      /\ UNCHANGED <<machine, request, configuration, metadata, available, free, cuda_gpu_index,
                     adapted, encoder_choice>>
  BY AdaptedFields DEF SpawnEncoder, Encode, GoTo, environment, notices, observed, PreparationInv,
     PreparationTypeOK, Applied
<1>1. PICK first, second \in encoder_is_available_for_gpu :
        LET codec == resolve_video_encoder(encoder_choice, first)
        IN  /\ codec = "nvidia" => cuda_gpu_index # None /\ second
            /\ encoder' = [codec |-> codec, preset |-> encoder_preset_argument(codec, configuration.preset)]
            /\ devices' = [devices EXCEPT !["encoder"] =
                             IF codec = "nvidia" THEN CudaCard ELSE Unused]
  BY DEF SpawnEncoder, Encode
<1>2. encoder_choice \in {"automatic", "software", "nvidia"}
  BY DEF PreparationInv, PreparationTypeOK, PreparationAssumption, Choice
<1>3. PICK codec \in {"software", "nvidia"} :
        /\ codec = resolve_video_encoder(encoder_choice, first)
        /\ encoder_choice # "automatic" => codec = encoder_choice
  BY <1>2 DEF resolve_video_encoder
<1>4. encoder'.codec = codec /\ encoder'.preset = encoder_preset_argument(codec, request.preset)
  BY <1>0, <1>1, <1>3
<1>5. Encoded'
  <2>1. encoder_preset_argument(encoder.codec, request.preset)'
          = encoder_preset_argument(encoder'.codec, request.preset)
    BY <1>0 DEF encoder_preset_argument, x264Presets, nvencPresets
  <2> QED
    BY <1>0, <1>3, <1>4, <2>1 DEF Encoded
<1>6. \/ devices' = [devices EXCEPT !["encoder"] = Unused]
      \/ /\ devices' = [devices EXCEPT !["encoder"] = CudaCard] /\ CudaCard \in Cards
         /\ cuda_gpu_index # None
  BY <1>1, <1>3, KnownCard DEF PreparationInv, encoder_is_available_for_gpu
<1>7. devices' \in [Uses -> Cards \cup {Unused}]
  BY <1>6 DEF PreparationInv, PreparationTypeOK
<1>8. DevicesPlaced'
  BY <1>0, <1>6 DEF PreparationInv, PreparationTypeOK, DevicesPlaced, Placed, CudaCard, Selected, Uses, AfterProbe,
     AfterMemory, AfterMap
<1>9. Choice' /\ AdaptedTruth'
  BY <1>0 DEF PreparationInv, Choice, AdaptedTruth
<1> QED
  BY <1>0, <1>5, <1>7, <1>8, <1>9, StartStep DEF AfterMap

LEMMA EncoderUnavailableStep ==
  ASSUME PreparationAssumption, PreparationInv, EncoderUnavailable
  PROVE  PreparationInv'
<1>0. /\ pc = "encoder"
      /\ UNCHANGED <<machine, request, configuration, metadata, available, free, cuda_gpu_index,
                     devices, encoder>>
      /\ \/ pc' = "error" /\ UNCHANGED <<adapted, encoder_choice>>
         \/ /\ pc' = "encoder" /\ encoder_choice # "software" /\ encoder_choice' = "software"
            /\ adapted' = adapted \cup {"software_fallback"}
  BY DEF EncoderUnavailable, GoTo, Adapt, environment, notices, observed
<1>1. CASE pc' = "error" /\ UNCHANGED <<adapted, encoder_choice>>
  BY <1>0, <1>1, EndStep DEF PreparationInv, PreparationTypeOK
<1>2. CASE /\ pc' = "encoder" /\ encoder_choice # "software" /\ encoder_choice' = "software"
           /\ adapted' = adapted \cup {"software_fallback"}
  <2>0. AdaptedTruth'
    BY <1>0, <1>2 DEF PreparationInv, AdaptedTruth, Choice
  <2>1. DevicesPlaced' /\ Encoded' /\ Choice'
    BY <1>0, <1>2 DEF PreparationInv, DevicesPlaced, Placed, CudaCard, Selected, Uses, Encoded, Choice
  <2>2. devices' \in [Uses -> Cards \cup {Unused}]
    BY <1>0 DEF PreparationInv, PreparationTypeOK
  <2> QED
    BY <1>0, <1>2, <2>0, <2>1, <2>2, StartStep DEF AfterMap
<1> QED
  BY <1>0, <1>1, <1>2

LEMMA StutterStep ==
  ASSUME PreparationInv, UNCHANGED vars
  PROVE  PreparationInv'
<1>1. RequestWith(adapted)' = RequestWith(adapted) /\ (UsesCuda' <=> UsesCuda)
  BY DEF vars, RequestWith, UsesCuda
<1>2. FrameBuffers' = FrameBuffers /\ (UhdSource' <=> UhdSource)
  BY DEF vars, FrameBuffers, FrameBytes, UhdSource
<1>3. /\ map_gpu_index(machine, request)'
           = map_gpu_index(machine, request)
      /\ encoder_preset_argument(encoder.codec, request.preset)'
           = encoder_preset_argument(encoder.codec, request.preset)
      /\ validate_target_fps(request.target, metadata.rate)'
           = validate_target_fps(request.target, metadata.rate)
  BY DEF vars
<1> QED
  BY <1>1, <1>2, <1>3 DEF vars, PreparationInv, PreparationTypeOK, Applied, AdaptedInOrder, AdaptedTruth,
     Choice, Encoded, Mapping, DevicesPlaced, Placed, CudaCard, Selected, Uses, MemorySuits, VramSuits, RateSuits

-----------------------------------------------------------------------------
(* Theorems *)

(* The inductive invariant of the preparation of a job. *)
THEOREM PreparationCorrect == Spec => []PreparationInv
<1>1. Init => PreparationInv
  <2> SUFFICES ASSUME Init PROVE PreparationInv
    OBVIOUS
  <2>1. PreparationTypeOK
    BY DEF Init, PreparationTypeOK, Uses, AfterProbe, AfterMemory, AfterMap
  <2>2. Applied
    BY <2>1, PreparationAssumption DEF Init, Applied, RequestWith, PreparationTypeOK, PreparationAssumption
  <2>3. AdaptedInOrder /\ AdaptedTruth /\ Choice /\ Encoded
    BY DEF Init, AdaptedInOrder, AdaptedTruth, Choice, Encoded
  <2>4. Mapping /\ DevicesPlaced
    BY DEF Init, Mapping, DevicesPlaced, Placed, Uses, AfterMap
  <2>5. MemorySuits /\ VramSuits /\ RateSuits
    BY DEF Init, MemorySuits, VramSuits, RateSuits, AfterMemory, AfterMap
  <2> QED
    BY <2>1, <2>2, <2>3, <2>4, <2>5 DEF PreparationInv
<1>2. PreparationInv /\ [Next]_vars => PreparationInv'
  BY PreparationAssumption, ValidateStep, ProbeStep, CheckRateStep, FitMemoryStep, FitFormatStep,
     MapGpuStep, FitVramStep, CreateBackendStep, SpawnDecoderStep, SpawnEncoderStep,
     EncoderUnavailableStep, FailsStep, StutterStep
  DEF Next, Done
<1> QED
  BY <1>1, <1>2, PTL DEF Spec

(* What the user is told was done: only send_update tells of an adaptation. *)
LEMMA ToldIsTrue == Spec => [](told \subseteq adapted)
<1>1. Init => told \subseteq adapted
  BY DEF Init
<1>2. told \subseteq adapted /\ [Next]_vars => (told \subseteq adapted)'
  <2> SUFFICES ASSUME told \subseteq adapted, [Next]_vars
               PROVE  (told \subseteq adapted)'
    OBVIOUS
  <2> DEFINE Noticed == UNCHANGED notices \/ \E phase : Adapt(phase)
  <2>1. Noticed
    <3>1. ASSUME Validate \/ Probe \/ CheckRate \/ MapGpu \/ CreateBackend \/ SpawnDecoder \/ SpawnEncoder
          PROVE  Noticed
      BY <3>1 DEF Validate, Probe, CheckRate, MapGpu, CreateBackend, SpawnDecoder, SpawnEncoder
    <3>2. ASSUME FitMemory PROVE Noticed
      BY <3>2 DEF FitMemory, notices
    <3>3. ASSUME FitFormat \/ EncoderUnavailable PROVE Noticed
      BY <3>3 DEF FitFormat, EncoderUnavailable, notices
    <3>4. ASSUME FitVram PROVE Noticed
      BY <3>4 DEF FitVram, adapt_configuration_for_cuda_memory, notices
    <3>5. ASSUME \E label \in MayFail : Fails(label) PROVE Noticed
      BY <3>5 DEF Fails
    <3>6. ASSUME UNCHANGED vars PROVE Noticed
      BY <3>6 DEF vars, notices
    <3> HIDE DEF Noticed
    <3> QED
      BY <3>1, <3>2, <3>3, <3>4, <3>5, <3>6 DEF Next, Done
  <2> QED
    BY <2>1 DEF notices, Adapt
<1> QED
  BY <1>1, <1>2, PTL DEF Spec

(* A job that starts differs from the one asked for by its adaptations and nothing
   else, each made for its reason, and what the user is told of them is true. *)
THEOREM RequestIsHonoured == Spec => []RequestHonoured
<1>1. PreparationInv /\ told \subseteq adapted => RequestHonoured
  <2> SUFFICES ASSUME PreparationInv, told \subseteq adapted, pc = "frames"
               PROVE  RequestHonoured
    BY DEF RequestHonoured
  <2>1. configuration = RequestWith(adapted) /\ AdaptedTruth
    BY DEF PreparationInv, Applied
  <2>2. configuration.nvdec <=> devices["decoder"] # Unused
    BY DEF PreparationInv, DevicesPlaced
  <2>3. /\ encoder.codec \in {"software", "nvidia"}
        /\ encoder_choice # "automatic" => encoder.codec = encoder_choice
        /\ encoder_choice = IF "software_fallback" \in adapted THEN "software" ELSE request.encoder
        /\ encoder.preset = encoder_preset_argument(encoder.codec, request.preset)
    BY DEF PreparationInv, Encoded, Choice
  <2>4. /\ request.encoder = "nvidia" =>
             (encoder.codec = "software" <=> "software_fallback" \in adapted)
        /\ request.encoder = "software" => encoder.codec = "software"
        /\ "software_fallback" \in adapted => encoder.codec = "software"
    BY <2>3
  <2>5. LET own == IF encoder.codec = "software" THEN x264Presets ELSE nvencPresets
        IN  encoder.preset \in own /\ (request.preset \in own => encoder.preset = request.preset)
    BY <2>3 DEF encoder_preset_argument, x264Presets, nvencPresets
  <2> QED
    BY <2>1, <2>2, <2>4, <2>5 DEF RequestHonoured, RequestWith, AdaptedTruth
<1> QED
  BY <1>1, PreparationCorrect, ToldIsTrue, PTL

(* NVDEC and NVENC use one card; what uses a card by a number of CUDA's is on a card
   of the name selected, where that number was found in CUDA's list, and on the
   selected one where cards of one name are numbered alike; and host and card have
   the memory the job was admitted for. *)
THEOREM MachineIsSuited == Spec => []MachineSuits
<1>1. ASSUME PreparationInv, pc = "frames" PROVE MachineSuits
  <2>1. \A use \in Uses : Placed(use)
    BY <1>1 DEF PreparationInv, DevicesPlaced
  <2>2. /\ DOMAIN devices = Uses /\ request.gpu_index \in Nat /\ machine \in Machines
        /\ devices["inference"] # Unused /\ configuration.inference = request.inference
        /\ configuration.target = request.target
    BY <1>1, PreparationAssumption, AdaptedFields
    DEF PreparationInv, PreparationTypeOK, PreparationAssumption, DevicesPlaced, Applied
  <2>3. /\ Unused \in {devices["decoder"], devices["encoder"]} \/ devices["decoder"] = devices["encoder"]
        /\ UsesCuda => {devices["decoder"], devices["encoder"]} \subseteq {Unused, devices["inference"]}
        /\ ~UsesCuda => devices["inference"] = Selected
    BY <2>1, <2>2 DEF Placed, Uses, UsesCuda
  <2>4. ASSUME NEW use \in Uses, devices[use] # Unused, UsesCuda \/ machine.smi = machine.cuda
        PROVE  /\ NameOf[devices[use]] = NameOf[Selected]
               /\ NumberedAlike(machine) => devices[use] = Selected
    <3>1. CASE devices[use] = Selected
      BY <3>1
    <3>2. CASE cuda_gpu_index # None /\ devices[use] = CudaCard
      <4>1. cuda_gpu_index = Counterpart(machine.cuda, machine, request.gpu_index)
        BY <1>1, <2>2, <2>4, <3>2 DEF PreparationInv, Mapping, map_gpu_index, UsesCuda,
           cuda_inference_device_index_for_gpu, cuda_device_index_for_gpu
      <4>2. NameOf[CudaCard] = NameOf[Selected]
        BY <2>2, <3>2, <4>1, SameName, PreparationAssumption DEF CudaCard, Selected
      <4>3. NumberedAlike(machine) => CudaCard = Selected
        BY <2>2, <3>2, <4>1, SameCard, PreparationAssumption DEF CudaCard, Selected
      <4> QED
        BY <3>2, <4>2, <4>3
    <3> QED
      BY <2>1, <2>4, <3>1, <3>2 DEF Placed
  <2>5. /\ available >= FrameBuffers + GiB
        /\ ~configuration.uhd \/ configuration.nvdec => available >= 6 * GiB
    BY <1>1 DEF PreparationInv, MemorySuits, AfterMemory, AfterMap
  <2>6. UsesCuda => /\ free >= 2 * GiB
                    /\ ~configuration.uhd /\ UhdSource => free >= 6 * GiB
    BY <1>1 DEF PreparationInv, VramSuits, AfterMap
  <2>7. configuration.target[1] * metadata.rate[2] > metadata.rate[1] * configuration.target[2]
    BY <1>1, <2>2 DEF PreparationInv, RateSuits, AfterMemory, AfterMap, validate_target_fps
  <2> QED
    BY <2>2, <2>3, <2>4, <2>5, <2>6, <2>7 DEF MachineSuits, UhdSource, Selected
<1>2. PreparationInv => MachineSuits
  BY <1>1 DEF MachineSuits
<1> QED
  BY <1>2, PreparationCorrect, PTL
=============================================================================
