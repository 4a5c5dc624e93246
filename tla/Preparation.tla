----------------------------- MODULE Preparation -----------------------------
(***************************************************************************)
(* The head of run_job_inner in src/src/pipeline.rs: between the settings  *)
(* the user asked for and the first frame, a job looks at its source, at   *)
(* the memory of the host and of the GPU, at the GPUs as three libraries   *)
(* number them, and at the encoders FFmpeg can open; it gives up, or goes  *)
(* on with a configuration that may differ from the one asked for.         *)
(*                                                                         *)
(* Job has the same steps as alternatives without data; here they compute. *)
(* Memory is counted in KiB, as /proc/meminfo does.                        *)
(***************************************************************************)
EXTENDS Integers, Sequences, FiniteSets, FiniteSetsExt

CONSTANTS
  Requests,       \* JobConfigurations: target, uhd, nvdec, threads, inference, encoder, preset, gpu_index
  Videos,         \* what ffprobe may say of the source: width, height, rate, timestamps, format
  Machines,       \* the GPUs as Vulkan, CUDA and nvidia-smi list them; encoders FFmpeg opens
  NameOf,         \* the name of each GPU
  HostMemory, CgroupMemory,   \* MemAvailable; what the cgroup leaves, or NoLimit
  FreeVram,       \* free memory of a CUDA device
  NoLimit, NotANumber

Cards == DOMAIN NameOf
Listed(list) == {list[i] : i \in DOMAIN list}
Before(list, a, b) == \E i, j \in DOMAIN list : i < j /\ list[i] = a /\ list[j] = b
Unused == "unused"

Once(list) == \A i, j \in DOMAIN list : list[i] = list[j] => i = j

(* torch lists the cards as CUDA numbers them, and CUDA's number is what its
   process, NVDEC and NVENC are given; nvidia-smi lists them by their place on the
   bus, and CUDA the fastest first unless told otherwise. *)
ASSUME PreparationAssumption ==
  /\ Requests \subseteq
       [target : Nat \X Nat, uhd : BOOLEAN, nvdec : BOOLEAN, threads : Nat,
        inference : {"vulkan", "cuda"}, encoder : {"automatic", "software", "nvidia"},
        preset : STRING, gpu_index : Nat]
  /\ \A video \in Videos : video.width \in Nat /\ video.height \in Nat
  /\ Machines \subseteq
       [vulkan : Seq(Cards), cuda : Seq(Cards), smi : Seq(Cards),
        encoders : SUBSET {"software", "nvidia"}, nvdec : BOOLEAN]
  /\ Unused \notin Cards
  /\ \A m \in Machines : Once(m.vulkan) /\ Once(m.cuda)
  /\ HostMemory \subseteq Nat \ {0}
  /\ \A memory \in CgroupMemory : memory = NoLimit \/ memory \in Nat
  /\ FreeVram \subseteq Nat \ {0}

MiB == 1024
GiB == 1024 * MiB
FRAME_SIZE_BYTES_MAX == 128 * 1024 * 1024
FRAME_BUFFER_COUNT == 3
FRAME_DIMENSION_MAX == 16384
TARGET_FPS_MAX == 480
ENCODER_THREAD_COUNT_MAX == 16
MEMORY_CONSTRAINED_AVAILABLE == 6 * GiB
MEMORY_SAFETY_RESERVE == 2 * GiB
CUDA_HALF_SCALE_FREE_MEMORY_MIN == 2 * GiB
CUDA_FULL_SCALE_FREE_MEMORY_MIN == 6 * GiB
FRAME_INTERVAL_TOLERANCE == 1     \* timestamps are counted in halves of a millisecond

VARIABLES
  pc,              \* the next step, or "frames", "error", "panic"
  machine,
  request,         \* the configuration run_job was given
  configuration,   \* the configuration as it is now
  metadata,        \* VideoMetadata
  available,       \* available_memory_bytes
  free,            \* cuda_free_memory_bytes
  cuda_gpu_index,  \* an index, or None
  adapted,         \* what was changed, each with a phase handed to send_update
  told,            \* the phases of these that found the channel empty
  devices,         \* what the backend and the processes were started with
  encoder,         \* codec and preset the FFmpeg encoder was started with
  encoder_choice   \* encoder_configuration.video_encoder

vars == <<pc, machine, request, configuration, metadata, available, free, cuda_gpu_index,
          adapted, told, devices, encoder, encoder_choice>>

None == -1

-----------------------------------------------------------------------------
(* Looking at the source *)

(* greatest_common_divisor, its bounded loop *)
greatest_common_divisor[left \in Nat, right \in Nat] ==
  IF right = 0 THEN left ELSE greatest_common_divisor[right, left % right]

(* parse_rational reduces a positive fraction. *)
Reduced(rate) ==
  LET divisor == greatest_common_divisor[rate[1], rate[2]]
  IN  <<rate[1] \div divisor, rate[2] \div divisor>>

FrameBytes(video) == video.width * video.height * 3

checked_frame_size(video) ==
  video.width * video.height <= FRAME_SIZE_BYTES_MAX \div 3

(* validate_constant_frame_rate: lines that are no number are passed over; every
   interval is positive and close to the first. *)
validate_constant_frame_rate(lines) ==
  LET times == SelectSeq(lines, LAMBDA t : t # NotANumber)
      Interval(i) == times[i + 1] - times[i]
      Distance(x, y) == IF x < y THEN y - x ELSE x - y
  IN  /\ times # <<>>
      /\ \A i \in 1..(Len(times) - 1) :
           Interval(i) > 0 /\ Distance(Interval(i), Interval(1)) <= FRAME_INTERVAL_TOLERANCE

(* probe_video_logged accepts a video. *)
Acceptable(video) ==
  /\ video.width \in 1..FRAME_DIMENSION_MAX /\ video.height \in 1..FRAME_DIMENSION_MAX
  /\ checked_frame_size(video)
  /\ video.rate[1] > 0 /\ video.rate[2] > 0
  /\ validate_constant_frame_rate(video.timestamps)

nvdec_download_format(format) ==
  CASE format \in {"yuv420p", "yuvj420p", "nv12"}           -> "nv12"
    [] format \in {"yuv420p10le", "yuvj420p10le", "p010le"} -> "p010le"
    [] format \in {"yuv444p", "yuvj444p"}                   -> "yuv444p"
    [] OTHER                                                -> Unused

-----------------------------------------------------------------------------
(* Looking at the GPUs *)

(* The first position of the list, counted from 0, with n earlier cards of the name *)
Occurrence(list, name, n) ==
  LET Found == {i \in 0..(Len(list) - 1) :
                  /\ NameOf[list[i + 1]] = name
                  /\ Cardinality({j \in 1..i : NameOf[list[j]] = name}) = n}
  IN  IF Found = {} THEN None ELSE Min(Found)

(* The card Vulkan numbers gpu_index is the n-th of its name: the n-th of that name
   in another list. *)
Counterpart(list, m, gpu_index) ==
  IF gpu_index >= Len(m.vulkan) THEN None
  ELSE LET name == NameOf[m.vulkan[gpu_index + 1]]
       IN  Occurrence(list, name, Cardinality({j \in 1..gpu_index : NameOf[m.vulkan[j]] = name}))

cuda_inference_device_index_for_gpu(m, gpu_index) == Counterpart(m.cuda, m, gpu_index)

(* The list of nvidia-smi; what is found there is used as a number of CUDA's. *)
cuda_device_index_for_gpu(m, gpu_index) == Counterpart(m.smi, m, gpu_index)

(* Mutant: the list of nvidia-smi serves the CUDA process as well. *)
map_gpu_index_by_driver(m, c) == cuda_device_index_for_gpu(m, c.gpu_index)

map_gpu_index(m, c) ==
  IF c.inference = "cuda" THEN cuda_inference_device_index_for_gpu(m, c.gpu_index)
  ELSE cuda_device_index_for_gpu(m, c.gpu_index)

(* available_video_encoders, from what FFmpeg can open: the list the user chooses
   from.  With an empty list the application asks for the automatic choice. *)
available_video_encoders(openable) ==
  openable \cup {"automatic"}

x264Presets == {"veryfast", "medium", "placebo"}
nvencPresets == {"p1", "p5", "p7"}

encoder_preset_argument(codec, preset) ==
  CASE codec = "software" -> IF preset \in x264Presets THEN preset ELSE "medium"
    [] codec = "nvidia"   -> IF preset \in nvencPresets THEN preset ELSE "p5"

-----------------------------------------------------------------------------
Init ==
  /\ pc = "validate"
  /\ machine \in Machines /\ request \in Requests
  /\ request.encoder \in available_video_encoders(machine.encoders)
  /\ request.nvdec => machine.nvdec
  /\ configuration = request
  /\ metadata = Unused /\ available = 0 /\ free = 0
  /\ cuda_gpu_index = None
  /\ adapted = {} /\ told = {}
  /\ devices = [inference |-> Unused, decoder |-> Unused, encoder |-> Unused]
  /\ encoder = [codec |-> "none", preset |-> "none"]
  /\ encoder_choice = request.encoder

GoTo(label) == pc' = label

(* send_update tries the one-slot channel: with another status still in it the
   phase is lost, and the change is made all the same. *)
Adapt(phase) ==
  /\ adapted' = adapted \cup {phase}
  /\ told' \in {told, told \cup {phase}}

notices == <<adapted, told>>

environment == <<machine, request>>
observed == <<metadata, available, free>>
started == <<devices, encoder, encoder_choice>>

(* Any step may fail for a reason of its own: a program that is not installed, a
   file that cannot be read, a user who has cancelled. *)
Fails(label) ==
  /\ pc = label /\ pc' = "error"
  /\ UNCHANGED <<environment, configuration, observed, cuda_gpu_index, notices, started>>

(* validate_configuration; its checks on the paths are in Job. *)
Validate ==
  /\ pc = "validate"
  /\ GoTo(IF /\ request.target[1] \in 1..TARGET_FPS_MAX /\ request.target[2] > 0
             /\ request.threads <= ENCODER_THREAD_COUNT_MAX
          THEN "probe" ELSE "error")
  /\ UNCHANGED <<environment, configuration, observed, cuda_gpu_index, notices, started>>

(* probe_video_logged, with its two runs of ffprobe *)
Probe ==
  /\ pc = "probe"
  /\ \E video \in Videos :
       IF Acceptable(video)
       THEN /\ metadata' = [width |-> video.width, height |-> video.height,
                            rate |-> Reduced(video.rate), format |-> video.format]
            /\ GoTo("rate")
       ELSE GoTo("error") /\ UNCHANGED metadata
  /\ UNCHANGED <<environment, configuration, available, free, cuda_gpu_index, notices, started>>

validate_target_fps(target, rate) == target[1] * rate[2] > rate[1] * target[2]

CheckRate ==
  /\ pc = "rate"
  /\ GoTo(IF validate_target_fps(configuration.target, metadata.rate) THEN "memory" ELSE "error")
  /\ UNCHANGED <<environment, configuration, observed, cuda_gpu_index, notices, started>>

FrameBuffers == FRAME_BUFFER_COUNT * (FrameBytes(metadata) \div 1024)

(* adapt_configuration_for_memory.  An assertion demands that some memory is
   available, which a cgroup at its limit does not grant. *)
FitMemory ==
  /\ pc = "memory"
  /\ \E host \in HostMemory, cgroup \in CgroupMemory :
       LET memory == IF cgroup = NoLimit THEN host ELSE Min({host, cgroup})
           reserve == IF configuration.inference = "vulkan"
                      THEN MEMORY_SAFETY_RESERVE \div 2 ELSE MEMORY_SAFETY_RESERVE
           constrained == \/ memory < MEMORY_CONSTRAINED_AVAILABLE
                          \/ memory < FrameBuffers + reserve
       IN  /\ available' = memory
           /\ \/ /\ memory = 0 /\ GoTo("panic")
                 /\ UNCHANGED <<configuration, notices>>
              \/ /\ memory > 0 /\ ~constrained /\ GoTo("format")
                 /\ UNCHANGED <<configuration, notices>>
              \/ /\ memory > 0 /\ constrained
                 /\ memory < FrameBuffers + MEMORY_SAFETY_RESERVE \div 2
                 /\ GoTo("error") /\ UNCHANGED <<configuration, notices>>
              \/ /\ memory > 0 /\ constrained
                 /\ memory >= FrameBuffers + MEMORY_SAFETY_RESERVE \div 2
                 /\ configuration' = [configuration EXCEPT !.uhd = TRUE, !.nvdec = FALSE,
                                                           !.threads = 1]
                 /\ Adapt("low_memory") /\ GoTo("format")
  /\ UNCHANGED <<environment, metadata, free, cuda_gpu_index, started>>

FitFormat ==
  /\ pc = "format" /\ GoTo("map")
  /\ IF configuration.nvdec /\ nvdec_download_format(metadata.format) = Unused
     THEN configuration' = [configuration EXCEPT !.nvdec = FALSE] /\ Adapt("cpu_decode")
     ELSE UNCHANGED <<configuration, notices>>
  /\ UNCHANGED <<environment, observed, cuda_gpu_index, started>>

UsesCuda == configuration.inference = "cuda"

(* The queries behind a mapping may fail as well. *)
MapGpu ==
  LET MayUseCuda == \/ configuration.nvdec \/ UsesCuda
                    \/ configuration.encoder \in {"automatic", "nvidia"}
      Demanded == configuration.nvdec \/ UsesCuda \/ configuration.encoder = "nvidia"
      Mapped == map_gpu_index(machine, configuration)
  IN  /\ pc = "map"
      /\ \E index \in IF MayUseCuda THEN {Mapped, None} ELSE {None} :
           /\ cuda_gpu_index' = index
           /\ GoTo(IF index = None /\ Demanded THEN "error"
                   ELSE IF UsesCuda THEN "vram" ELSE "backend")
      /\ UNCHANGED <<environment, configuration, observed, notices, started>>

adapt_configuration_for_cuda_memory(given) ==
  LET uhd_source == metadata.width >= 3840 \/ metadata.height >= 2160
  IN  \E memory \in FreeVram :
        /\ free' = memory
        /\ \/ /\ memory < CUDA_HALF_SCALE_FREE_MEMORY_MIN /\ GoTo("error")
              /\ UNCHANGED <<configuration, notices>>
           \/ /\ memory >= CUDA_HALF_SCALE_FREE_MEMORY_MIN /\ GoTo("backend")
              /\ IF /\ uhd_source /\ ~given.uhd
                    /\ memory < CUDA_FULL_SCALE_FREE_MEMORY_MIN
                 THEN configuration' = [given EXCEPT !.uhd = TRUE] /\ Adapt("half_scale")
                 ELSE configuration' = given /\ UNCHANGED notices

(* Mutant: the configuration first asked for is fitted to the VRAM. *)
FitVram_request ==
  /\ pc = "vram"
  /\ adapt_configuration_for_cuda_memory(request)
  /\ UNCHANGED <<environment, metadata, available, cuda_gpu_index, started>>

FitVram ==
  /\ pc = "vram"
  /\ adapt_configuration_for_cuda_memory(configuration)
  /\ UNCHANGED <<environment, metadata, available, cuda_gpu_index, started>>

KnownToCuda == cuda_gpu_index \in 0..(Len(machine.cuda) - 1)
CudaCard == machine.cuda[cuda_gpu_index + 1]

(* The CUDA process takes its card by the CUDA index, ncnn by the Vulkan index; an
   index without a card makes either fail. *)
CreateBackend ==
  /\ pc = "backend"
  /\ \/ /\ UsesCuda /\ KnownToCuda /\ GoTo("decoder")
        /\ devices' = [devices EXCEPT !.inference = CudaCard]
     \/ /\ ~UsesCuda /\ configuration.gpu_index < Len(machine.vulkan) /\ GoTo("decoder")
        /\ devices' = [devices EXCEPT !.inference = machine.vulkan[configuration.gpu_index + 1]]
     \/ /\ IF UsesCuda THEN ~KnownToCuda ELSE configuration.gpu_index >= Len(machine.vulkan)
        /\ GoTo("error") /\ UNCHANGED devices
  /\ UNCHANGED <<environment, configuration, observed, cuda_gpu_index, notices, encoder,
                 encoder_choice>>

(* spawn_decoder; without a mapped device or a download format there is no NVDEC,
   and FFmpeg fails with a number CUDA does not know. *)
SpawnDecoder ==
  /\ pc = "decoder"
  /\ \/ /\ ~configuration.nvdec /\ GoTo("encoder") /\ UNCHANGED devices
     \/ /\ configuration.nvdec
        /\ IF KnownToCuda /\ nvdec_download_format(metadata.format) # Unused
           THEN /\ devices' = [devices EXCEPT !.decoder = CudaCard]
                /\ GoTo("encoder")
           ELSE GoTo("error") /\ UNCHANGED devices
  /\ UNCHANGED <<environment, configuration, observed, cuda_gpu_index, notices, encoder,
                 encoder_choice>>

(* encoder_is_available_for_gpu: one run of FFmpeg, which may time out, so that two
   runs may differ; never with a number CUDA does not know. *)
encoder_is_available_for_gpu ==
  IF "nvidia" \in machine.encoders /\ KnownToCuda THEN BOOLEAN ELSE {FALSE}

(* resolve_video_encoder *)
resolve_video_encoder(choice, available_now) ==
  IF choice = "automatic"
  THEN IF cuda_gpu_index # None /\ available_now THEN "nvidia" ELSE "software"
  ELSE choice

(* spawn_encoder: an NVENC encoder is probed once more before it is started. *)
Encode(codec) ==
  /\ encoder' = [codec |-> codec, preset |-> encoder_preset_argument(codec, configuration.preset)]
  /\ devices' = [devices EXCEPT !.encoder =
                   IF codec = "nvidia" THEN CudaCard ELSE Unused]
  /\ GoTo("frames")

(* The fallback is taken when the first attempt fails for any reason. *)
SpawnEncoder ==
  /\ pc = "encoder"
  /\ \E first, second \in encoder_is_available_for_gpu :
       LET codec == resolve_video_encoder(encoder_choice, first)
       IN  /\ codec = "nvidia" => cuda_gpu_index # None /\ second
           /\ Encode(codec)
  /\ UNCHANGED <<environment, configuration, observed, cuda_gpu_index, notices, encoder_choice>>

EncoderUnavailable ==
  /\ pc = "encoder"
  /\ IF encoder_choice = "software"
     THEN GoTo("error") /\ UNCHANGED <<notices, encoder_choice>>
     ELSE /\ Adapt("software_fallback")
          /\ encoder_choice' = "software" /\ UNCHANGED pc
  /\ UNCHANGED <<environment, configuration, observed, cuda_gpu_index, devices, encoder>>

MayFail == {"validate", "probe", "rate", "memory", "map", "vram", "backend", "decoder"}

(* The job goes on to its frames, or is over. *)
Done == pc \in {"frames", "error", "panic"} /\ UNCHANGED vars

Next ==
  \/ Validate \/ Probe \/ CheckRate \/ FitMemory \/ FitFormat \/ MapGpu \/ FitVram
  \/ CreateBackend \/ SpawnDecoder \/ SpawnEncoder \/ EncoderUnavailable
  \/ \E label \in MayFail : Fails(label)
  \/ Done

Spec == Init /\ [][Next]_vars

-----------------------------------------------------------------------------
(* A job that starts differs from the one asked for by its adaptations and nothing
   else, and each was made for its reason: half scale for lack of memory or of
   VRAM, CPU decoding for lack of memory or a format NVDEC cannot read, one
   encoder thread for lack of memory, the CPU encoder where NVENC was to be tried.
   A later adaptation undoes none made before it.  What the user is told of them
   is true; that the user is told of each is not claimed, a phase can be lost.
   The decoder runs where the configuration says, and the encoder has the preset
   asked for whenever it is one of its own. *)
RequestHonoured ==
  pc = "frames" =>
    /\ configuration = [request EXCEPT
         !.uhd = @ \/ adapted \cap {"low_memory", "half_scale"} # {},
         !.nvdec = @ /\ adapted \cap {"low_memory", "cpu_decode"} = {},
         !.threads = IF "low_memory" \in adapted THEN 1 ELSE @]
    /\ "half_scale" \in adapted => ~request.uhd /\ "low_memory" \notin adapted
    /\ "cpu_decode" \in adapted => request.nvdec /\ "low_memory" \notin adapted
    /\ "software_fallback" \in adapted => request.encoder # "software" /\ encoder.codec = "software"
    /\ told \subseteq adapted
    /\ configuration.nvdec <=> devices.decoder # Unused
    /\ request.encoder = "nvidia" =>
         (encoder.codec = "software" <=> "software_fallback" \in adapted)
    /\ request.encoder = "software" => encoder.codec = "software"
    /\ LET own == IF encoder.codec = "software" THEN x264Presets ELSE nvencPresets
       IN  encoder.preset \in own /\ (request.preset \in own => encoder.preset = request.preset)

(* Cards of one name stand in the same order in Vulkan's list and in CUDA's, and
   CUDA's has all of them or none: nothing in the code sees to it. *)
NumberedAlike(m) ==
  \A a, b \in Cards : NameOf[a] = NameOf[b] /\ a \in Listed(m.cuda) =>
    /\ b \in Listed(m.cuda) <=> b \in Listed(m.vulkan)
    /\ Before(m.cuda, a, b) <=> Before(m.vulkan, a, b)

(* NVDEC and NVENC use one card, with CUDA that of the inference.  The inference is
   on a card of the name selected; so are NVDEC and NVENC with CUDA, and with
   Vulkan where nvidia-smi and CUDA list the cards alike: elsewhere another card
   may take them.  A card of the right name is the selected one if cards of one
   name are numbered alike, and for Vulkan in any case.  The host and the card of
   the inference have the memory the job was admitted for: full scale only with
   6 GiB, and with CUDA on a UHD source only with 6 GiB of VRAM; in any case the
   frame buffers and 1 GiB besides. *)
MachineSuits ==
  pc = "frames" =>
    /\ Unused \in {devices.decoder, devices.encoder} \/ devices.decoder = devices.encoder
    /\ UsesCuda => {devices.decoder, devices.encoder} \subseteq {Unused, devices.inference}
    /\ LET Selected == machine.vulkan[request.gpu_index + 1]
       IN  /\ ~UsesCuda => devices.inference = Selected
           /\ \A use \in DOMAIN devices :
                devices[use] # Unused /\ (UsesCuda \/ machine.smi = machine.cuda) =>
                  /\ NameOf[devices[use]] = NameOf[Selected]
                  /\ NumberedAlike(machine) => devices[use] = Selected
    /\ available >= FrameBuffers + GiB
    /\ ~configuration.uhd \/ configuration.nvdec => available >= 6 * GiB
    /\ UsesCuda => free >= 2 * GiB
    /\ UsesCuda /\ ~configuration.uhd /\ (metadata.width >= 3840 \/ metadata.height >= 2160) =>
         free >= 6 * GiB
    /\ configuration.target[1] * metadata.rate[2] > metadata.rate[1] * configuration.target[2]
=============================================================================
