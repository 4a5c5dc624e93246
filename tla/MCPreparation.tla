---------------------------- MODULE MCPreparation ----------------------------
(* Preparation with three sources that are accepted and five that are not, and
   five machines: one whose lists all differ, with two cards of one name among
   three; one where the driver and CUDA list two cards alike; one where CUDA sees
   only the second of two cards of one name; one where the driver and CUDA list
   three cards alike and Vulkan differs; and one without NVIDIA cards. *)
EXTENDS Preparation

(* The reduction of frame rates against its definition. *)
ASSUME \A left, right \in 1..40 :
  LET divisor == greatest_common_divisor[left, right]
  IN  /\ left % divisor = 0 /\ right % divisor = 0
      /\ \A d \in 1..left : left % d = 0 /\ right % d = 0 => d <= divisor

Video(w, h, rate, timestamps, format) ==
  [width |-> w, height |-> h, rate |-> rate, timestamps |-> timestamps, format |-> format]

Steady == <<0, 41, NotANumber, 83, 125>>

MC_Videos ==
  {Video(1920, 1080, <<48, 2>>, Steady, "yuv420p"),
   Video(3840, 2160, <<48, 2>>, Steady, "gray"),
   Video(16384, 2730, <<30000, 1001>>, <<0>>, "yuvj420p10le"),
   Video(16384, 2731, <<48, 2>>, Steady, "yuv420p"),       \* frames too large
   Video(1920, 1080, <<0, 0>>, Steady, "yuv420p"),         \* no rate
   Video(1920, 1080, <<48, 2>>, <<0, 41, 41>>, "yuv420p"), \* a time twice
   Video(1920, 1080, <<48, 2>>, <<0, 41, 84>>, "yuv420p"), \* a variable rate
   Video(1920, 1080, <<48, 2>>, <<NotANumber>>, "yuv420p")}

MC_Requests ==
  [target : {<<60, 1>>, <<24, 1>>}, uhd : BOOLEAN, nvdec : BOOLEAN, threads : {0},
   inference : {"vulkan", "cuda"}, encoder : {"automatic", "software", "nvidia"},
   preset : {"placebo", "p7"}, gpu_index : 0..2]

MC_NameOf == [a1 |-> "A", a2 |-> "A", b |-> "B", i |-> "I"]

Machine(vulkan, cuda, smi, encoders, nvdec) ==
  [vulkan |-> vulkan, cuda |-> cuda, smi |-> smi, encoders |-> encoders, nvdec |-> nvdec]

MC_Machines ==
  LET both == {"software", "nvidia"}
  IN  {Machine(<<"a1", "b", "a2">>, <<"b", "a1", "a2">>, <<"a1", "a2", "b">>, both, TRUE),
       Machine(<<"i", "a1", "a2">>, <<"a1", "a2">>, <<"a1", "a2">>, both, FALSE),
       Machine(<<"a1", "a2">>, <<"a2">>, <<"a1", "a2">>, both, TRUE),
       Machine(<<"a2", "b", "a1">>, <<"b", "a2", "a1">>, <<"b", "a2", "a1">>, both, TRUE),
       Machine(<<"i">>, <<>>, <<>>, {"software"}, FALSE)}

MC_HostMemory == {GiB, 2 * GiB, 6 * GiB}
MC_CgroupMemory == {NoLimit, 0, GiB + 3 * 6075, GiB + 3 * 6075 - 1}
MC_FreeVram == {2 * GiB - 1, 2 * GiB, 6 * GiB}
=============================================================================
