------------------------------ MODULE MCSettings ------------------------------
(* Settings with two videos, one of them UHD, two frame rates and one quality,
   two encoders, one GPU, and one of the switches, which all work alike. *)
EXTENDS Settings

MC_Encoders == <<"automatic", "nvidia">>
MC_FieldValues == [target_fps |-> {60, 120}, encoding_quality |-> {18}]
MC_InitialValue == [target_fps |-> 120, encoding_quality |-> 18]
=============================================================================
