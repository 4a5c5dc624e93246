------------------------------- MODULE Settings -------------------------------
(***************************************************************************)
(* The settings of the desktop application, src/src/app.rs: the pages and  *)
(* tabs, six menus, the text fields, the choice of a source and an output  *)
(* through prompts of the desktop, and the handlers' own assertions.       *)
(*                                                                         *)
(* Handlers run one at a time on the UI thread, so each is one action. A   *)
(* handler that panics ends the program: failed names it. Jobs are only    *)
(* running or not here; Desktop describes how they start and end.          *)
(***************************************************************************)
EXTENDS Integers, Sequences, FiniteSets

CONSTANTS
  Sources,             \* videos the user may choose
  UhdSources,          \* those whose dimensions reach the UHD thresholds
  FieldValues,         \* valid contents of each text field that is edited
  InitialValue,        \* what each field shows at the start
  Encoders,            \* video_encoders, in the order shown
  GpuCount,            \* gpu_names.len()
  CudaAvailable,       \* cuda_inference_available
  Profiles,            \* H.264 profiles offered
  Switches             \* preserve_audio, ..., use_nvdec when there is NVDEC

Fields == DOMAIN FieldValues
Contents == UNION {FieldValues[f] : f \in Fields}

NoSource == "none"     \* no input path, no metadata

ASSUME SettingsAssumption ==
  /\ UhdSources \subseteq Sources /\ NoSource \notin Sources
  /\ "target_fps" \in Fields
  /\ InitialValue \in [Fields -> Contents]
  /\ \A f \in Fields : InitialValue[f] \in FieldValues[f]
  /\ Encoders \in Seq({"automatic", "software", "nvidia"}) /\ Len(Encoders) <= 3
  /\ Encoders # <<>> => Encoders[1] = "automatic"
  /\ GpuCount \in 0..16
  /\ CudaAvailable \in BOOLEAN
  /\ "auto" \in Profiles
  /\ Switches \subseteq {"preserve_audio", "preserve_subtitles", "preserve_metadata", "use_nvdec"}

Tabs == {"Interpolation", "Hardware", "Encoding", "Media"}

(* The menus, and the tab that holds each one's selector *)
TabOf == [preset |-> "Interpolation", inference_backend |-> "Hardware",
          video_encoder |-> "Hardware", gpu |-> "Hardware",
          encoder_preset |-> "Encoding", h264_profile |-> "Encoding"]
Menus == DOMAIN TabOf

None == <<>>           \* no output path, no job, no failed assertion
Invalid == -1          \* the contents of a field that do not parse, or are out of range

VARIABLES
  settings_page, main_page_tab,
  open,                        \* the menus that are open
  input,                       \* what each text field shows
  value,                       \* the last valid value of each field
  content_preset, scene_detection, scene_detection_overridden,
  use_uhd_mode, use_uhd_mode_overridden,
  marked_for,                  \* the metadata use_uhd_mode_overridden was set for
  selected_gpu_index, selected_video_encoder, encoder_preset, h264_profile,
  cuda_inference_enabled,
  switches,                    \* the switches that are on
  input_path, output_path, metadata,
  prompts,                     \* file prompts waiting for the user
  running,
  job,                         \* the configuration of the job that runs
  failed                       \* the handler whose assertion failed

navigation == <<settings_page, main_page_tab>>
pictureVars == <<content_preset, scene_detection, scene_detection_overridden,
                 use_uhd_mode, use_uhd_mode_overridden, marked_for>>
fieldVars == <<input, value>>
selections == <<selected_gpu_index, selected_video_encoder, encoder_preset, h264_profile,
                cuda_inference_enabled>>
paths == <<input_path, output_path, metadata>>
jobVars == <<running, job>>
settings == <<navigation, open, fieldVars, pictureVars, selections, switches, paths,
              prompts, jobVars>>
vars == <<settings, failed>>

-----------------------------------------------------------------------------
(* use_uhd_mode_default. metadata is the source it was read from. *)
use_uhd_mode_default(preset, source) == preset = "Anime" /\ source \in UhdSources

(* default_output_path: the name tells the source, the frame rate and whether
   shots are protected. *)
default_output_path(path, fps, scene) == <<"default", path, fps, scene>>
Chosen == <<"chosen">>

has_nvidia == \E i \in DOMAIN Encoders : Encoders[i] = "nvidia"

(* default_encoder_preset: the middle preset of the encoder that would be used *)
default_encoder_preset(encoder) ==
  IF encoder = "nvidia" \/ (encoder = "automatic" /\ has_nvidia) THEN "P5" ELSE "Medium"

(* encoder_preset_options: the Encoding tab offers NVENC's presets only when
   NVENC is selected by name. *)
encoder_preset_options(encoder) ==
  IF encoder = "nvidia" THEN {"P5", "P7"} ELSE {"Medium", "Slow"}

SelectedEncoder ==
  IF selected_video_encoder \in DOMAIN Encoders THEN Encoders[selected_video_encoder] ELSE "automatic"

(* What the job would be asked for: start_job's JobConfiguration without paths *)
Configuration ==
  [fields |-> value, preset |-> content_preset, scene_detection |-> scene_detection,
   gpu_index |-> selected_gpu_index, cuda |-> cuda_inference_enabled,
   encoder |-> SelectedEncoder, encoder_preset |-> encoder_preset,
   h264_profile |-> h264_profile, switches |-> switches]

Init ==
  /\ settings_page = FALSE /\ main_page_tab = "Interpolation" /\ open = {}
  /\ input = InitialValue /\ value = InitialValue
  /\ content_preset = "Movie"
  /\ scene_detection = TRUE /\ scene_detection_overridden = FALSE
  /\ use_uhd_mode = FALSE /\ use_uhd_mode_overridden = FALSE /\ marked_for = NoSource
  /\ selected_gpu_index = 1 /\ selected_video_encoder = 1
  /\ encoder_preset = IF has_nvidia THEN "P5" ELSE "Medium"
  /\ h264_profile = "auto" /\ cuda_inference_enabled = FALSE
  /\ switches = Switches \ {"use_nvdec"}
  /\ input_path \in Sources \cup {NoSource}        \* the first argument, if it is a file
  /\ metadata \in {input_path, NoSource}
  /\ output_path \in {Chosen, IF input_path = NoSource THEN None
                              ELSE default_output_path(input_path, value["target_fps"], TRUE)}
  /\ prompts = {} /\ running = FALSE /\ job = None /\ failed = None

-----------------------------------------------------------------------------
(* A handler asserts on entry and on exit; the first assertion that fails ends
   the program. *)
Handle(handler, entry, Body, exit) ==
  /\ failed = None
  /\ IF entry
     THEN Body /\ failed' = IF exit THEN None ELSE handler
     ELSE failed' = handler /\ UNCHANGED settings

Quiet == failed = None /\ UNCHANGED failed

(* Which of the tabs is drawn *)
Shown(tab) == ~settings_page /\ main_page_tab = tab

(* refresh_default_output, called by three handlers: the new output, and the
   assertion at its end *)
refresh_default_output ==
  output_path' = IF input_path = NoSource THEN output_path
                 ELSE default_output_path(input_path, value'["target_fps"], scene_detection')
refresh_asserts == input_path # NoSource \/ output_path' = None

(* Navigation closes every menu. *)
set_settings_page ==
  /\ Quiet
  /\ settings_page' \in BOOLEAN
  /\ open' = {}
  /\ UNCHANGED <<main_page_tab, fieldVars, pictureVars, selections, switches, paths, prompts, jobVars>>

set_main_page_tab ==
  /\ Quiet /\ ~settings_page
  /\ main_page_tab' \in Tabs
  /\ open' = {}
  /\ UNCHANGED <<settings_page, fieldVars, pictureVars, selections, switches, paths, prompts, jobVars>>

-----------------------------------------------------------------------------
(* Menus. The selectors stay clickable while a job runs. *)

(* The menus that opening or closing a menu closes *)
Closes(menu) ==
  CASE menu = "inference_backend" -> Menus \ {menu}
    [] menu \in {"encoder_preset", "h264_profile"} -> {"encoder_preset", "h264_profile"} \ {menu}
    [] OTHER -> Menus \ {menu, "inference_backend"}

Toggled(menu) == (IF menu \in open THEN open \ {menu} ELSE open \cup {menu}) \ Closes(menu)

(* A GPU or encoder menu needs something to offer. *)
Offers(menu) ==
  /\ menu = "gpu" => GpuCount > 0
  /\ menu = "video_encoder" => Len(Encoders) > 0

ToggleEntry(menu) ==
  CASE menu = "encoder_preset" -> menu \in open \/ ~running
    [] menu = "h264_profile" -> menu \notin open \/ ~running
    [] OTHER -> TRUE

ToggleExit(menu) ==
  CASE menu = "gpu" -> GpuCount > 0 \/ menu \notin open'
    [] menu = "preset" -> menu \notin open' \/ (~running /\ "gpu" \notin open')
    [] menu \in {"encoder_preset", "h264_profile"} ->
         menu \notin open' \/ (~running /\ Closes(menu) \cap open' = {})
    [] OTHER -> menu \notin open' \/ ~running

toggle_menu(menu) ==
  /\ Shown(TabOf[menu])
  /\ Handle(<<"toggle", menu>>, ToggleEntry(menu),
            /\ open' = IF ~running /\ Offers(menu) THEN Toggled(menu) ELSE open
            /\ UNCHANGED <<navigation, fieldVars, pictureVars, selections, switches, paths,
                           prompts, jobVars>>,
            ToggleExit(menu))

(* Selecting an item closes the menu, unless a job runs; then the handler only
   makes its last assertion, that the menu is closed. *)
SelectIn(menu, Choice) ==
  /\ menu \in open
  /\ Handle(<<"select", menu>>, TRUE,
            /\ IF running THEN UNCHANGED <<open, selections>>
               ELSE open' = open \ {menu} /\ Choice
            /\ UNCHANGED <<navigation, fieldVars, pictureVars, switches, paths, prompts, jobVars>>,
            menu \notin open' \/ ~running)

select_gpu == \E g \in 1..GpuCount :
  SelectIn("gpu", /\ selected_gpu_index' = g
                  /\ UNCHANGED <<selected_video_encoder, encoder_preset, h264_profile,
                                 cuda_inference_enabled>>)

select_video_encoder == \E e \in DOMAIN Encoders :
  SelectIn("video_encoder",
           /\ selected_video_encoder' = e
           /\ encoder_preset' = default_encoder_preset(Encoders[e])
           /\ UNCHANGED <<selected_gpu_index, h264_profile, cuda_inference_enabled>>)

select_encoder_preset == \E p \in encoder_preset_options(SelectedEncoder) :
  SelectIn("encoder_preset",
           /\ encoder_preset' = p
           /\ UNCHANGED <<selected_gpu_index, selected_video_encoder, h264_profile,
                          cuda_inference_enabled>>)

select_h264_profile == \E p \in Profiles :
  SelectIn("h264_profile",
           /\ h264_profile' = p
           /\ UNCHANGED <<selected_gpu_index, selected_video_encoder, encoder_preset,
                          cuda_inference_enabled>>)

(* The item for CUDA can be clicked only where CUDA is available. *)
select_inference_backend == \E cuda \in {FALSE, CudaAvailable} :
  SelectIn("inference_backend",
           /\ cuda_inference_enabled' = cuda
           /\ UNCHANGED <<selected_gpu_index, selected_video_encoder, encoder_preset, h264_profile>>)

(* Mutant: the output keeps a name made for the overridden scene setting. *)
select_content_preset_unnamed == \E preset \in {"Movie", "Anime"} :
  /\ Quiet /\ "preset" \in open /\ ~running
  /\ content_preset' = preset
  /\ scene_detection' = TRUE /\ scene_detection_overridden' = FALSE
  /\ use_uhd_mode' = use_uhd_mode_default(preset, metadata) /\ use_uhd_mode_overridden' = FALSE
  /\ marked_for' = NoSource
  /\ open' = open \ {"preset"}
  /\ UNCHANGED <<navigation, fieldVars, selections, switches, paths, prompts, jobVars>>

(* A new preset resets what the user had overridden, and the output's name. *)
select_content_preset == \E preset \in {"Movie", "Anime"} :
  /\ "preset" \in open
  /\ Handle(<<"select", "preset">>, TRUE,
            /\ IF running THEN UNCHANGED <<open, pictureVars, output_path>>
               ELSE /\ content_preset' = preset
                    /\ scene_detection' = TRUE /\ scene_detection_overridden' = FALSE
                    /\ use_uhd_mode' = use_uhd_mode_default(preset, metadata)
                    /\ use_uhd_mode_overridden' = FALSE /\ marked_for' = NoSource
                    /\ open' = open \ {"preset"}
                    /\ UNCHANGED value
                    /\ refresh_default_output
            /\ UNCHANGED <<navigation, fieldVars, selections, switches, input_path, metadata,
                           prompts, jobVars>>,
            /\ running \/ (content_preset' = preset /\ refresh_asserts)
            /\ "preset" \notin open' \/ ~running
            /\ content_preset' # "Anime" \/ scene_detection')

-----------------------------------------------------------------------------
(* Switches and text fields *)

SwitchTab(switch) == IF switch = "use_nvdec" THEN "Hardware" ELSE "Media"

toggle_switch(switch) ==
  /\ Quiet /\ Shown(SwitchTab(switch)) /\ ~running
  /\ switches' = IF switch \in switches THEN switches \ {switch} ELSE switches \cup {switch}
  /\ UNCHANGED <<navigation, open, fieldVars, pictureVars, selections, paths, prompts, jobVars>>

toggle_scene_detection ==
  /\ Shown("Interpolation") /\ ~running /\ content_preset = "Movie"
  /\ Handle(<<"toggle", "scene_detection">>, TRUE,
            /\ scene_detection' = ~scene_detection
            /\ scene_detection_overridden' = scene_detection
            /\ UNCHANGED value
            /\ refresh_default_output
            /\ UNCHANGED <<navigation, open, input, content_preset, use_uhd_mode,
                           use_uhd_mode_overridden, marked_for, selections, switches, input_path,
                           metadata, prompts, jobVars>>,
            refresh_asserts)

toggle_uhd_mode ==
  /\ Quiet /\ Shown("Interpolation") /\ ~running
  /\ use_uhd_mode' = ~use_uhd_mode
  /\ use_uhd_mode_overridden' = (use_uhd_mode' # use_uhd_mode_default(content_preset, metadata))
  /\ marked_for' = IF use_uhd_mode_overridden' THEN metadata ELSE NoSource
  /\ UNCHANGED <<navigation, open, fieldVars, content_preset, scene_detection,
                 scene_detection_overridden, selections, switches, paths, prompts, jobVars>>

FieldTab(field) == IF field = "target_fps" THEN "Interpolation" ELSE "Encoding"

(* One key in a text field: it shows new contents, which become the value when
   they are valid. A new frame rate renames the output. *)
edit(field) == \E contents \in FieldValues[field] \cup {Invalid} :
  /\ Shown(FieldTab(field)) /\ ~running
  /\ LET renames == field = "target_fps" /\ contents # Invalid IN
     Handle(<<"edit", field>>, TRUE,
            /\ input' = [input EXCEPT ![field] = contents]
            /\ value' = IF contents = Invalid THEN value ELSE [value EXCEPT ![field] = contents]
            /\ UNCHANGED <<navigation, open, pictureVars, selections, switches, input_path, metadata,
                           prompts, jobVars>>
            /\ IF renames THEN refresh_default_output ELSE UNCHANGED output_path,
            renames => refresh_asserts)

-----------------------------------------------------------------------------
(* Prompts answer later, on the UI thread, whether or not a job has started. More
   than one of a kind may be open. *)

Answered(prompt) ==
  /\ Quiet /\ prompt \in prompts
  /\ prompts' \in {prompts, prompts \ {prompt}}

select_input ==
  /\ Quiet /\ ~running
  /\ prompts' = prompts \cup {"input"}
  /\ UNCHANGED <<navigation, open, fieldVars, pictureVars, selections, switches, paths, jobVars>>

select_output ==
  /\ Quiet /\ ~running /\ ~settings_page /\ input_path # NoSource
  /\ prompts' = prompts \cup {"output"}
  /\ UNCHANGED <<navigation, open, fieldVars, pictureVars, selections, switches, paths, jobVars>>

(* Mutant: another video keeps the UHD mode of the one before. *)
InputChosen_same_mode == \E path \in Sources :
  /\ Answered("input")
  /\ input_path' = path /\ metadata' = path
  /\ output_path' = default_output_path(path, value["target_fps"], scene_detection)
  /\ UNCHANGED <<navigation, open, fieldVars, pictureVars, selections, switches, jobVars>>

(* A video that cannot be probed is kept as the input, without metadata, and
   leaves the output as it was. *)
InputChosen == \E path \in Sources, probed \in BOOLEAN :
  /\ Answered("input")
  /\ input_path' = path
  /\ metadata' = IF probed THEN path ELSE NoSource
  /\ output_path' = IF probed THEN default_output_path(path, value["target_fps"], scene_detection)
                    ELSE output_path
  /\ use_uhd_mode' = IF use_uhd_mode_overridden THEN use_uhd_mode
                     ELSE probed /\ use_uhd_mode_default(content_preset, path)
  /\ UNCHANGED <<navigation, open, fieldVars, content_preset, scene_detection,
                 scene_detection_overridden, use_uhd_mode_overridden, marked_for, selections, switches,
                 jobVars>>

OutputChosen ==
  /\ Answered("output")
  /\ output_path' = Chosen
  /\ UNCHANGED <<navigation, open, fieldVars, pictureVars, selections, switches, input_path, metadata,
                 jobVars>>

PromptDismissed == \E p \in prompts :
  /\ Answered(p)
  /\ UNCHANGED <<navigation, open, fieldVars, pictureVars, selections, switches, paths, jobVars>>

-----------------------------------------------------------------------------
(* Mutant: only the frame rate is read again. *)
MayStart_rate_only ==
  /\ input["target_fps"] # Invalid
  /\ input_path # NoSource /\ output_path # None
  /\ GpuCount > 0 /\ selected_video_encoder \in DOMAIN Encoders

(* start_job reads the fields again and refuses what is not valid. *)
MayStart ==
  /\ \A f \in Fields : input[f] # Invalid
  /\ input_path # NoSource /\ output_path # None
  /\ GpuCount > 0 /\ selected_video_encoder \in DOMAIN Encoders

(* Mutant: the menu of content presets stays open too. *)
start_job_preset_open ==
  /\ Quiet /\ ~running /\ MayStart
  /\ running' = TRUE /\ job' = <<Configuration>>
  /\ open' = open \cap {"inference_backend", "preset"}
  /\ UNCHANGED <<navigation, fieldVars, pictureVars, selections, switches, paths, prompts>>

(* A job closes every menu but that of the inference backends. *)
start_job ==
  /\ Quiet /\ ~running /\ MayStart
  /\ value' = [value EXCEPT !["target_fps"] = input["target_fps"]]
  /\ running' = TRUE
  /\ open' = open \cap {"inference_backend"}
  /\ UNCHANGED <<navigation, input, pictureVars, selections, switches, paths, prompts>>
  /\ job' = <<Configuration'>>

JobEnds ==
  /\ Quiet /\ running
  /\ running' = FALSE /\ job' = None
  /\ UNCHANGED <<navigation, open, fieldVars, pictureVars, selections, switches, paths, prompts>>

(* A failed assertion is the end of the program. *)
Panicked == failed # None /\ UNCHANGED vars

Next ==
  \/ set_settings_page \/ set_main_page_tab
  \/ \E menu \in Menus : toggle_menu(menu)
  \/ select_gpu \/ select_video_encoder \/ select_encoder_preset \/ select_h264_profile
  \/ select_inference_backend \/ select_content_preset
  \/ \E switch \in Switches : toggle_switch(switch)
  \/ toggle_scene_detection \/ toggle_uhd_mode
  \/ \E field \in Fields : edit(field)
  \/ select_input \/ select_output \/ InputChosen \/ OutputChosen \/ PromptDismissed
  \/ start_job \/ JobEnds
  \/ Panicked

Spec == Init /\ [][Next]_vars

-----------------------------------------------------------------------------
(* Properties *)

(* The assertion toggle_encoder_preset_menu makes first, that a job does not run
   unless the menu is open, holds at every click on the preset selector. *)
PresetMenuAssertionHolds == failed # <<"toggle", "encoder_preset">>

(* The other places where an assertion can fail: the menu of inference backends
   is the one start_job leaves open, and an output given without a source meets
   the assertion of refresh_default_output. *)
KnownFailures ==
  {<<"toggle", "encoder_preset">>, <<"toggle", "inference_backend">>,
   <<"select", "inference_backend">>}
  \cup IF input_path = NoSource /\ output_path # None
       THEN {<<"select", "preset">>, <<"toggle", "scene_detection">>, <<"edit", "target_fps">>}
       ELSE {}

(* Every other assertion of a handler holds, whatever the user clicks and in
   whatever order: menus of a tab exclude each other, no menu stays open while a
   job runs, Anime has scene protection. *)
OtherAssertionsHold == failed \in KnownFailures \cup {None}

(* "Modified" next to the preset's name: scene protection is marked exactly when
   it is switched off.  The UHD mode is marked exactly when it differs from the
   default: without a mark, from the default for the video that is shown; with one,
   from the default for the video that was shown when the user switched it.  (The
   mark is kept over a later choice of a video, which it may not be true of.) *)
OverridesTruthful ==
  /\ scene_detection_overridden <=> ~scene_detection
  /\ LET source == IF use_uhd_mode_overridden THEN marked_for ELSE metadata
     IN use_uhd_mode_overridden <=> use_uhd_mode # use_uhd_mode_default(content_preset, source)

(* The output shown for a source that was probed is one the user chose, or is
   named after that source, the frame rate and the scene setting that are shown;
   so a job never writes under a name made for another source or rate. *)
OutputFollowsInput ==
  metadata # NoSource =>
    output_path \in {Chosen, default_output_path(input_path, value["target_fps"], scene_detection)}

(* The settings on the screen are those of the job that runs, and the fields show
   the values it was started with; only source, output and UHD mode may be
   changed under it, by a prompt that was open before. *)
JobMatchesDisplay == running => job = <<Configuration>> /\ input = value

=============================================================================
