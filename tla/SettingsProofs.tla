---------------------------- MODULE SettingsProofs ----------------------------
(***************************************************************************)
(* Theorems about the settings, for every set of videos, fields, encoders  *)
(* and GPUs: what the screen shows is what the job was started with, and   *)
(* the assertions of the handlers hold but for those that KnownFailures    *)
(* lists.                                                                  *)
(***************************************************************************)
EXTENDS Settings, TLAPS

-----------------------------------------------------------------------------
(* The inductive invariant *)

TypeOK ==
  /\ settings_page \in BOOLEAN /\ main_page_tab \in Tabs
  /\ open \subseteq Menus
  /\ input \in [Fields -> Contents \cup {Invalid}]
  /\ value \in [Fields -> Contents]
  /\ content_preset \in {"Movie", "Anime"}
  /\ scene_detection \in BOOLEAN /\ use_uhd_mode \in BOOLEAN
  /\ running \in BOOLEAN

(* A text field that shows something valid shows its value. *)
FieldsAgree == \A f \in Fields : input[f] # Invalid => input[f] = value[f]

(* Metadata are those of the input. *)
MetadataOfInput == metadata # NoSource => metadata = input_path

(* A job closes every menu but one, and the menu of GPUs has something to offer. *)
MenusFit ==
  /\ running => open \subseteq {"inference_backend"}
  /\ "gpu" \in open => GpuCount > 0

SettingsInv ==
  /\ TypeOK /\ FieldsAgree /\ MetadataOfInput /\ MenusFit
  /\ OverridesTruthful /\ OutputFollowsInput /\ JobMatchesDisplay /\ OtherAssertionsHold

-----------------------------------------------------------------------------
(* What each handler leaves alone *)

pictures == <<pictureVars, metadata>>
displayed == <<content_preset, scene_detection, selections, switches>>

Selects ==
  \/ select_gpu \/ select_video_encoder \/ select_encoder_preset \/ select_h264_profile
  \/ select_inference_backend

ChangesPicture ==
  \/ select_content_preset \/ toggle_scene_detection \/ toggle_uhd_mode \/ InputChosen

ChangesOutput ==
  \/ select_content_preset \/ toggle_scene_detection \/ InputChosen \/ OutputChosen
  \/ (\E field \in Fields : edit(field)) \/ start_job

ChangesField == (\E field \in Fields : edit(field)) \/ start_job

ChangesMenus ==
  \/ (\E menu \in Menus : toggle_menu(menu)) \/ Selects \/ select_content_preset \/ start_job

(* A selection closes its menu, unless a job runs. *)
LEMMA SelectionStep ==
  ASSUME Selects
  PROVE  /\ UNCHANGED <<navigation, fieldVars, pictureVars, switches, paths, prompts, jobVars>>
         /\ running => UNCHANGED selections
         /\ open' = open \/ (~running /\ \E menu \in Menus : open' = open \ {menu})
         /\ failed = None
         /\ \E menu \in Menus : /\ menu \in open
                                /\ failed' = IF menu \notin open' \/ ~running THEN None
                                             ELSE <<"select", menu>>
  BY DEF Selects, select_gpu, select_video_encoder, select_encoder_preset, select_h264_profile,
     select_inference_backend, SelectIn, Handle, settings, Menus, TabOf

LEMMA ToggleStep ==
  ASSUME NEW menu \in Menus, toggle_menu(menu)
  PROVE  UNCHANGED <<navigation, fieldVars, pictureVars, selections, switches, paths, prompts, jobVars>>
  BY DEF toggle_menu, Handle, settings

LEMMA EditStep ==
  ASSUME NEW field \in Fields, edit(field)
  PROVE  /\ UNCHANGED <<navigation, open, pictureVars, selections, switches, input_path, metadata,
                        prompts, jobVars>>
         /\ ~running
         /\ \E contents \in FieldValues[field] \cup {Invalid} :
              /\ input' = [input EXCEPT ![field] = contents]
              /\ value' = IF contents = Invalid THEN value ELSE [value EXCEPT ![field] = contents]
              /\ IF field = "target_fps" /\ contents # Invalid THEN refresh_default_output
                                                              ELSE UNCHANGED output_path
              /\ failed' \in {None, <<"edit", field>>}
              /\ failed' = None \/ (field = "target_fps" /\ ~refresh_asserts)
  BY DEF edit, Handle

LEMMA PresetStep ==
  ASSUME select_content_preset
  PROVE  /\ UNCHANGED <<navigation, fieldVars, selections, switches, input_path, metadata, prompts,
                        jobVars>>
         /\ "preset" \in open
         /\ \/ running /\ UNCHANGED <<open, pictureVars, output_path>>
            \/ /\ ~running /\ open' = open \ {"preset"}
               /\ content_preset' \in {"Movie", "Anime"}
               /\ scene_detection' = TRUE /\ scene_detection_overridden' = FALSE
               /\ use_uhd_mode' = use_uhd_mode_default(content_preset', metadata)
               /\ use_uhd_mode_overridden' = FALSE
               /\ refresh_default_output
               /\ failed' \in {None, <<"select", "preset">>}
               /\ failed' = None \/ ~refresh_asserts
  BY DEF select_content_preset, Handle, fieldVars

LEMMA SceneStep ==
  ASSUME toggle_scene_detection
  PROVE  /\ UNCHANGED <<navigation, open, fieldVars, content_preset, use_uhd_mode,
                        use_uhd_mode_overridden, marked_for, selections, switches, input_path,
                        metadata, prompts, jobVars>>
         /\ ~running
         /\ scene_detection' = ~scene_detection /\ scene_detection_overridden' = scene_detection
         /\ refresh_default_output
         /\ failed' \in {None, <<"toggle", "scene_detection">>}
         /\ failed' = None \/ ~refresh_asserts
  BY DEF toggle_scene_detection, Handle, fieldVars

(* What no other handler touches *)
LEMMA HandlersKeep ==
  ASSUME Next
  PROVE  /\ ChangesPicture \/ UNCHANGED pictures
         /\ ChangesField \/ UNCHANGED fieldVars
         /\ ChangesOutput \/ (UNCHANGED <<fieldVars, scene_detection, metadata, input_path, output_path>>)
         /\ \/ ChangesMenus
            \/ UNCHANGED open /\ (running' = running \/ running' = FALSE)
            \/ UNCHANGED running /\ open' = {}
<1> USE DEF pictures, ChangesPicture, ChangesField, ChangesOutput, ChangesMenus,
     navigation, pictureVars, fieldVars, paths, jobVars, settings, vars
<1>1. CASE Selects
  BY <1>1, SelectionStep
<1>2. CASE \E menu \in Menus : toggle_menu(menu)
  BY <1>2, ToggleStep
<1>3. CASE \E field \in Fields : edit(field)
  BY <1>3, EditStep
<1>4. CASE select_content_preset
  BY <1>4, PresetStep
<1>5. CASE toggle_scene_detection
  BY <1>5, SceneStep
<1>6. CASE set_settings_page \/ set_main_page_tab \/ \E switch \in Switches : toggle_switch(switch)
  BY <1>6 DEF set_settings_page, set_main_page_tab, toggle_switch
<1>7. CASE toggle_uhd_mode \/ select_input \/ select_output
  BY <1>7 DEF toggle_uhd_mode, select_input, select_output
<1>8. CASE InputChosen \/ OutputChosen \/ PromptDismissed
  BY <1>8 DEF InputChosen, OutputChosen, PromptDismissed
<1>9. CASE start_job \/ JobEnds \/ Panicked
  BY <1>9 DEF start_job, JobEnds, Panicked
<1> QED
  BY <1>1, <1>2, <1>3, <1>4, <1>5, <1>6, <1>7, <1>8, <1>9 DEF Next, Selects

-----------------------------------------------------------------------------
(* Steps *)

LEMMA FieldsStep ==
  ASSUME SettingsAssumption, SettingsInv, Next
  PROVE  /\ input' \in [Fields -> Contents \cup {Invalid}]
         /\ value' \in [Fields -> Contents]
         /\ FieldsAgree'
<1>0. input \in [Fields -> Contents \cup {Invalid}] /\ value \in [Fields -> Contents] /\ FieldsAgree
  BY DEF SettingsInv, TypeOK
<1>1. CASE \E field \in Fields : edit(field)
  <2>0. PICK field \in Fields : edit(field)
    BY <1>1
  <2>1. PICK contents \in FieldValues[field] \cup {Invalid} :
          /\ input' = [input EXCEPT ![field] = contents]
          /\ value' = IF contents = Invalid THEN value ELSE [value EXCEPT ![field] = contents]
    BY <2>0, EditStep
  <2>2. contents # Invalid => contents \in Contents
    BY DEF Contents
  <2> QED
    BY <1>0, <2>1, <2>2 DEF FieldsAgree
<1>2. CASE start_job
  <2>1. input' = input /\ value' = [value EXCEPT !["target_fps"] = input["target_fps"]]
    BY <1>2 DEF start_job
  <2>2. input["target_fps"] # Invalid /\ "target_fps" \in Fields
    BY <1>2 DEF start_job, MayStart, SettingsAssumption
  <2> QED
    BY <1>0, <2>1, <2>2 DEF FieldsAgree
<1>3. CASE UNCHANGED fieldVars
  BY <1>0, <1>3 DEF fieldVars, FieldsAgree
<1> QED
  BY <1>1, <1>2, <1>3, HandlersKeep DEF ChangesField

(* start_job reads the frame rate that is shown, which is the value already. *)
LEMMA StartKeepsValue ==
  ASSUME SettingsAssumption, SettingsInv, start_job
  PROVE  value' = value /\ input = value
<1>1. value \in [Fields -> Contents] /\ input \in [Fields -> Contents \cup {Invalid}] /\ FieldsAgree
  BY DEF SettingsInv, TypeOK
<1>2. \A f \in Fields : input[f] = value[f]
  BY <1>1 DEF start_job, MayStart, FieldsAgree
<1>3. value' = [value EXCEPT !["target_fps"] = value["target_fps"]]
  BY <1>2 DEF start_job, SettingsAssumption
<1> QED
  BY <1>1, <1>2, <1>3

LEMMA PictureStep ==
  ASSUME SettingsAssumption, SettingsInv, Next
  PROVE  /\ content_preset' \in {"Movie", "Anime"}
         /\ scene_detection' \in BOOLEAN /\ use_uhd_mode' \in BOOLEAN
         /\ OverridesTruthful'
<1> DEFINE Default(preset, source) == use_uhd_mode_default(preset, source)
           MarkTrue == use_uhd_mode_overridden
                         <=> use_uhd_mode # Default(content_preset, IF use_uhd_mode_overridden
                                                                    THEN marked_for ELSE metadata)
<1>0. /\ content_preset \in {"Movie", "Anime"}
      /\ scene_detection \in BOOLEAN /\ use_uhd_mode \in BOOLEAN
      /\ scene_detection_overridden <=> ~scene_detection
      /\ MarkTrue
  BY DEF SettingsInv, TypeOK, OverridesTruthful
<1>a. \A preset, source : Default(preset, source) \in BOOLEAN
  BY DEF use_uhd_mode_default
<1>b. SUFFICES /\ content_preset' \in {"Movie", "Anime"}
               /\ scene_detection' \in BOOLEAN /\ use_uhd_mode' \in BOOLEAN
               /\ scene_detection_overridden' <=> ~scene_detection'
               /\ MarkTrue'
  BY DEF OverridesTruthful, use_uhd_mode_default
<1> HIDE DEF Default
<1>1. CASE select_content_preset
  <2>1. CASE UNCHANGED <<pictureVars, metadata>>
    BY <1>0, <2>1 DEF pictureVars
  <2>2. CASE ~UNCHANGED <<pictureVars, metadata>>
    <3>1. /\ content_preset' \in {"Movie", "Anime"}
          /\ scene_detection' = TRUE /\ scene_detection_overridden' = FALSE
          /\ use_uhd_mode' = Default(content_preset', metadata)
          /\ use_uhd_mode_overridden' = FALSE /\ metadata' = metadata
      BY <1>1, <2>2, PresetStep DEF Default
    <3>2. use_uhd_mode' = Default(content_preset', metadata')
      BY <3>1
    <3> QED
      BY <1>a, <3>1, <3>2
  <2> QED
    BY <2>1, <2>2
<1>2. CASE toggle_scene_detection
  <2>1. /\ UNCHANGED <<content_preset, use_uhd_mode, use_uhd_mode_overridden, marked_for, metadata>>
        /\ scene_detection' = ~scene_detection /\ scene_detection_overridden' = scene_detection
    BY <1>2, SceneStep
  <2> QED
    BY <1>0, <2>1
<1>3. CASE toggle_uhd_mode
  <2>1. /\ use_uhd_mode' = ~use_uhd_mode
        /\ use_uhd_mode_overridden' = (use_uhd_mode' # Default(content_preset, metadata))
        /\ use_uhd_mode_overridden' => marked_for' = metadata
        /\ UNCHANGED <<content_preset, scene_detection, scene_detection_overridden, metadata>>
    BY <1>3 DEF toggle_uhd_mode, paths, Default
  <2>2. Default(content_preset', IF use_uhd_mode_overridden' THEN marked_for' ELSE metadata')
          = Default(content_preset, metadata)
    BY <2>1
  <2>3. use_uhd_mode_overridden' <=> use_uhd_mode' # Default(content_preset, metadata)
    BY <2>1
  <2>4. MarkTrue'
    BY <2>2, <2>3, Zenon
  <2> QED
    BY <1>0, <2>1, <2>4
<1>4. CASE InputChosen
  <2>1. /\ UNCHANGED <<content_preset, scene_detection, scene_detection_overridden,
                       use_uhd_mode_overridden, marked_for>>
        /\ use_uhd_mode_overridden => use_uhd_mode' = use_uhd_mode
        /\ ~use_uhd_mode_overridden => use_uhd_mode' = Default(content_preset, metadata')
    BY <1>4 DEF InputChosen, SettingsAssumption, Default, use_uhd_mode_default
  <2>2. use_uhd_mode' \in BOOLEAN
    BY <1>0, <1>a, <2>1
  <2>3. MarkTrue'
    <3>1. CASE use_uhd_mode_overridden
      BY <1>0, <2>1, <3>1
    <3>2. CASE ~use_uhd_mode_overridden
      BY <2>1, <3>2
    <3> QED
      BY <3>1, <3>2
  <2> QED
    BY <1>0, <2>1, <2>2, <2>3
<1>5. CASE UNCHANGED pictures
  BY <1>0, <1>5 DEF pictures, pictureVars
<1> QED
  BY <1>1, <1>2, <1>3, <1>4, <1>5, HandlersKeep DEF ChangesPicture

LEMMA OutputStep ==
  ASSUME SettingsAssumption, SettingsInv, Next
  PROVE  MetadataOfInput' /\ OutputFollowsInput'
<1>0. MetadataOfInput /\ OutputFollowsInput
  BY DEF SettingsInv
<1> USE DEF MetadataOfInput, OutputFollowsInput, paths, pictureVars, fieldVars, jobVars
<1>1. CASE select_content_preset
  BY <1>0, <1>1, PresetStep DEF refresh_default_output
<1>2. CASE toggle_scene_detection
  BY <1>0, <1>2, SceneStep DEF refresh_default_output
<1>3. CASE InputChosen \/ OutputChosen
  BY <1>0, <1>3 DEF InputChosen, OutputChosen
<1>4. CASE start_job
  BY <1>0, <1>4, StartKeepsValue DEF start_job
<1>5. CASE \E field \in Fields : edit(field)
  <2>0. PICK field \in Fields : edit(field)
    BY <1>5
  <2>1. PICK contents \in FieldValues[field] \cup {Invalid} :
          /\ UNCHANGED <<input_path, metadata, scene_detection>>
          /\ value' = IF contents = Invalid THEN value ELSE [value EXCEPT ![field] = contents]
          /\ IF field = "target_fps" /\ contents # Invalid THEN refresh_default_output
                                                          ELSE UNCHANGED output_path
    BY <2>0, EditStep DEF pictureVars
  <2>2. CASE field = "target_fps" /\ contents # Invalid
    BY <1>0, <2>1, <2>2 DEF refresh_default_output
  <2>3. CASE ~(field = "target_fps" /\ contents # Invalid)
    <3>1. value'["target_fps"] = value["target_fps"]
      BY <2>1, <2>3 DEF SettingsInv, TypeOK, SettingsAssumption
    <3> QED
      BY <1>0, <2>1, <2>3, <3>1
  <2> QED
    BY <2>2, <2>3
<1>6. CASE UNCHANGED <<fieldVars, scene_detection, metadata, input_path, output_path>>
  BY <1>0, <1>6
<1> QED
  BY <1>1, <1>2, <1>3, <1>4, <1>5, <1>6, HandlersKeep DEF ChangesOutput

LEMMA MenusStep ==
  ASSUME SettingsAssumption, SettingsInv, Next
  PROVE  open' \subseteq Menus /\ running' \in BOOLEAN /\ MenusFit'
<1>0. open \subseteq Menus /\ running \in BOOLEAN /\ MenusFit
  BY DEF SettingsInv, TypeOK
<1> USE DEF MenusFit, jobVars
<1>1. CASE Selects
  BY <1>0, <1>1, SelectionStep
<1>2. CASE select_content_preset
  <2>1. running' = running /\ (open' = open \/ open' = open \ {"preset"})
    BY <1>2, PresetStep
  <2> QED
    BY <1>0, <2>1
<1>3. CASE start_job
  BY <1>0, <1>3 DEF start_job
<1>4. ASSUME NEW menu \in Menus, toggle_menu(menu)
      PROVE  open' \subseteq Menus /\ running' \in BOOLEAN /\ MenusFit'
  <2>1. running' = running
    BY <1>4, ToggleStep
  <2>2. open' = open \/ (~running /\ Offers(menu) /\ open' = Toggled(menu))
    BY <1>4 DEF toggle_menu, Handle, settings
  <2>3. Toggled(menu) \subseteq open \cup {menu}
    BY DEF Toggled
  <2>4. "gpu" \in open' => GpuCount > 0
    BY <1>0, <2>2, <2>3 DEF Offers
  <2> QED
    BY <1>0, <2>1, <2>2, <2>3, <2>4
<1>5. CASE UNCHANGED open /\ (running' = running \/ running' = FALSE)
  <2>1. CASE running' = FALSE
    BY <1>0, <1>5, <2>1
  <2>2. CASE running' = running
    BY <1>0, <1>5, <2>2
  <2> QED
    BY <1>5, <2>1, <2>2
<1>6. CASE UNCHANGED running /\ open' = {}
  BY <1>0, <1>6
<1> QED
  BY <1>1, <1>2, <1>3, <1>4, <1>5, <1>6, HandlersKeep DEF ChangesMenus

(* While a job runs, nothing that it was started with changes. *)
LEMMA RunningKeeps ==
  ASSUME SettingsInv, Next, ~start_job, running'
  PROVE  running /\ UNCHANGED <<jobVars, fieldVars, displayed>>
<1> USE DEF jobVars, fieldVars, displayed, pictureVars, settings, vars
<1>0. running => open \subseteq {"inference_backend"}
  BY DEF SettingsInv, MenusFit
<1>1. CASE Selects
  BY <1>1, SelectionStep
<1>2. CASE select_content_preset
  BY <1>0, <1>2, PresetStep
<1>3. CASE toggle_scene_detection
  BY <1>3, SceneStep
<1>4. CASE (\E menu \in Menus : toggle_menu(menu)) \/ (\E field \in Fields : edit(field))
  BY <1>4, ToggleStep, EditStep
<1>5. CASE set_settings_page \/ set_main_page_tab \/ \E switch \in Switches : toggle_switch(switch)
  BY <1>5 DEF set_settings_page, set_main_page_tab, toggle_switch
<1>6. CASE toggle_uhd_mode \/ select_input \/ select_output
  BY <1>6 DEF toggle_uhd_mode, select_input, select_output
<1>7. CASE InputChosen \/ OutputChosen \/ PromptDismissed
  BY <1>7 DEF InputChosen, OutputChosen, PromptDismissed
<1>8. CASE JobEnds \/ Panicked
  BY <1>8 DEF JobEnds, Panicked
<1> QED
  BY <1>1, <1>2, <1>3, <1>4, <1>5, <1>6, <1>7, <1>8 DEF Next, Selects

LEMMA JobStep ==
  ASSUME SettingsAssumption, SettingsInv, Next
  PROVE  JobMatchesDisplay'
<1>0. JobMatchesDisplay
  BY DEF SettingsInv
<1>1. CASE start_job
  <2>1. input' = input /\ value' = value /\ input = value /\ job' = <<Configuration'>>
    BY <1>1, StartKeepsValue DEF start_job
  <2> QED
    BY <2>1 DEF JobMatchesDisplay
<1>2. CASE ~running' /\ ~start_job
  BY <1>2 DEF JobMatchesDisplay
<1>3. CASE running' /\ ~start_job
  <2>1. running /\ UNCHANGED <<jobVars, fieldVars, displayed>>
    BY <1>3, RunningKeeps
  <2> QED
    BY <1>0, <2>1 DEF JobMatchesDisplay, Configuration, SelectedEncoder, displayed, selections,
          fieldVars, jobVars
<1> QED
  BY <1>1, <1>2, <1>3

(* Each assertion of a handler holds, or is one of those known to fail. *)
LEMMA AssertionStep ==
  ASSUME SettingsAssumption, SettingsInv, Next
  PROVE  OtherAssertionsHold'
<1>0. OtherAssertionsHold /\ MenusFit /\ open \subseteq Menus /\ running \in BOOLEAN
  BY DEF SettingsInv, TypeOK
<1> USE DEF OtherAssertionsHold, KnownFailures
<1>1. CASE Selects
  <2>1. PICK menu \in Menus : /\ menu \in open
                              /\ failed' = IF menu \notin open' \/ ~running THEN None
                                           ELSE <<"select", menu>>
    BY <1>1, SelectionStep
  <2>2. running => menu = "inference_backend"
    BY <1>0, <2>1 DEF MenusFit
  <2> QED
    BY <2>1, <2>2
<1>2. ASSUME NEW menu \in Menus, toggle_menu(menu) PROVE OtherAssertionsHold'
  <2>1. ToggleEntry(menu) \/ menu = "encoder_preset"
    BY <1>0 DEF MenusFit, ToggleEntry
  <2>2. CASE ~ToggleEntry(menu)
    BY <1>2, <2>1, <2>2 DEF toggle_menu, Handle
  <2>3. CASE ToggleEntry(menu)
    <3>1. /\ open' = IF ~running /\ Offers(menu) THEN Toggled(menu) ELSE open
          /\ failed' = IF ToggleExit(menu) THEN None ELSE <<"toggle", menu>>
      BY <1>2, <2>3 DEF toggle_menu, Handle
    <3>2. ToggleExit(menu) \/ menu \in {"encoder_preset", "inference_backend"}
      <4>1. CASE running
        BY <1>0, <3>1, <4>1 DEF ToggleExit, MenusFit, Closes, Menus, TabOf
      <4>2. CASE ~running /\ Offers(menu)
        BY <1>0, <3>1, <4>2 DEF ToggleExit, MenusFit, Closes, Toggled, Offers, Menus, TabOf
      <4>3. CASE ~running /\ ~Offers(menu)
        BY <1>0, <3>1, <4>3 DEF ToggleExit, MenusFit, Closes, Offers, Menus, TabOf
      <4> QED
        BY <4>1, <4>2, <4>3
    <3> QED
      BY <3>1, <3>2
  <2> QED
    BY <2>2, <2>3
<1>3. CASE select_content_preset
  <2>1. ~running
    BY <1>0, <1>3, PresetStep DEF MenusFit
  <2> QED
    BY <2>1, <1>3, PresetStep DEF refresh_asserts
<1>4. CASE toggle_scene_detection
  BY <1>4, SceneStep DEF refresh_asserts
<1>5. CASE \E field \in Fields : edit(field)
  BY <1>5, EditStep DEF refresh_asserts
<1>6. CASE failed' = None
  BY <1>6
<1>7. CASE UNCHANGED vars
  BY <1>0, <1>7 DEF vars, settings, paths
<1> QED
  BY <1>1, <1>2, <1>3, <1>4, <1>5, <1>6, <1>7 DEF Next, Selects, Quiet, Panicked, Answered,
     set_settings_page, set_main_page_tab, toggle_switch, toggle_uhd_mode, select_input, select_output,
     InputChosen, OutputChosen, PromptDismissed, start_job, JobEnds

LEMMA NavigationStep ==
  ASSUME SettingsInv, Next
  PROVE  settings_page' \in BOOLEAN /\ main_page_tab' \in Tabs
<1> USE DEF navigation, settings, vars
<1>0. settings_page \in BOOLEAN /\ main_page_tab \in Tabs
  BY DEF SettingsInv, TypeOK
<1>1. CASE set_settings_page \/ set_main_page_tab
  BY <1>0, <1>1 DEF set_settings_page, set_main_page_tab
<1>2. CASE Selects \/ select_content_preset \/ toggle_scene_detection
  BY <1>0, <1>2, SelectionStep, PresetStep, SceneStep
<1>3. CASE (\E menu \in Menus : toggle_menu(menu)) \/ (\E field \in Fields : edit(field))
  BY <1>0, <1>3, ToggleStep, EditStep
<1>4. CASE \/ \E switch \in Switches : toggle_switch(switch)
           \/ toggle_uhd_mode \/ select_input \/ select_output
           \/ InputChosen \/ OutputChosen \/ PromptDismissed
  BY <1>0, <1>4 DEF toggle_switch, toggle_uhd_mode, select_input, select_output, InputChosen,
     OutputChosen, PromptDismissed
<1>5. CASE start_job \/ JobEnds \/ Panicked
  BY <1>0, <1>5 DEF start_job, JobEnds, Panicked
<1> QED
  BY <1>1, <1>2, <1>3, <1>4, <1>5 DEF Next, Selects

-----------------------------------------------------------------------------
(* Theorems *)

(* The inductive invariant of the settings. *)
THEOREM SettingsCorrect == Spec => []SettingsInv
<1>1. Init => SettingsInv
  <2> SUFFICES ASSUME Init PROVE SettingsInv
    OBVIOUS
  <2>1. TypeOK /\ FieldsAgree /\ MetadataOfInput /\ MenusFit
    BY SettingsAssumption DEF Init, TypeOK, FieldsAgree, MetadataOfInput, MenusFit, Tabs
  <2>2. OverridesTruthful
    BY DEF Init, OverridesTruthful, use_uhd_mode_default
  <2>3. OutputFollowsInput
    BY DEF Init, OutputFollowsInput
  <2>4. JobMatchesDisplay /\ OtherAssertionsHold
    BY DEF Init, JobMatchesDisplay, OtherAssertionsHold
  <2> QED
    BY <2>1, <2>2, <2>3, <2>4 DEF SettingsInv
<1>2. SettingsInv /\ [Next]_vars => SettingsInv'
  <2> SUFFICES ASSUME SettingsInv, [Next]_vars PROVE SettingsInv'
    OBVIOUS
  <2>1. CASE Next
    BY <2>1, SettingsAssumption, FieldsStep, PictureStep, OutputStep, MenusStep, JobStep,
       AssertionStep, NavigationStep
    DEF SettingsInv, TypeOK
  <2>2. CASE UNCHANGED vars
    BY <2>2 DEF vars, settings, navigation, fieldVars, pictureVars, selections, paths, jobVars,
       SettingsInv, TypeOK, FieldsAgree, MetadataOfInput, MenusFit, OverridesTruthful,
       OutputFollowsInput, JobMatchesDisplay, OtherAssertionsHold, KnownFailures, Configuration,
       SelectedEncoder
  <2> QED
    BY <2>1, <2>2
<1> QED
  BY <1>1, <1>2, PTL DEF Spec

(* Whichever way preset, source and switches were changed, settings that are not
   marked as modified are those that preset and source give, and a mark was true of
   the source it was made for. *)
THEOREM OverridesAreTruthful == Spec => []OverridesTruthful
BY SettingsCorrect, PTL DEF SettingsInv

(* The output shown for a source that was probed is one the user chose, or is
   named after that source and the settings shown. *)
THEOREM OutputIsOfInput == Spec => []OutputFollowsInput
BY SettingsCorrect, PTL DEF SettingsInv

(* The settings on the screen are those of the job that runs. *)
THEOREM DisplayIsOfJob == Spec => []JobMatchesDisplay
BY SettingsCorrect, PTL DEF SettingsInv

(* No assertion of a handler fails but those that KnownFailures lists. *)
THEOREM AssertionsHold == Spec => []OtherAssertionsHold
BY SettingsCorrect, PTL DEF SettingsInv
=============================================================================
