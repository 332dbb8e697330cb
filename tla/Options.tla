------------------------------ MODULE Options ------------------------------
(***************************************************************************)
(* The command line of the client (cli.c): how an argument changes the     *)
(* options, and parse_args_with_getopt() once every argument is read,      *)
(* which completes the options or refuses them.                            *)
(*                                                                         *)
(* An argument is a pair of an option and a value.  The names of options,  *)
(* of values and of fields are those of the code; a field that nothing     *)
(* here tells apart from another is left out (titles, encoders, sizes...). *)
(* The build has USB and V4L2.                                             *)
(***************************************************************************)
EXTENDS Integers, Sequences, FiniteSets

None == "none"
MaxInt31 == 2147483647

-----------------------------------------------------------------------------
(* The values of the options that are names.                                *)
Keyboards == {"disabled", "sdk", "uhid", "aoa"}
Mice == {"disabled", "sdk", "uhid", "aoa"}
Gamepads == {"disabled", "uhid", "aoa"}
Orientations == 0 .. 7
Policies == {"local", "fallback", "hide"}
RecordFormats == {"mp4", "mkv", "m4a", "mka", "opus", "aac", "flac", "wav"}
VideoCodecs == {"h264", "h265", "av1", "vp8", "vp9"}
AudioCodecs == {"opus", "aac", "flac", "raw"}
VideoSources == {"display", "camera"}
AudioSources == {"mic", "output", "playback", "mic-unprocessed", "mic-camcorder",
                 "mic-voice-recognition", "mic-voice-communication", "voice-call",
                 "voice-call-uplink", "voice-call-downlink", "voice-performance"}
Facings == {"any", "front", "back", "external"}
Fits == {"letterbox", "stretched", "unscaled"}
KeyInjectModes == {"mixed", "text", "raw"}

Choices ==
    [keyboard_input_mode |-> Keyboards, mouse_input_mode |-> Mice,
     gamepad_input_mode |-> Gamepads, display_orientation |-> Orientations,
     record_orientation |-> Orientations, display_ime_policy |-> Policies,
     record_format |-> RecordFormats, video_codec |-> VideoCodecs,
     audio_codec |-> AudioCodecs, video_source |-> VideoSources,
     audio_source |-> AudioSources, camera_facing |-> Facings, render_fit |-> Fits]

(* The options that are numbers, and what parse_integer_arg() accepts:      *)
(* buffering times and timeouts in the unit of the command line.           *)
BufferingTime == <<0, 60 * 60 * 1000>>
OutputBuffer == <<0, 1000>>
MaxSize == <<0, 65535>>
WindowDimension == <<0, 65535>>
DisplayId == <<0, MaxInt31>>
Port == <<0, 65535>>
CameraFps == <<0, 65535>>
TimeLimit == <<0, MaxInt31>>
ScreenOffTimeout == <<0, MaxInt31 \div 1000>>

Limits ==
    [display_id |-> DisplayId, audio_buffer |-> BufferingTime,
     video_buffer |-> BufferingTime, v4l2_buffer |-> BufferingTime,
     audio_output_buffer |-> OutputBuffer, max_size |-> MaxSize,
     window_width |-> WindowDimension, camera_fps |-> CameraFps,
     tunnel_port |-> Port, time_limit |-> TimeLimit,
     screen_off_timeout |-> ScreenOffTimeout]

(* The cases of the loop that only assign, in the order of the code: the    *)
(* options without a value, or with one that is kept as it is.             *)
CasesToStayAwake ==
    [crop |-> [crop |-> TRUE], d |-> [select_usb |-> TRUE],
     e |-> [select_tcpip |-> TRUE],
     K |-> [keyboard_input_mode |-> "uhid_or_aoa"],
     M |-> [mouse_input_mode |-> "uhid_or_aoa"],
     no_mouse_hover |-> [mouse_hover |-> FALSE],
     tunnel_host |-> [tunnel_host |-> TRUE], n |-> [control |-> FALSE],
     N |-> [video_playback |-> FALSE, audio_playback |-> FALSE],
     no_video_playback |-> [video_playback |-> FALSE],
     no_audio_playback |-> [audio_playback |-> FALSE],
     serial |-> [serial |-> TRUE], S |-> [turn_screen_off |-> TRUE],
     t |-> [show_touches |-> TRUE], w |-> [stay_awake |-> TRUE]]

CasesToPrintFps ==
    [no_key_repeat |-> [forward_key_repeat |-> FALSE],
     force_adb_forward |-> [force_adb_forward |-> TRUE],
     legacy_paste |-> [legacy_paste |-> TRUE],
     power_off_on_close |-> [power_off_on_close |-> TRUE],
     no_clipboard_autosync |-> [clipboard_autosync |-> FALSE],
     tcpip |-> [tcpip |-> TRUE, tcpip_dst |-> FALSE],
     tcpip_dst |-> [tcpip |-> TRUE, tcpip_dst |-> TRUE],
     no_downsize_on_error |-> [downsize_on_error |-> FALSE],
     no_video |-> [video |-> FALSE], no_audio |-> [audio |-> FALSE],
     no_power_on |-> [power_on |-> FALSE],
     print_fps |-> [start_fps_counter |-> TRUE]]

CasesToTheLast ==
    [otg |-> [otg |-> TRUE], v4l2_sink |-> [v4l2_device |-> TRUE],
     list |-> [list |-> TRUE], require_audio |-> [require_audio |-> TRUE],
     camera_id |-> [camera_id |-> TRUE], camera_ar |-> [camera_ar |-> TRUE],
     camera_size |-> [camera_size |-> TRUE],
     camera_high_speed |-> [camera_high_speed |-> TRUE],
     no_window |-> [window |-> FALSE], audio_dup |-> [audio_dup |-> TRUE],
     G |-> [gamepad_input_mode |-> "uhid_or_aoa"],
     new_display |-> [new_display |-> TRUE], start_app |-> [start_app |-> TRUE],
     no_window_aspect_ratio_lock |-> [window_aspect_ratio_lock |-> FALSE],
     keep_active |-> [keep_active |-> TRUE], x |-> [flex_display |-> TRUE]]

-----------------------------------------------------------------------------
(* The mouse buttons that have bindings.                                    *)
BoundButtons == {"right", "middle", "x1", "x2"}

Bindings == {"click", "disabled", "back", "home", "app_switch", "panel"}

AllBound(binding) == [b \in BoundButtons |-> binding]

default_shortcuts ==
    [right |-> "back", middle |-> "home", x1 |-> "app_switch", x2 |-> "panel"]

(* scrcpy_options_default.                                                  *)
scrcpy_options_default ==
    [ok |-> TRUE, video |-> TRUE, audio |-> TRUE, video_playback |-> TRUE,
     audio_playback |-> TRUE, control |-> TRUE, window |-> TRUE, otg |-> FALSE,
     v4l2_device |-> FALSE, v4l2_buffer |-> 0, video_buffer |-> 0,
     audio_buffer |-> -1, audio_output_buffer |-> 10, list |-> FALSE,
     record_filename |-> None, record_format |-> "auto", record_orientation |-> 0,
     display_orientation |-> 0, video_codec |-> "h264", audio_codec |-> "opus",
     video_source |-> "display", audio_source |-> "auto", audio_dup |-> FALSE,
     require_audio |-> FALSE, keyboard_input_mode |-> "auto",
     mouse_input_mode |-> "auto", gamepad_input_mode |-> "disabled",
     key_inject_mode |-> "mixed", forward_key_repeat |-> TRUE, mouse_hover |-> TRUE,
     mouse_bindings |-> [pri |-> AllBound("auto"), sec |-> AllBound("auto")],
     shortcut_mods |-> {"lalt", "lsuper"}, legacy_paste |-> FALSE,
     clipboard_autosync |-> TRUE, new_display |-> FALSE, display_id |-> 0,
     display_ime_policy |-> None, flex_display |-> FALSE, render_fit |-> "auto",
     window_aspect_ratio_lock |-> TRUE, crop |-> FALSE, window_width |-> 0,
     max_size |-> 0, camera_id |-> FALSE, camera_ar |-> FALSE,
     camera_size |-> FALSE, camera_facing |-> "any", camera_fps |-> 0,
     camera_high_speed |-> FALSE, turn_screen_off |-> FALSE, stay_awake |-> FALSE,
     show_touches |-> FALSE, power_off_on_close |-> FALSE, start_app |-> FALSE,
     keep_active |-> FALSE, start_fps_counter |-> FALSE, serial |-> FALSE,
     select_usb |-> FALSE, select_tcpip |-> FALSE, tcpip |-> FALSE,
     tcpip_dst |-> FALSE, tunnel_host |-> FALSE, tunnel_port |-> 0,
     force_adb_forward |-> FALSE, port_range |-> <<27183, 27199>>,
     downsize_on_error |-> TRUE, power_on |-> TRUE, time_limit |-> 0,
     screen_off_timeout |-> -1]

-----------------------------------------------------------------------------
parse_integer_arg(v, limits) == limits[1] <= v /\ v <= limits[2]

(* parse_port_range(): one port, or two in any order.                       *)
parse_port_range(ports) ==
    IF ports[1] < ports[Len(ports)] THEN <<ports[1], ports[Len(ports)]>>
    ELSE <<ports[Len(ports)], ports[1]>>

parse_mouse_binding_set(set) == \A b \in BoundButtons : set[b] \in Bindings

(* parse_mouse_bindings(): the same set is used with Shift if it is alone.  *)
parse_mouse_bindings(sets) == [pri |-> sets[1], sec |-> sets[Len(sets)]]

(* parse_shortcut_mods_item() and parse_shortcut_mods(): a list of          *)
(* modifiers.                                                              *)
ShortcutMods == {"lctrl", "rctrl", "lalt", "ralt", "lsuper", "rsuper"}
parse_shortcut_mods(items) == {items[i] : i \in DOMAIN items}

Set(o, field, value, ok) ==
    IF ok THEN [o EXCEPT ![field] = value] ELSE [o EXCEPT !.ok = FALSE]

Assign(o, values) ==
    [field \in DOMAIN o |-> IF field \in DOMAIN values THEN values[field] ELSE o[field]]

(* One argument of the loop of getopt_long().                               *)
parse_arg(o, arg) ==
    LET name == arg[1]
        v == arg[2]
    IN  CASE name \in DOMAIN CasesToStayAwake -> Assign(o, CasesToStayAwake[name])
          [] name \in DOMAIN CasesToPrintFps -> Assign(o, CasesToPrintFps[name])
          [] name \in DOMAIN CasesToTheLast -> Assign(o, CasesToTheLast[name])
          [] name \in DOMAIN Choices -> Set(o, name, v, v \in Choices[name])
          [] name \in DOMAIN Limits -> Set(o, name, v, parse_integer_arg(v, Limits[name]))
          [] name = "record" -> Set(o, "record_filename", v, TRUE)
          [] name = "orientation" ->
                Set(Set(o, "display_orientation", v, v \in Orientations),
                    "record_orientation", v, v \in Orientations)
          [] name = "prefer_text" ->
                Set(o, "key_inject_mode", "text", o.key_inject_mode = "mixed")
          [] name = "raw_key_events" ->
                Set(o, "key_inject_mode", "raw", o.key_inject_mode = "mixed")
          [] name = "port" ->
                Set(o, "port_range", parse_port_range(v),
                    \A i \in DOMAIN v : parse_integer_arg(v[i], Port))
          [] name = "mouse_bind" ->
                Set(o, "mouse_bindings", parse_mouse_bindings(v),
                    \A i \in DOMAIN v : parse_mouse_binding_set(v[i]))
          [] name = "shortcut_mod" ->
                Set(o, "shortcut_mods", parse_shortcut_mods(v),
                    parse_shortcut_mods(v) \subseteq ShortcutMods)
          [] OTHER -> [o EXCEPT !.ok = FALSE]

-----------------------------------------------------------------------------
(* Then the options are completed, in this order.                           *)

(* Without a window or a video there is no video playback, and what is      *)
(* neither played nor recorded is not captured.                            *)
disable_unused(o) ==
    LET play == o.video_playback /\ o.window /\ o.video
        hear == o.audio_playback /\ o.audio
        recorded == o.record_filename # None
    IN  [o EXCEPT !.video_playback = play, !.audio_playback = hear,
                  !.power_on = @ /\ o.video,
                  !.video = @ /\ (play \/ recorded \/ o.v4l2_device),
                  !.audio = @ /\ (hear \/ recorded)]

(* Audio that is alone is required, and the audio buffer gets its default.  *)
complete_audio(o) ==
    [o EXCEPT !.require_audio = @ \/ (~o.video /\ ~o.otg),
              !.audio_buffer = IF o.audio_playback /\ @ = -1
                               THEN IF o.audio_codec = "flac" THEN 120 ELSE 50
                               ELSE @,
              !.downsize_on_error = @ /\ ~o.v4l2_device]

\* Fault: the mouse of the SDK is selected without a video to point at.
select_inputsBlind(o) ==
    LET hid(mode) == IF mode # "uhid_or_aoa" THEN mode
                     ELSE IF o.otg THEN "aoa" ELSE "uhid"
    IN  IF ~(o.control /\ o.video_source = "display") THEN o
        ELSE [o EXCEPT
            !.keyboard_input_mode = IF @ = "auto" THEN (IF o.otg THEN "aoa" ELSE "sdk")
                                    ELSE hid(@),
            !.mouse_input_mode = IF @ = "auto" THEN (IF o.otg THEN "aoa" ELSE "sdk")
                                 ELSE hid(@),
            !.gamepad_input_mode = hid(@)]

(* The input modes that depend on the others.                               *)
select_inputs(o) ==
    LET hid(mode) == IF mode # "uhid_or_aoa" THEN mode
                     ELSE IF o.otg THEN "aoa" ELSE "uhid"
    IN  IF ~(o.control /\ o.video_source = "display") THEN o
        ELSE [o EXCEPT
            !.keyboard_input_mode = IF @ = "auto" THEN (IF o.otg THEN "aoa" ELSE "sdk")
                                    ELSE hid(@),
            !.mouse_input_mode = IF @ # "auto" THEN hid(@)
                                 ELSE IF o.otg THEN "aoa"
                                 ELSE IF o.video_playback THEN "sdk" ELSE "disabled",
            !.gamepad_input_mode = hid(@)]

(* The default bindings: clicks are forwarded by default with UHID and AOA. *)
select_bindings(o) ==
    IF o.mouse_bindings.pri.right # "auto" THEN o
    ELSE [o EXCEPT !.mouse_bindings =
            IF o.mouse_input_mode = "sdk"
            THEN [pri |-> default_shortcuts, sec |-> AllBound("click")]
            ELSE [pri |-> AllBound("click"), sec |-> default_shortcuts]]

select_rendering(o) ==
    [o EXCEPT !.render_fit = IF @ # "auto" THEN @
                             ELSE IF o.flex_display THEN "unscaled" ELSE "letterbox"]

force_tunnel(o) ==
    [o EXCEPT !.force_adb_forward = @ \/ o.tunnel_host \/ o.tunnel_port # 0]

\* Fault: the inputs are only disabled for a camera that is not controlled.
disable_camera_inputsLate(o) ==
    IF ~(o.video_source = "camera" /\ ~o.control) THEN o
    ELSE [o EXCEPT !.keyboard_input_mode = "disabled",
                   !.mouse_input_mode = "disabled",
                   !.gamepad_input_mode = "disabled"]

(* The inputs are disabled for a camera.                                    *)
disable_camera_inputs(o) ==
    IF ~(o.video_source = "camera" /\ o.control) THEN o
    ELSE [o EXCEPT !.keyboard_input_mode = "disabled",
                   !.mouse_input_mode = "disabled",
                   !.gamepad_input_mode = "disabled"]

free_resizing(o) ==
    [o EXCEPT !.window_aspect_ratio_lock = @ /\ ~o.flex_display]

(* The source of the audio follows the one of the video.                    *)
select_audio_source(o) ==
    [o EXCEPT !.audio_source =
                  IF ~o.audio \/ @ # "auto" THEN @
                  ELSE IF o.video_source = "camera" THEN "mic"
                  ELSE IF o.audio_dup THEN "playback" ELSE "output"]

(* guess_record_format(): from the extension of the file.                   *)
guess_record_format(o) ==
    [o EXCEPT !.record_format =
                  IF o.record_filename # None /\ @ = "auto"
                     /\ o.record_filename \in RecordFormats
                  THEN o.record_filename ELSE @]

ignore_fps(o) == [o EXCEPT !.start_fps_counter = @ /\ o.video_playback]

-----------------------------------------------------------------------------
(* What is refused, where the code tests it.                                *)
too_many_selectors(o) ==
    Cardinality({f \in {"serial", "tcpip_dst", "select_tcpip", "select_usb"} : o[f]}) > 1

nothing_to_do(o) == ~o.video /\ ~o.audio /\ ~o.control /\ ~o.otg

bad_v4l2(o) ==
    \/ o.v4l2_device /\ (~o.video \/ o.flex_display)
    \/ o.v4l2_buffer # 0 /\ ~o.v4l2_device

bad_sdk_mouse(o) ==
    o.control /\ o.video_source = "display" /\ o.mouse_input_mode = "sdk"
        /\ ~o.video_playback

bad_new_display(o) == o.new_display /\ (o.video_source # "display" \/ ~o.video)

(* OTG mode has HID devices only, at least one, and few other options.      *)
bad_otg(o) ==
    LET modes == {o.keyboard_input_mode, o.mouse_input_mode, o.gamepad_input_mode}
    IN  o.otg /\ \/ ~o.control
                 \/ ~(modes \subseteq {"aoa", "disabled"})
                 \/ modes = {"disabled"}
                 \/ o.record_filename # None \/ o.turn_screen_off \/ o.stay_awake
                 \/ o.show_touches \/ o.power_off_on_close
                 \/ o.display_id # 0 \/ o.v4l2_device

bad_keyboard_or_mouse(o) ==
    \/ o.keyboard_input_mode # "sdk"
         /\ (o.key_inject_mode # "mixed" \/ ~o.forward_key_repeat)
    \/ o.mouse_input_mode # "sdk" /\ ~o.mouse_hover

bad_camera(o) ==
    IF o.video_source = "camera"
    THEN \/ o.display_id # 0 \/ o.display_ime_policy # None
         \/ o.camera_id /\ o.camera_facing # "any"
         \/ o.camera_size /\ (o.max_size # 0 \/ o.camera_ar)
         \/ o.camera_high_speed /\ o.camera_fps = 0
    ELSE \/ o.camera_id \/ o.camera_ar \/ o.camera_facing # "any"
         \/ o.camera_fps # 0 \/ o.camera_high_speed \/ o.camera_size

bad_display(o) ==
    \/ o.display_id # 0 /\ o.new_display
    \/ o.flex_display /\ \/ o.video_source # "display" \/ ~o.new_display
                         \/ ~o.control \/ o.crop \/ o.window_width # 0
    \/ o.display_ime_policy # None /\ o.display_id = 0 /\ ~o.new_display

bad_audio_dup(o) == o.audio_dup /\ (~o.audio \/ o.audio_source # "playback")

AudioOnly == {"m4a", "mka", "opus", "aac", "flac", "wav"}
RequiredCodec == [opus |-> "opus", aac |-> "aac", flac |-> "flac", wav |-> "raw"]

bad_record(o) ==
    IF o.record_filename = None THEN o.record_format # "auto"
    ELSE \/ ~o.video /\ ~o.audio
         \/ o.record_format = "auto"
         \/ o.record_orientation >= 4
         \/ o.video /\ o.record_format \in AudioOnly
         \/ o.record_format \in DOMAIN RequiredCodec
              /\ o.audio_codec # RequiredCodec[o.record_format]
         \/ o.record_format \in {"mp4", "m4a"} /\ o.audio_codec = "raw"
         \/ o.record_format = "mp4" /\ o.video_codec = "vp8"

bad_control(o) ==
    ~o.control /\ \/ o.turn_screen_off \/ o.stay_awake \/ o.show_touches
                  \/ o.power_off_on_close \/ o.start_app \/ o.keep_active

-----------------------------------------------------------------------------
(* parse_args_with_getopt(), after the arguments: the options that the      *)
(* program starts with, or ok = FALSE.                                     *)
complete(o) ==
    LET a == disable_unused(o)
        b == complete_audio(a)
        c == select_inputs(b)
        d == force_tunnel(select_rendering(select_bindings(c)))
        e == free_resizing(disable_camera_inputs(d))
        f == select_audio_source(e)
        g == guess_record_format(f)
        refused ==
            \/ too_many_selectors(o) \/ nothing_to_do(a) \/ bad_v4l2(b)
            \/ bad_sdk_mouse(b) \/ bad_new_display(d) \/ bad_keyboard_or_mouse(d)
            \/ bad_camera(d) \/ bad_display(e) \/ bad_audio_dup(f)
            \/ bad_record(g) \/ bad_control(g) \/ bad_otg(d)
    IN  [ignore_fps(g) EXCEPT !.ok = @ /\ ~refused]

(* The processors that scrcpy() creates.                                    *)
processors(o) ==
    LET of(mode) == IF o.control /\ mode \in {"sdk", "uhid", "aoa"} THEN mode ELSE None
    IN  [kp |-> of(o.keyboard_input_mode), mp |-> of(o.mouse_input_mode),
         gp |-> of(o.gamepad_input_mode)]

-----------------------------------------------------------------------------
Fields == DOMAIN scrcpy_options_default

(* What the loop of getopt_long() leaves in the fields that decide.          *)
Typed(o) ==
    /\ o.keyboard_input_mode \in Keyboards \cup {"auto", "uhid_or_aoa"}
    /\ o.mouse_input_mode \in Mice \cup {"auto", "uhid_or_aoa"}
    /\ o.gamepad_input_mode \in Gamepads \cup {"uhid_or_aoa"}
    /\ o.video_source \in VideoSources
    /\ o.record_orientation \in Orientations
    /\ o.record_format \in RecordFormats \cup {"auto"}
    /\ o.audio_buffer \in -1 .. BufferingTime[2]
    /\ o.screen_off_timeout \in -1 .. ScreenOffTimeout[2]
    /\ o.port_range[1] <= o.port_range[2]
    /\ o.shortcut_mods \subseteq ShortcutMods
    /\ o.key_inject_mode \in KeyInjectModes
    /\ \/ o.mouse_bindings = [pri |-> AllBound("auto"), sec |-> AllBound("auto")]
       \/ \A b \in BoundButtons : /\ o.mouse_bindings.pri[b] \in Bindings
                                  /\ o.mouse_bindings.sec[b] \in Bindings

(* The options that are accepted are those that the rest of the program     *)
(* counts on: its assertions hold for them, and nothing is left undecided  *)
(* (scrcpy.c:457, server.c:297, screen.c:197, recorder.c:762 and 780,      *)
(* input_manager.c:678 and 879).                                           *)
Consistent(o) ==
    LET p == processors(o)
        camera == o.video_source = "camera"
    IN  /\ o.video \/ o.audio \/ o.control
        /\ o.video_playback => o.video /\ o.window
        /\ o.audio_playback => o.audio /\ o.audio_buffer >= 0
        /\ o.audio => o.audio_source # "auto"
        /\ o.control /\ (o.otg \/ ~camera) =>
              {o.keyboard_input_mode, o.mouse_input_mode, o.gamepad_input_mode}
                  \cap {"auto", "uhid_or_aoa"} = {}
        /\ p.mp = "sdk" => o.video_playback
        /\ camera => p = [kp |-> None, mp |-> None, gp |-> None]
        /\ \A b \in BoundButtons : /\ o.mouse_bindings.pri[b] # "auto"
                                   /\ o.mouse_bindings.sec[b] # "auto"
        /\ o.render_fit # "auto"
        /\ o.flex_display => o.control /\ ~camera /\ ~o.window_aspect_ratio_lock
        /\ o.record_filename # None =>
              /\ o.video \/ o.audio
              /\ o.record_orientation < 4 /\ o.record_format # "auto"
              /\ o.video => o.record_format \in {"mp4", "mkv"}
        /\ ~o.video /\ ~o.otg => o.require_audio
        /\ o.audio_buffer <= MaxInt31 \div (48 * 8)
        /\ o.screen_off_timeout <= MaxInt31 \div 1000
        /\ o.port_range[1] <= o.port_range[2]
        /\ o.shortcut_mods \subseteq ShortcutMods
        /\ o.key_inject_mode \in KeyInjectModes
        /\ o.otg => o.control /\ ~o.v4l2_device /\ o.record_filename = None

=============================================================================
