------------------------------ MODULE MCClient ------------------------------
(* Client with about fifty arguments, for TLC.                              *)
EXTENDS Client

(* What decides which parts of scrcpy are started.                          *)
Selecting ==
    {<<name, TRUE>> : name \in {"no_video", "no_audio", "n", "no_window", "v4l2_sink"}}
    \cup {<<"record", "mkv">>, <<"keyboard_input_mode", "aoa">>, <<"time_limit", 1>>,
          <<"video_source", "camera">>}

(* What only the command line looks at, boundaries and unknown values       *)
(* included.                                                               *)
Completing ==
    {<<name, TRUE>> : name \in {"d", "tcpip_dst", "otg", "M", "x", "new_display",
        "audio_dup", "w", "start_app", "camera_id", "no_mouse_hover", "no_key_repeat",
        "tunnel_host", "no_video_playback", "no_audio_playback"}}
    \cup {<<"record", "opus">>, <<"record", "?">>, <<"record_format", "mp4">>,
          <<"record_orientation", 5>>, <<"orientation", 3>>, <<"orientation", 8>>,
          <<"audio_codec", "flac">>, <<"audio_codec", "raw">>, <<"video_codec", "vp8">>,
          <<"mouse_input_mode", "sdk">>, <<"mouse_input_mode", "disabled">>,
          <<"gamepad_input_mode", "aoa">>, <<"audio_source", "playback">>,
          <<"audio_buffer", 3600000>>, <<"audio_buffer", 3600001>>,
          <<"v4l2_buffer", 1>>, <<"display_id", 1>>, <<"display_id", -1>>,
          <<"display_ime_policy", "hide">>, <<"camera_fps", 60>>,
          <<"port", <<2, 1>>>>, <<"port", <<65536>>>>,
          <<"mouse_bind", <<AllBound("click")>>>>, <<"mouse_bind", <<AllBound("?")>>>>,
          <<"shortcut_mod", <<"lctrl", "rctrl">>>>, <<"shortcut_mod", <<"?">>>>,
          <<"prefer_text", TRUE>>, <<"raw_key_events", TRUE>>, <<"?", TRUE>>}

MCArgs == Selecting \cup Completing
=============================================================================
