--------------------------- MODULE MCInputManager ---------------------------
(* InputManager with the command lines that change what it does, for TLC.   *)
EXTENDS InputManager

Seqs == INSTANCE SequencesExt

(* The options after the arguments of a command line.                       *)
Uses(args, keys, mods, buttons, pads) ==
    [options |-> Seqs!FoldLeft(parse_arg, scrcpy_options_default, args),
     keys |-> keys, mods |-> mods, buttons |-> buttons, pads |-> pads]

Flag(name) == <<name, TRUE>>
Keyboard(mode) == <<"keyboard_input_mode", mode>>
Mouse(mode) == <<"mouse_input_mode", mode>>

Shortcuts == {"f11", "z", "left", "up", "h", "o", "c", "v", "n", "r", "k", "t", "a"}
Writing == {"z", "a", "v", "1", "kp1", "eacute", "return"}

(* Every keyboard, with the shortcuts and the modifiers.                    *)
KeyboardScenarios ==
    {Uses(args, Shortcuts, {"lalt", "lctrl", "lshift"}, {}, {}) : args \in
        {<<>>, <<Flag("n")>>, <<Flag("no_video")>>, <<Keyboard("disabled")>>,
         <<Keyboard("uhid")>>, <<Keyboard("aoa")>>,
         <<Keyboard("aoa"), Flag("legacy_paste")>>,
         <<Keyboard("aoa"), Flag("no_clipboard_autosync")>>,
         <<Keyboard("aoa"), <<"shortcut_mod", <<"lctrl">>>> >>,
         <<<<"video_source", "camera">>>>,
         <<<<"video_source", "camera">>, Keyboard("aoa")>>}}

(* Typing, in every injection mode.                                         *)
TypingScenarios ==
    {Uses(args, Writing, {"lalt", "lctrl", "lshift", "num"}, {}, {}) : args \in
        {<<>>, <<Flag("prefer_text")>>, <<Flag("raw_key_events")>>,
         <<Flag("no_key_repeat"), Flag("prefer_text")>>}}

(* Every mouse, with its bindings.                                          *)
MouseScenarios ==
    {Uses(args, {"z"}, {"lalt", "lctrl", "lshift"}, {"left", "right"}, {}) : args \in
        {<<>>, <<Flag("n")>>, <<Flag("no_video")>>, <<Flag("no_mouse_hover")>>,
         <<Mouse("disabled")>>, <<Keyboard("disabled")>>, <<Mouse("uhid")>>,
         <<Mouse("aoa"), Flag("no_video")>>, <<<<"video_source", "camera">>, Flag("M")>>,
         <<<<"mouse_bind", <<AllBound("click")>>>>>>,
         <<<<"mouse_bind", <<AllBound("panel"), AllBound("disabled")>>>>, Mouse("uhid")>>}}

GamepadScenarios ==
    {Uses(args, {"z"}, {"lalt"}, {}, {"g1", "g2", "g3"}) : args \in
        {<<<<"gamepad_input_mode", "uhid">>>>, <<>>,
         <<<<"video_source", "camera">>, <<"gamepad_input_mode", "aoa">>>>}}

MCScenarios == KeyboardScenarios \cup TypingScenarios \cup MouseScenarios \cup GamepadScenarios
=============================================================================
