---------------------------- MODULE InputManager ----------------------------
(***************************************************************************)
(* What the client does with the events of the user: input_manager.c, the  *)
(* keyboard and the mouse of the SDK (keyboard_sdk.c, mouse_sdk.c), the    *)
(* capture of a relative mouse (mouse_capture.c) and the slots of the      *)
(* gamepads (hid_gamepad.c).                                               *)
(*                                                                         *)
(* A behaviour starts with the options of one accepted command line        *)
(* (module Options), which decide which processors exist.  Positions are   *)
(* left out.  A handler is an operator from the state to the next one, in  *)
(* the order of the code; ok says whether the message that it pushes is    *)
(* accepted (the queue may be full, SDL may have no clipboard).            *)
(***************************************************************************)
EXTENDS Options

CONSTANTS
    Scenarios,      \* [options: what the arguments of a command line leave, and
                    \*  what its user uses: keys, mods, buttons, pads]
    MaxSequence,    \* bound on the clipboard sequence numbers
    MaxGamepads,    \* SC_MAX_GAMEPADS
    WheelAnywhere   \* whether the wheel is turned even without a mouse processor

VARIABLES
    conf,   \* what the options decide, constant
    user,   \* the modifiers and buttons held, the gamepads plugged, and those
            \* that were announced twice
    mc,     \* the mouse capture: active, and the capture key that was pressed
    st      \* the input manager, its processors, and what they sent

inputVars == <<conf, user, mc, st>>

(* One key for each that is treated alike: h stands for H, S, M and P, b for  *)
(* B and backspace, c for C and X, return for the keys that write nothing.   *)
Keys == {"f11", "z", "left", "right", "up", "down", "f", "q", "h", "b", "o", "c", "v",
         "n", "r", "k", "t", "a", "1", "kp1", "eacute", "return"}
Mods == {"lctrl", "rctrl", "lalt", "ralt", "lsuper", "rsuper", "lshift", "num"}
Buttons == BoundButtons \cup {"left"}

\* That the arguments leave such options is proved of Client (ClientProofs).
ASSUME ScenariosAssumption ==
    \A scenario \in Scenarios :
        /\ DOMAIN scenario.options = Fields /\ Typed(scenario.options)
        /\ scenario.keys \subseteq Keys /\ scenario.mods \subseteq Mods
        /\ scenario.buttons \subseteq Buttons /\ None \notin scenario.pads

ASSUME InputBoundAssumption ==
    /\ MaxSequence \in Nat \ {0} /\ MaxGamepads \in Nat \ {0}
    /\ WheelAnywhere \in BOOLEAN

ctrl(mods) == mods \cap {"lctrl", "rctrl"} # {}
shift(mods) == "lshift" \in mods
relative_mode == conf.mp \in {"uhid", "aoa"}

(* sc_shortcut_mods_is_shortcut_mod() and sc_shortcut_mods_is_shortcut_key(). *)
is_shortcut_mod(mods) == mods \cap conf.shortcut_mods # {}
is_shortcut_key(key) == key \in conf.shortcut_mods

-----------------------------------------------------------------------------
(* The state, and the messages.                                             *)

sc_input_manager_init ==
    [vfinger_down |-> FALSE, mouse_buttons_state |-> {}, last |-> <<>>,
     key_repeat |-> FALSE, next_sequence |-> 1, disconnected |-> FALSE,
     paused |-> FALSE, slots |-> [i \in 1 .. MaxGamepads |-> None],
     \* the device: its second finger, its clipboards, the acks waited for
     finger |-> FALSE, clips |-> {}, waits |-> {},
     \* what was sent while paused, how often the last character was sent, and
     \* whether an assertion failed
     whilePaused |-> {}, typed |-> None, times |-> 0, crashed |-> FALSE]

Crash(s) == [s EXCEPT !.crashed = TRUE]

Push(s, kind, ok) ==
    IF ok /\ s.paused THEN [s EXCEPT !.whilePaused = @ \cup {kind}] ELSE s

(* A message for the keyboard of the device, for the device, for its camera: *)
(* each function asserts that there is one.                                 *)
ToKeyboard(s, kind, ok) ==
    IF conf.control /\ conf.kp # None /\ ~conf.camera THEN Push(s, kind, ok) ELSE Crash(s)
ToDevice(s, kind, ok) ==
    IF conf.control /\ ~conf.camera THEN Push(s, kind, ok) ELSE Crash(s)
ToCamera(s, kind, ok) ==
    IF conf.control /\ conf.camera THEN Push(s, kind, ok) ELSE Crash(s)

send_keycode(s, ok) == ToKeyboard(s, "keycode", ok)
press_back_or_turn_screen_on(s, ok) == ToKeyboard(s, "back", ok)
get_device_clipboard(s, ok) == ToKeyboard(s, "get_clipboard", ok)
clipboard_paste(s, ok) == ToKeyboard(s, "text", ok)
expand_notification_panel(s, ok) == ToDevice(s, "notification_panel", ok)
expand_settings_panel(s, ok) == ToDevice(s, "settings_panel", ok)
collapse_panels(s, ok) == ToDevice(s, "collapse", ok)
set_display_power(s, ok) == ToDevice(s, "display_power", ok)
rotate_device(s, ok) == ToDevice(s, "rotate", ok)
open_hard_keyboard_settings(s, ok) == ToDevice(s, "keyboard_settings", ok)
reset_video(s, ok) == IF conf.control THEN Push(s, "reset_video", ok) ELSE Crash(s)
camera_set_torch(s, ok) == ToCamera(s, "torch", ok)
camera_zoom(s, ok) == ToCamera(s, "zoom", ok)

set_device_clipboard(s, sequence, ok) ==
    LET sent == ToKeyboard(s, "set_clipboard", ok)
    IN  IF ok /\ sequence # 0 THEN [sent EXCEPT !.clips = @ \cup {sequence}] ELSE sent

(* The two fingers of a pinch: the mouse, and a virtual one.                *)
simulate_virtual_finger(s, down, ok) ==
    IF ok THEN [Push(s, "touch", ok) EXCEPT !.finger = down] ELSE s

-----------------------------------------------------------------------------
(* The keyboards.  Each counts how often it sends the character that is     *)
(* being typed.                                                             *)

Count(s) == IF s.typed = None THEN s ELSE [s EXCEPT !.times = @ + 1]

special_keys == {"return", "up", "down", "left", "right", "lctrl", "rctrl", "lalt",
                 "ralt", "lsuper", "rsuper", "lshift"}
kp_nav_keys == {"kp1"}
alphaspace_keys == {"z", "f", "q", "h", "b", "o", "c", "v", "n", "r", "k", "t", "a"}
numbers_punct_keys == {"1", "kp1"}

(* Whether the key is injected as a key.                                    *)
convert_keycode(key, mods) ==
    \/ key \in special_keys
    \/ key \in kp_nav_keys /\ ~shift(mods) /\ "num" \notin mods
    \/ /\ conf.key_inject_mode # "text" \/ ctrl(mods)
       /\ \/ key \in alphaspace_keys
          \/ conf.key_inject_mode = "raw" /\ key \in numbers_punct_keys

keyboard_sdk_process_key(s, e, ok) ==
    IF (e.repeat => conf.forward_key_repeat) /\ convert_keycode(e.key, e.mods)
    THEN Count(Push(s, "keycode", ok)) ELSE s

\* Fault: letters are injected as text too.
keyboard_sdk_process_textTwice(s, key, ok) ==
    IF conf.key_inject_mode = "raw" THEN s ELSE Count(Push(s, "text", ok))

keyboard_sdk_process_text(s, key, ok) ==
    IF \/ conf.key_inject_mode = "raw"
       \/ conf.key_inject_mode = "mixed" /\ key \in alphaspace_keys
    THEN s ELSE Count(Push(s, "text", ok))

keyboard_uhid_process_key(s, e, ok) == IF e.repeat THEN s ELSE Push(s, "uhid_input", ok)

keyboard_aoa_process_key(s, e, ack_to_wait, ok) ==
    IF e.repeat \/ ~ok THEN s
    ELSE [Push(s, "aoa_input", ok) EXCEPT
             !.waits = IF ack_to_wait = 0 THEN @ ELSE @ \cup {ack_to_wait}]

process_key_by_kp(s, e, ack_to_wait, ok) ==
    CASE conf.kp = "sdk" -> keyboard_sdk_process_key(s, e, ok)
      [] conf.kp = "uhid" -> keyboard_uhid_process_key(s, e, ok)
      [] conf.kp = "aoa" -> keyboard_aoa_process_key(s, e, ack_to_wait, ok)

(* Only AOA sends its keys over another channel than the clipboard.         *)
async_paste == conf.kp = "aoa"

-----------------------------------------------------------------------------
(* Keys.  e is [key, mods, down, repeat].                                   *)

(* key_repeat is only read for N: whether it was the last key, with the     *)
(* same modifiers.                                                         *)
count_key(s, e) ==
    IF ~e.down \/ e.repeat \/ s.disconnected THEN s
    ELSE [s EXCEPT !.key_repeat = e.key = "n" /\ s.last = <<e.mods>>,
                   !.last = IF e.key = "n" THEN <<e.mods>> ELSE <<>>]

(* The shortcuts of the window: only Z changes something here, the others   *)
(* are in module Screen or quit.                                           *)
is_window_shortcut(e) ==
    \/ e.key \in {"z", "left", "right", "f", "w", "g", "i", "q"}
    \/ e.key \in {"up", "down"} /\ shift(e.mods)

window_shortcut(s, e) ==
    IF e.key = "z" /\ conf.video /\ e.down /\ ~e.repeat
    THEN [s EXCEPT !.paused = ~shift(e.mods)] ELSE s

\* Fault: some shortcuts are not blocked while paused.
device_shortcutPaused(s, e, ok) ==
    LET keyboard == conf.kp # None /\ ~shift(e.mods) /\ ~e.repeat
        once == e.down /\ ~e.repeat
    IN  CASE e.key \in {"h", "b"} /\ keyboard -> send_keycode(s, ok)
          [] e.key = "o" /\ once -> set_display_power(s, ok)
          [] e.key = "v" /\ conf.kp # None /\ once ->
                IF shift(e.mods) \/ conf.legacy_paste THEN clipboard_paste(s, ok)
                ELSE set_device_clipboard(s, 0, ok)
          [] OTHER -> s

(* The shortcuts of a device that is not a camera.                          *)
device_shortcut(s, e, ok) ==
    LET keyboard == conf.kp # None /\ ~shift(e.mods) /\ ~s.paused
        once == e.down /\ ~e.repeat /\ ~s.paused
    IN  CASE e.key \in {"h", "b"} /\ keyboard /\ ~e.repeat -> send_keycode(s, ok)
          [] e.key = "o" /\ once -> set_display_power(s, ok)
          [] e.key \in {"up", "down"} /\ keyboard -> send_keycode(s, ok)
          [] e.key = "c" /\ keyboard /\ once -> get_device_clipboard(s, ok)
          [] e.key = "v" /\ conf.kp # None /\ once ->
                IF shift(e.mods) \/ conf.legacy_paste THEN clipboard_paste(s, ok)
                ELSE set_device_clipboard(s, 0, ok)
          [] e.key = "n" /\ once ->
                IF shift(e.mods) THEN collapse_panels(s, ok)
                ELSE IF s.key_repeat THEN expand_settings_panel(s, ok)
                ELSE expand_notification_panel(s, ok)
          [] e.key = "r" /\ once /\ ~shift(e.mods) -> rotate_device(s, ok)
          [] e.key = "k" /\ once /\ ~shift(e.mods) /\ conf.kp \in {"uhid", "aoa"} ->
                open_hard_keyboard_settings(s, ok)
          [] OTHER -> s

camera_shortcut(s, e, ok) ==
    CASE e.key = "t" /\ e.down /\ ~e.repeat -> camera_set_torch(s, ok)
      [] e.key \in {"up", "down"} /\ ~shift(e.mods) /\ e.down /\ ~s.paused ->
            camera_zoom(s, ok)
      [] OTHER -> s

shortcut(s, e, ok) ==
    IF is_window_shortcut(e) THEN window_shortcut(s, e)
    ELSE IF s.disconnected \/ ~conf.control THEN s
    ELSE IF e.key = "r" /\ shift(e.mods)
         THEN IF e.down /\ ~e.repeat /\ ~s.paused THEN reset_video(s, ok) ELSE s
    ELSE IF conf.camera THEN camera_shortcut(s, e, ok)
    ELSE device_shortcut(s, e, ok)

is_ctrl_v(e) == ctrl(e.mods) /\ ~shift(e.mods) /\ e.key = "v" /\ e.down /\ ~e.repeat

\* Fault: the key waits for the clipboard even if it could not be sent.
paste_keyUnsent(s, e, ok, ok2) ==
    LET sequence == IF async_paste THEN s.next_sequence ELSE 0
        sent == set_device_clipboard(s, sequence, ok)
    IN  process_key_by_kp([sent EXCEPT !.next_sequence = @ + (IF async_paste THEN 1 ELSE 0)],
                          e, sequence, ok2)

(* Ctrl+v: the clipboard of the computer first, then the key, which waits   *)
(* for it if it takes another channel.                                     *)
paste_key(s, e, ok, ok2) ==
    LET sequence == IF async_paste THEN s.next_sequence ELSE 0
        sent == set_device_clipboard(s, sequence, ok)
    IN  IF ~ok THEN sent
        ELSE process_key_by_kp(
                 [sent EXCEPT !.next_sequence = @ + (IF async_paste THEN 1 ELSE 0)],
                 e, sequence, ok2)

forward_key(s, e, ok, ok2) ==
    IF conf.kp = None \/ s.paused THEN s
    ELSE IF conf.camera THEN Crash(s)
    ELSE IF ~(conf.clipboard_autosync /\ is_ctrl_v(e)) THEN process_key_by_kp(s, e, 0, ok)
    ELSE IF conf.legacy_paste THEN clipboard_paste(s, ok)
    ELSE paste_key(s, e, ok, ok2)

process_key(s, e, ok, ok2) ==
    LET t == count_key(s, e)
    IN  CASE e.key = "f11" -> t
          [] e.key # "f11" /\ (is_shortcut_mod(e.mods) \/ is_shortcut_key(e.key)) ->
                shortcut(t, e, ok)
          [] OTHER -> forward_key(t, e, ok, ok2)

process_text_input(s, key, mods, ok) ==
    IF \/ conf.camera \/ conf.kp = None \/ s.paused \/ s.disconnected
       \/ conf.kp # "sdk" \/ is_shortcut_mod(mods)
    THEN s ELSE keyboard_sdk_process_text(s, key, ok)

-----------------------------------------------------------------------------
(* The mouse.                                                               *)

NoMouse(s) == conf.camera \/ conf.mp = None \/ s.paused \/ s.disconnected

(* A message of the mouse: of the SDK, or a HID report.                     *)
process_mouse_click(s, ok) ==
    Push(s, IF conf.mp = "sdk" THEN "touch" ELSE "hid_mouse", ok)

(* Without mouse hover, the SDK mouse only reports motions of a drag.       *)
process_mouse_motion_by_mp(s, ok) ==
    IF conf.mp = "sdk" /\ ~conf.mouse_hover /\ s.mouse_buttons_state = {} THEN s
    ELSE Push(s, IF conf.mp = "sdk" THEN "touch" ELSE "hid_mouse", ok)

process_mouse_scroll(s, ok) ==
    Push(s, IF conf.mp = "sdk" THEN "scroll" ELSE "hid_mouse", ok)

process_mouse_motion(s, ok, ok2) ==
    LET moved == process_mouse_motion_by_mp(s, ok)
    IN  IF NoMouse(s) THEN s
        ELSE IF relative_mode /\ s.vfinger_down THEN Crash(s)
        ELSE IF s.vfinger_down THEN simulate_virtual_finger(moved, TRUE, ok2)
        ELSE moved

(* Touch events are those of the SDK mouse only.                            *)
process_touch(s, ok) ==
    IF NoMouse(s) \/ conf.mp # "sdk" THEN s ELSE Push(s, "touch", ok)

(* The guard tests the keyboard, and the mouse is used.                     *)
process_mouse_wheel(s, ok) ==
    IF conf.camera \/ conf.kp = None \/ s.paused \/ s.disconnected THEN s
    ELSE IF conf.mp = None THEN Crash(s)
    ELSE process_mouse_scroll(s, ok)

get_binding(button, mods) ==
    IF button = "left" THEN "click"
    ELSE IF shift(mods) THEN conf.mouse_bindings.sec[button]
    ELSE conf.mouse_bindings.pri[button]

(* A button that is bound to something else than a click.                   *)
bound_button(s, e, ok) ==
    LET binding == get_binding(e.button, e.mods)
    IN  CASE binding \in {"home", "app_switch"} /\ conf.kp # None -> send_keycode(s, ok)
          [] binding = "back" /\ conf.kp # None -> press_back_or_turn_screen_on(s, ok)
          [] binding = "panel" /\ e.down ->
                IF e.double THEN expand_settings_panel(s, ok)
                ELSE expand_notification_panel(s, ok)
          [] binding = "auto" -> Crash(s)
          [] OTHER -> s

(* The left button with Ctrl or Shift adds the virtual finger.              *)
change_vfinger(s, e) ==
    /\ e.button = "left"
    /\ IF e.down THEN ~s.vfinger_down /\ (ctrl(e.mods) \/ shift(e.mods))
       ELSE s.vfinger_down

\* Fault: the virtual finger is down even if its event was not sent.
click_buttonBlind(s, e, ok, ok2) ==
    LET pressed == [s EXCEPT !.mouse_buttons_state = IF e.down THEN @ \cup {e.button} ELSE @]
        clicked == process_mouse_click(pressed, ok)
    IN  IF conf.mp = None \/ s.paused THEN s
        ELSE IF relative_mode THEN IF s.vfinger_down THEN Crash(s) ELSE clicked
        ELSE IF ~change_vfinger(s, e) THEN clicked
        ELSE [simulate_virtual_finger(clicked, e.down, ok2) EXCEPT !.vfinger_down = e.down]

click_button(s, e, ok, ok2) ==
    LET pressed == [s EXCEPT !.mouse_buttons_state = IF e.down THEN @ \cup {e.button} ELSE @]
        clicked == process_mouse_click(pressed, ok)
    IN  IF conf.mp = None \/ s.paused THEN s
        ELSE IF relative_mode THEN IF s.vfinger_down THEN Crash(s) ELSE clicked
        ELSE IF ~(change_vfinger(s, e) /\ ok2) THEN clicked
        ELSE [simulate_virtual_finger(clicked, e.down, ok2) EXCEPT !.vfinger_down = e.down]

(* A double click on the black borders resizes the window instead.          *)
on_border(e) == conf.video /\ ~relative_mode /\ e.button = "left" /\ e.double /\ e.outside

(* e is [button, mods, down, double, outside].                              *)
process_mouse_button(s, e, ok, ok2) ==
    LET t == [s EXCEPT !.mouse_buttons_state = IF e.down THEN @ ELSE @ \ {e.button}]
    IN  IF conf.camera \/ s.disconnected THEN s
        ELSE IF conf.control /\ ~s.paused /\ get_binding(e.button, e.mods) # "click"
             THEN bound_button(t, e, ok)
        ELSE IF on_border(e) THEN t
        ELSE click_button(t, e, ok, ok2)

-----------------------------------------------------------------------------
(* Gamepads: each one takes a slot, which is its HID device.                *)

Slot(s, pad) == {i \in 1 .. MaxGamepads : s.slots[i] = pad}

(* sc_hid_gamepad_slot_find(): the first one.                               *)
slot_find(s, pad) == CHOOSE i \in Slot(s, pad) : \A j \in Slot(s, pad) : i <= j

(* The first free slot is taken, whether or not the gamepad has one.        *)
process_gamepad_added(s, pad) ==
    IF Slot(s, None) = {} THEN s
    ELSE [Push(s, "gamepad_device", TRUE) EXCEPT !.slots[slot_find(s, None)] = pad]

process_gamepad_removed(s, pad) ==
    IF Slot(s, pad) = {} THEN s
    ELSE [Push(s, "gamepad_device", TRUE) EXCEPT !.slots[slot_find(s, pad)] = None]

process_gamepad_device(s, pad, added) ==
    IF conf.camera \/ conf.gp = None \/ s.disconnected THEN s
    ELSE IF added THEN process_gamepad_added(s, pad) ELSE process_gamepad_removed(s, pad)

(* An axis or a button: the report of the slot.                             *)
process_gamepad_input(s, pad, ok) ==
    IF conf.camera \/ conf.gp = None \/ s.paused \/ s.disconnected \/ Slot(s, pad) = {}
    THEN s ELSE Push(s, "gamepad_input", ok)

(* A dropped file is pushed or installed, and the device asked to scan it,  *)
(* paused or not; ok says whether the file pusher took it.                  *)
push_file(s, ok) ==
    IF conf.camera \/ ~conf.control \/ s.disconnected THEN s ELSE Push(s, "file", ok)

-----------------------------------------------------------------------------
(* Init: the options of a command line that is accepted and has a window.    *)
Configured(scenario) ==
    LET o == complete(scenario.options)
        p == processors(o)
    IN  [accepted |-> o.ok /\ o.window /\ ~o.otg, control |-> o.control, kp |-> p.kp,
         mp |-> p.mp, gp |-> p.gp, camera |-> o.video_source = "camera",
         video |-> o.video_playback, mouse_bindings |-> o.mouse_bindings,
         shortcut_mods |-> o.shortcut_mods, legacy_paste |-> o.legacy_paste,
         clipboard_autosync |-> o.clipboard_autosync,
         key_inject_mode |-> o.key_inject_mode,
         forward_key_repeat |-> o.forward_key_repeat, mouse_hover |-> o.mouse_hover,
         uses |-> scenario]

InputInit ==
    /\ conf \in {c \in {Configured(scenario) : scenario \in Scenarios} : c.accepted}
    /\ user = [mods |-> {}, held |-> {}, pads |-> {}, twice |-> {}]
    /\ mc = [active |-> conf.mp \in {"uhid", "aoa"}, key |-> None]
    /\ st = sc_input_manager_init

(* What the last step typed is forgotten by the next one.                   *)
Fresh == [st EXCEPT !.typed = None, !.times = 0]

(* The events go through the mouse capture first, in relative mode, until   *)
(* the device is disconnected.                                             *)
Captures == relative_mode /\ ~st.disconnected

-----------------------------------------------------------------------------
(* sc_mouse_capture_handle_event() for a key: capture keys are consumed.     *)
capture_key_down(key) ==
    IF ~is_shortcut_key(key) THEN mc
    ELSE [mc EXCEPT !.key = IF mc.key = None THEN key ELSE None]

capture_key_up(key, ok) ==
    [active |-> IF is_shortcut_key(key) /\ mc.key = key /\ ok THEN ~mc.active ELSE mc.active,
     key |-> None]

HandleKey(e, ok, ok2) ==
    /\ e.key = "v" => st.next_sequence < MaxSequence
    /\ mc' = IF ~Captures THEN mc
             ELSE IF e.down THEN capture_key_down(e.key) ELSE capture_key_up(e.key, ok)
    /\ st' = IF Captures /\ is_shortcut_key(e.key) THEN Fresh
             ELSE process_key(Fresh, e, ok, ok2)
    /\ UNCHANGED conf

Key(key, down, repeat, ok, ok2) ==
    /\ repeat => down
    /\ HandleKey([key |-> key, mods |-> user.mods, down |-> down, repeat |-> repeat], ok, ok2)
    /\ UNCHANGED user

(* A modifier is a key too: it is part of the modifiers of its press, and   *)
(* not of its release.                                                     *)
Modifier(mod, ok) ==
    LET down == mod \notin user.mods
        mods == IF down THEN user.mods \cup {mod} ELSE user.mods \ {mod}
    IN  /\ user' = [user EXCEPT !.mods = mods]
        /\ HandleKey([key |-> mod, mods |-> mods, down |-> down, repeat |-> FALSE], ok, TRUE)

(* SDL follows the press of a key that writes a character by the text.      *)
WritesText(key, mods) ==
    /\ mods \subseteq {"lshift", "num"}
    /\ key \in alphaspace_keys \cup {"1", "kp1", "eacute"}
    /\ key = "kp1" => Cardinality(mods) = 1

Type(key, ok, ok2) ==
    LET e == [key |-> key, mods |-> user.mods, down |-> TRUE, repeat |-> FALSE]
        received == conf.kp = "sdk" /\ ~st.paused /\ ~st.disconnected
        s == [Fresh EXCEPT !.typed = IF received THEN key ELSE None]
    IN  /\ WritesText(key, user.mods)
        /\ st' = process_text_input(process_key(s, e, ok, TRUE), key, user.mods, ok2)
        /\ UNCHANGED <<conf, user, mc>>

-----------------------------------------------------------------------------
Captured == Captures /\ ~mc.active

MouseMotion(ok, ok2) ==
    /\ st' = IF Captured THEN Fresh ELSE process_mouse_motion(Fresh, ok, ok2)
    /\ UNCHANGED <<conf, user, mc>>

MouseWheel(ok) ==
    /\ WheelAnywhere \/ conf.mp # None
    /\ st' = IF Captured THEN Fresh ELSE process_mouse_wheel(Fresh, ok)
    /\ UNCHANGED <<conf, user, mc>>

(* The release of a button captures the mouse.                              *)
MouseButton(button, double, outside, ok, ok2) ==
    LET down == button \notin user.held
    IN  /\ user' = [user EXCEPT !.held = IF down THEN @ \cup {button} ELSE @ \ {button}]
        /\ mc' = IF Captured /\ ~down /\ ok THEN [mc EXCEPT !.active = TRUE] ELSE mc
        /\ st' = IF Captured THEN Fresh
                 ELSE process_mouse_button(Fresh,
                          [button |-> button, mods |-> user.mods, down |-> down,
                           double |-> double, outside |-> outside], ok, ok2)
        /\ UNCHANGED conf

Touch(ok) ==
    /\ st' = IF Captures THEN Fresh ELSE process_touch(Fresh, ok)
    /\ UNCHANGED <<conf, user, mc>>

FocusLost(ok) ==
    /\ Captures
    /\ mc' = [mc EXCEPT !.active = @ /\ ~ok]
    /\ st' = Fresh
    /\ UNCHANGED <<conf, user>>

(* SDL gives a gamepad that comes back another id: a pad that has left a     *)
(* trace, having been announced twice, does not come back.                  *)
Gamepad(pad) ==
    LET added == pad \notin user.pads
    IN  /\ added => pad \notin user.twice
        /\ user' = [user EXCEPT !.pads = IF added THEN @ \cup {pad} ELSE @ \ {pad}]
        /\ st' = process_gamepad_device(Fresh, pad, added)
        /\ UNCHANGED <<conf, mc>>

(* init_sdl_gamepads() announces every connected gamepad when the server is *)
(* connected: once more, if SDL's own event is still in the queue.          *)
GamepadAgain(pad) ==
    /\ pad \in user.pads \ user.twice
    /\ user' = [user EXCEPT !.twice = @ \cup {pad}]
    /\ st' = process_gamepad_device(Fresh, pad, TRUE)
    /\ UNCHANGED <<conf, mc>>

GamepadInput(pad, ok) ==
    /\ pad \in user.pads
    /\ st' = process_gamepad_input(Fresh, pad, ok)
    /\ UNCHANGED <<conf, user, mc>>

DropFile(ok) ==
    /\ st' = push_file(Fresh, ok)
    /\ UNCHANGED <<conf, user, mc>>

(* sc_input_manager_on_device_disconnected().                               *)
Disconnected ==
    /\ ~st.disconnected
    /\ st' = [Fresh EXCEPT !.disconnected = TRUE]
    /\ UNCHANGED <<conf, user, mc>>

InputNext ==
    \/ \E key \in conf.uses.keys, down, repeat, ok, ok2 \in BOOLEAN :
          Key(key, down, repeat, ok, ok2)
    \/ \E key \in conf.uses.keys, ok, ok2 \in BOOLEAN : Type(key, ok, ok2)
    \/ \E mod \in conf.uses.mods, ok \in BOOLEAN : Modifier(mod, ok)
    \/ \E ok, ok2 \in BOOLEAN : MouseMotion(ok, ok2)
    \/ \E button \in conf.uses.buttons, double, outside, ok, ok2 \in BOOLEAN :
          MouseButton(button, double, outside, ok, ok2)
    \/ \E ok \in BOOLEAN : MouseWheel(ok) \/ Touch(ok) \/ FocusLost(ok) \/ DropFile(ok)
    \/ \E pad \in conf.uses.pads :
          Gamepad(pad) \/ GamepadAgain(pad) \/ \E ok \in BOOLEAN : GamepadInput(pad, ok)
    \/ Disconnected

InputSpec == InputInit /\ [][InputNext]_inputVars

-----------------------------------------------------------------------------
(* Every variable stays within the values the code can give it.            *)
InputTypeOK ==
    /\ user.mods \subseteq Mods /\ user.held \subseteq Buttons
    /\ mc.active \in BOOLEAN /\ mc.key \in Mods \cup {None}
    /\ st.mouse_buttons_state \subseteq Buttons
    /\ st.next_sequence \in 1 .. MaxSequence
    /\ st.last \in {<<>>} \cup {<<mods>> : mods \in SUBSET Mods}

(* Whatever command line was accepted, no sequence of events fails an       *)
(* assertion of input_manager.c or uses a processor that does not exist.    *)
InputIsSafe == ~st.crashed

(* A slot is that of a plugged gamepad, and a gamepad has one slot: but for *)
(* one that was announced twice, which has two while it is plugged and      *)
(* leaves one behind, never more.                                           *)
SlotsFollowPads ==
    \A i, j, k \in 1 .. MaxGamepads :
        LET pad == st.slots[i]
        IN  pad # None =>
              /\ st.disconnected \/ pad \in user.pads \cup user.twice
              /\ pad = st.slots[j] /\ i # j =>
                    pad \in user.twice /\ (st.disconnected \/ pad \in user.pads)
              /\ pad = st.slots[j] /\ pad = st.slots[k] => i = j \/ i = k \/ j = k

(* Nothing is held or plugged for the device that is not for the user: a    *)
(* button that an absolute mouse reports as pressed is held, the second     *)
(* finger of the device is the one that input_manager.c will lift, it does  *)
(* not exist in relative mode, and a gamepad that is unplugged frees its    *)
(* slot, the only exception being the second slot of one that was announced *)
(* twice.                                                                   *)
NothingIsPhantom ==
    /\ InputTypeOK
    /\ ~relative_mode /\ ~st.disconnected => st.mouse_buttons_state \subseteq user.held
    /\ st.finger = st.vfinger_down
    /\ relative_mode => ~st.vfinger_down
    /\ SlotsFollowPads

(* While paused no input is sent to the device: no key, no text, no button, *)
(* no motion, no report of a gamepad and no shortcut.  Three handlers do    *)
(* not test paused: the torch of the camera, gamepads that come and go, and *)
(* dropped files, which are pushed and announced to the device.             *)
PausedIsSilent == st.whilePaused \subseteq {"torch", "gamepad_device", "file"}

(* A Ctrl+v over AOA waits for a clipboard that was sent, each for its own: *)
(* otherwise it is pasted before its text is there, or waits in vain.       *)
PasteWaitsForItsClipboard ==
    /\ st.waits \subseteq st.clips
    /\ \A c \in st.clips : c < st.next_sequence

(* With the keyboard of the SDK, a key that writes a character sends it     *)
(* exactly once, as a key or as a text, whatever the injection mode; in raw *)
(* mode a character without a key is not sent.                              *)
EachCharacterOnce ==
    st.typed # None =>
        \/ st.times = 1
        \/ /\ conf.key_inject_mode = "raw"
           /\ st.typed \notin alphaspace_keys \cup numbers_punct_keys /\ st.times = 0

=============================================================================
