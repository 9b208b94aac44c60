----------------------------- MODULE MC_SdlClient -----------------------------
(* Instances of SdlClient for TLC.                                         *)
EXTENDS SdlClient

(* A keyboard with the modifiers, one of them twice, and the two keys.     *)
Keyboard == {"leftshift", "rightshift", "alt", "ctrl", "q", "f"}
KeyboardMods == [k \in Keyboard |-> CASE k \in {"leftshift", "rightshift"} -> "shift"
                                      [] k \in {"q", "f"} -> "none"
                                      [] OTHER -> k]

Controllers == 0 .. 3

(* One who types anything, one who plays with more controllers than there  *)
(* are entries, one who clicks and one who views, and either may quit with *)
(* the chord, and one who only watches.                                    *)
Nobody == [keys |-> {}, pads |-> {}, buttons |-> {}, unread |-> 1, units |-> 0]
Chord == {"leftshift", "alt", "ctrl", "q"}
Typist == [Nobody EXCEPT !.keys = Keyboard]
FourPads == [Nobody EXCEPT !.pads = Controllers]
Clicker == [Nobody EXCEPT !.keys = Chord, !.buttons = MouseButton]
Viewer == [Nobody EXCEPT !.keys = Chord, !.units = 2]
Watcher == [Nobody EXCEPT !.units = 4]
AllKinds == {Typist, FourPads, Clicker, Viewer, Watcher}
==============================================================================
