--------------------------- MODULE MC_EvdevEvents ---------------------------
(* Instances of EvdevAxes, and with it of EvdevEvents, for TLC.            *)
EXTENDS EvdevAxes

(* A keyboard with the modifiers of the chord, one of them twice.          *)
Keyboard == {"leftshift", "rightshift", "alt", "ctrl", "q"}
KeyboardMods == [k \in Keyboard |-> CASE k \in {"leftshift", "rightshift"} -> "shift"
                                      [] k = "q" -> "none"
                                      [] OTHER -> k]

Nothing == [keys |-> {}, mouse |-> {}, buttons |-> {}, axes |-> {},
            frame |-> 1, unread |-> 3, drops |-> FALSE]
AKeyboard == [Nothing EXCEPT !.keys = Keyboard, !.unread = 4]
AMouse == [Nothing EXCEPT !.mouse = {"left"}, !.axes = {"x", "y", "wheel"}, !.frame = 2]
APad == [Nothing EXCEPT !.buttons = {"A"}, !.frame = 2]
ALossyPad == [APad EXCEPT !.frame = 1, !.drops = TRUE]
AllKinds == {AKeyboard, AMouse, APad, ALossyPad}

(* A trigger from 0 to 2 with a dead zone of 1, and a d-pad from -1 to 1.  *)
SmallTrigger == InitParms(0, 2, 1)
SmallHat == InitParms(-1, 1, 0)
=============================================================================
