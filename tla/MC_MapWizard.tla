----------------------------- MODULE MC_MapWizard -----------------------------
(* Instances of MapWizard for TLC.                                         *)
EXTENDS MapWizard

Stick == InitParms(-2, 2, 0)
Trigger == InitParms(0, 4, 0)

SticksCodes == {"ABS_X", "ABS_Y", "ABS_RX", "ABS_RY"}
HatCodes == {"ABS_HAT0X", "ABS_HAT0Y"}
TriggerCodes == {"ABS_Z", "ABS_RZ"}
Parms(codes) == [a \in codes |-> IF a \in TriggerCodes THEN Trigger ELSE Stick]

Answers(key, abs, to) == [key |-> key, abs |-> abs, to |-> to]

(* What answers the elements that all the pads have alike, and a hat.      *)
StickAnswer(what) ==
    CASE what = "Left Stick Right" -> Answers(NoCode, "ABS_X", 2)
      [] what = "Left Stick Up" -> Answers(NoCode, "ABS_Y", -2)
      [] what = "Right Stick Right" -> Answers(NoCode, "ABS_RX", 2)
      [] what = "Right Stick Up" -> Answers(NoCode, "ABS_RY", -2)
      [] OTHER -> Answers(what, NoCode, 0)
HatAnswer(what) ==
    CASE what = "D-Pad Right" -> Answers(NoCode, "ABS_HAT0X", 2)
      [] what = "D-Pad Left" -> Answers(NoCode, "ABS_HAT0X", -2)
      [] what = "D-Pad Down" -> Answers(NoCode, "ABS_HAT0Y", 2)
      [] what = "D-Pad Up" -> Answers(NoCode, "ABS_HAT0Y", -2)
      [] OTHER -> StickAnswer(what)

TriggerCode(what) == IF what = "Left Trigger" THEN "ABS_Z" ELSE "ABS_RZ"
Triggers == {"Left Trigger", "Right Trigger"}

Pad(codes, Answering(_)) ==
    [parms |-> Parms(codes), rest |-> [a \in codes |-> 0],
     answer |-> [w \in What |-> Answering(w)]]

(* Pads with a hat or keys for the d-pad, and triggers that are axes, keys *)
(* or both; some of the keys are those of a keyboard or a mouse.           *)
SomeKeys == {"KEY_ESC", "KEY_LEFT", "KEY_Z"}
StrangeAnswer(what) ==
    CASE what = "Back Button" -> Answers("KEY_ESC", NoCode, 0)
      [] what = "D-Pad Left" -> Answers("KEY_LEFT", NoCode, 0)
      [] what = "Start Button" -> Answers("BTN_LEFT", NoCode, 0)
      [] OTHER -> StickAnswer(what)

AllPads ==
    [keys |-> Pad(SticksCodes, StrangeAnswer),
     hat |-> Pad(SticksCodes \cup HatCodes \cup TriggerCodes,
                 LAMBDA w : IF w \in Triggers THEN Answers(NoCode, TriggerCode(w), 4) ELSE HatAnswer(w)),
     both |-> Pad(SticksCodes \cup TriggerCodes,
                  LAMBDA w : IF w \notin Triggers THEN StickAnswer(w)
                             ELSE Answers(IF w = "Left Trigger" THEN "KEY_Z" ELSE w, TriggerCode(w), 4))]
==============================================================================
