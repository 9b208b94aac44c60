----------------------------- MODULE EvdevEvents -----------------------------
(***************************************************************************)
(* What the host sees of one input device: evdev_handle_event of           *)
(* src/src/input/evdev.c, fed by the kernel's event buffer.  The kernel    *)
(* collects a frame and makes it readable at its EV_SYN; when the reader   *)
(* is too slow the buffer overflows and libevdev reports SYN_DROPPED,      *)
(* which evdev_handle prints and passes over.                              *)
(***************************************************************************)
EXTENDS AxisConvert, Sequences, FiniteSets

CONSTANTS
    Key,            \* keys of the keyCodes table
    ModOf,          \* Key -> "shift", "alt", "ctrl" or "none"
    QuitKey,        \* KEY_Q
    MouseButton,    \* BTN_LEFT, BTN_MIDDLE, BTN_RIGHT
    Button,         \* gamepad buttons the mapping names
    PointerAxis,    \* of REL_X, REL_Y, REL_WHEEL
    ZParms,         \* calibration of the trigger axis
    HatParms,       \* calibration of the d-pad axis
    Kinds,          \* the devices there are, with their bounds
    MaxOffset       \* bound: how far the pointer goes

Modifier == {"shift", "alt", "ctrl"}
QUIT_MODIFIERS == Modifier
Hat == {"LEFT", "RIGHT"}
ZValues == ZParms.min .. ZParms.max
HatValues == HatParms.min .. HatParms.max

(* A device: what it has, the events of a frame before its EV_SYN, the     *)
(* events the kernel buffers, and whether the buffer may overflow.         *)
Kind == [keys : SUBSET Key, mouse : SUBSET MouseButton, buttons : SUBSET Button,
         axes : SUBSET PointerAxis, frame : Nat, unread : Nat, drops : BOOLEAN]

ASSUME EventsAssumption ==
    /\ ModOf \in [Key -> Modifier \cup {"none"}]
    /\ QuitKey \in Key => ModOf[QuitKey] = "none"
    /\ Button \cap (Hat \cup {"tl2", "unmapped"}) = {}
    /\ MaxOffset \in Nat
    /\ {ZParms, HatParms} \subseteq InputAbsParms /\ ZParms.flat < ZParms.diff
    /\ Kinds \subseteq Kind

VARIABLES
    \* the device, up to the last event it reported
    kind,
    keyDown, mouseDown, padDown, trigger, pointer,
    frame,              \* events of the frame not yet closed
    queue,              \* events the client may read
    lost,               \* the buffer has overflowed
    \* struct input_device
    modifiers, buttonFlags, leftTrigger, delta, gamepadModified,
    \* the host, after what was sent to it
    hostKeys, hostMouse, hostButtons, hostTrigger, hostPointer,
    quit,               \* the handler returned false
    keysRead            \* the keys that were down at the last event read

deviceVars == <<keyDown, mouseDown, padDown, trigger, pointer>>
hostPad == <<hostButtons, hostTrigger>>
vars == <<kind, keyDown, mouseDown, padDown, trigger, pointer, frame, queue, lost,
          modifiers, buttonFlags, leftTrigger, delta, gamepadModified,
          hostKeys, hostMouse, hostButtons, hostTrigger, hostPointer,
          quit, keysRead>>

Ev(type, code, value) == [type |-> type, code |-> code, value |-> value]
Syn == Ev("syn", "report", 0)

Event ==
    {Ev("key", k, v) : k \in Key, v \in 0 .. 2}
      \cup {Ev("mouse", b, v) : b \in MouseButton, v \in 0 .. 1}
      \cup {Ev("btn", b, v) : b \in Button \cup {"tl2", "unmapped"}, v \in 0 .. 1}
      \cup {Ev("rel", a, v) : a \in PointerAxis, v \in {-1, 1}}
      \cup {Ev("abs", "z", v) : v \in ZValues}
      \cup {Ev("abs", "hat", v) : v \in HatValues}
      \cup {Ev("abs", "unmapped", 0), Syn}

(* A SYN_DROPPED; the keys that are down when the buffer is emptied are    *)
(* noted for keysRead, the program sees nothing of them.                   *)
Dropped == {Ev("dropped", ks, 0) : ks \in SUBSET Key}

TypeOK ==
    /\ kind \in Kinds
    /\ keyDown \in SUBSET Key /\ mouseDown \in SUBSET MouseButton
    /\ padDown \in SUBSET (Button \cup Hat) /\ trigger \in 0 .. UCHAR_MAX
    /\ pointer \in [PointerAxis -> Int]
    /\ frame \in Seq(Event) /\ queue \in Seq(Event \cup Dropped)
    /\ lost \in BOOLEAN
    /\ modifiers \in SUBSET Modifier
    /\ buttonFlags \in SUBSET (Button \cup Hat)
    /\ leftTrigger \in 0 .. UCHAR_MAX
    /\ delta \in [PointerAxis -> {-1, 0, 1}]
    /\ gamepadModified \in BOOLEAN
    /\ hostKeys \in SUBSET Key /\ hostMouse \in SUBSET MouseButton
    /\ hostButtons \in SUBSET (Button \cup Hat)
    /\ hostTrigger \in 0 .. UCHAR_MAX
    /\ hostPointer \in [PointerAxis -> Int]
    /\ quit \in BOOLEAN /\ keysRead \in SUBSET Key

Init ==
    /\ kind \in Kinds
    /\ keyDown = {} /\ mouseDown = {} /\ padDown = {} /\ trigger = 0
    /\ pointer = [a \in PointerAxis |-> 0]
    /\ frame = <<>> /\ queue = <<>> /\ lost = FALSE
    /\ modifiers = {} /\ buttonFlags = {} /\ leftTrigger = 0
    /\ delta = [a \in PointerAxis |-> 0] /\ gamepadModified = FALSE
    /\ hostKeys = {} /\ hostMouse = {} /\ hostButtons = {} /\ hostTrigger = 0
    /\ hostPointer = [a \in PointerAxis |-> 0]
    /\ quit = FALSE /\ keysRead = {}

----------------------------------------------------------------------------
(* Helpers.                                                                *)

Pressed(set, x, value) == IF value # 0 THEN set \cup {x} ELSE set \ {x}

(* The flags a position of the hat stands for.                             *)
HatFlags(dir) == CASE dir = 1 -> {"RIGHT"} [] dir = -1 -> {"LEFT"} [] OTHER -> {}

(* evdev.c:293-302.                                                        *)
WithHat(flags, dir) == (flags \ Hat) \cup HatFlags(dir)

----------------------------------------------------------------------------
(* External: the device and the kernel's buffer.                           *)

Reports(ev) ==
    /\ ~quit /\ Len(frame) < kind.frame
    /\ \A n \in DOMAIN frame : <<frame[n].type, frame[n].code>> # <<ev.type, ev.code>>
    /\ frame' = Append(frame, ev)
    /\ UNCHANGED <<queue, lost, modifiers, buttonFlags, leftTrigger, delta,
                   gamepadModified, hostKeys, hostMouse, hostPad, hostPointer,
                   quit, keysRead>>

(* A key goes down, repeats, or comes up.                                  *)
ReportKey(k) ==
    /\ \E v \in IF k \in keyDown THEN {0, 2} ELSE {1} :
         /\ keyDown' = IF v = 0 THEN keyDown \ {k} ELSE keyDown \cup {k}
         /\ Reports(Ev("key", k, v))
    /\ UNCHANGED <<mouseDown, padDown, trigger, pointer>>

ReportMouse(b) ==
    /\ LET v == IF b \in mouseDown THEN 0 ELSE 1 IN
         mouseDown' = Pressed(mouseDown, b, v) /\ Reports(Ev("mouse", b, v))
    /\ UNCHANGED <<keyDown, padDown, trigger, pointer>>

ReportButton(b) ==
    /\ LET v == IF b \in padDown THEN 0 ELSE 1 IN
         padDown' = Pressed(padDown, b, v) /\ Reports(Ev("btn", b, v))
    /\ UNCHANGED <<keyDown, mouseDown, trigger, pointer>>

ReportTrigger ==
    /\ \/ \E v \in 0 .. 1 : trigger' = v * UCHAR_MAX /\ Reports(Ev("btn", "tl2", v))
       \/ \E v \in ZValues : /\ trigger' = ConvertByte(ZParms, v)
                             /\ Reports(Ev("abs", "z", v))
    /\ UNCHANGED <<keyDown, mouseDown, padDown, pointer>>

ReportHat ==
    /\ \E v \in HatValues :
         /\ padDown' = (padDown \ Hat) \cup HatFlags(ConvertDirection(HatParms, v, FALSE))
         /\ Reports(Ev("abs", "hat", v))
    /\ UNCHANGED <<keyDown, mouseDown, trigger, pointer>>

ReportMove(a) ==
    /\ \E v \in {-1, 1} :
         /\ pointer[a] + v \in -MaxOffset .. MaxOffset
         /\ pointer' = [pointer EXCEPT ![a] = @ + v]
         /\ Reports(Ev("rel", a, v))
    /\ UNCHANGED <<keyDown, mouseDown, padDown, trigger>>

ReportUnmapped ==
    /\ \/ \E v \in 0 .. 1 : Reports(Ev("btn", "unmapped", v))
       \/ Reports(Ev("abs", "unmapped", 0))
    /\ UNCHANGED deviceVars

Fits == Len(queue) + Len(frame) + 1 <= kind.unread

CloseFrame ==
    /\ ~quit /\ frame # <<>>
    /\ \/ /\ Fits
          /\ queue' = queue \o Append(frame, Syn)
          /\ UNCHANGED lost
       \/ /\ ~Fits /\ kind.drops
          /\ queue' = <<Ev("dropped", keyDown, 0)>>
          /\ lost' = TRUE
    /\ frame' = <<>>
    /\ UNCHANGED <<deviceVars, modifiers, buttonFlags, leftTrigger, delta,
                   gamepadModified, hostKeys, hostMouse, hostPad, hostPointer,
                   quit, keysRead>>

Device ==
    \/ \E k \in kind.keys : ReportKey(k)
    \/ \E b \in kind.mouse : ReportMouse(b)
    \/ \E b \in kind.buttons : ReportButton(b)
    \/ kind.buttons # {} /\ (ReportTrigger \/ ReportHat \/ ReportUnmapped)
    \/ \E a \in kind.axes : ReportMove(a)
    \/ CloseFrame

----------------------------------------------------------------------------
(* evdev_handle_event.                                                     *)

Reads(ev) ==
    /\ ~quit /\ queue # <<>>
    /\ ev = Head(queue)
    /\ queue' = Tail(queue)
    /\ UNCHANGED <<deviceVars, frame, lost>>

(* evdev_handle prints `cannot keep up' and reads on.                      *)
OnDropped ==
    /\ \E ev \in Dropped : Reads(ev) /\ keysRead' = ev.code
    /\ UNCHANGED <<modifiers, buttonFlags, leftTrigger, delta, gamepadModified,
                   hostKeys, hostMouse, hostPad, hostPointer, quit>>

(* EV_SYN: the pointer has moved in either axis, or the wheel has.         *)
Moved(a) ==
    CASE a \in {"x", "y"} -> \E b \in PointerAxis \cap {"x", "y"} : delta[b] # 0
      [] OTHER            -> delta[a] # 0

(* Mutant: only the axis that moved is reset.                              *)
OnSynKeepsY ==
    /\ Reads(Syn)
    /\ hostPointer' = [a \in PointerAxis |->
                         IF Moved(a) THEN hostPointer[a] + delta[a] ELSE hostPointer[a]]
    /\ delta' = [a \in PointerAxis |-> IF Moved(a) /\ a # "y" THEN 0 ELSE delta[a]]
    /\ hostButtons' = IF gamepadModified THEN buttonFlags ELSE hostButtons
    /\ hostTrigger' = IF gamepadModified THEN leftTrigger ELSE hostTrigger
    /\ gamepadModified' = FALSE
    /\ UNCHANGED <<modifiers, buttonFlags, leftTrigger, hostKeys, hostMouse, quit,
                   keysRead>>

OnSyn ==
    /\ Reads(Syn)
    /\ hostPointer' = [a \in PointerAxis |->
                         IF Moved(a) THEN hostPointer[a] + delta[a] ELSE hostPointer[a]]
    /\ delta' = [a \in PointerAxis |-> IF Moved(a) THEN 0 ELSE delta[a]]
    /\ hostButtons' = IF gamepadModified THEN buttonFlags ELSE hostButtons
    /\ hostTrigger' = IF gamepadModified THEN leftTrigger ELSE hostTrigger
    /\ gamepadModified' = FALSE
    /\ UNCHANGED <<modifiers, buttonFlags, leftTrigger, hostKeys, hostMouse, quit,
                   keysRead>>

NewModifiers(k, v) ==
    IF ModOf[k] = "none" THEN modifiers ELSE Pressed(modifiers, ModOf[k], v)

(* Mutant: the quit keys are compared by `any' instead of `all'.           *)
QuitChordAny(mods, k, v) == mods \cap QUIT_MODIFIERS # {} /\ k = QuitKey /\ v # 0

QuitChord(mods, k, v) == mods = QUIT_MODIFIERS /\ k = QuitKey /\ v # 0

(* EV_KEY of a keyboard: the press that completes the chord is not sent.   *)
OnKey ==
    /\ \E k \in Key, v \in 0 .. 2 :
         /\ Reads(Ev("key", k, v))
         /\ modifiers' = NewModifiers(k, v)
         /\ keysRead' = Pressed(keysRead, k, v)
         /\ quit' = QuitChord(NewModifiers(k, v), k, v)
         /\ hostKeys' = IF quit' THEN hostKeys ELSE Pressed(hostKeys, k, v)
    /\ UNCHANGED <<buttonFlags, leftTrigger, delta, gamepadModified, hostMouse,
                   hostPad, hostPointer>>

OnMouse ==
    /\ \E b \in MouseButton, v \in 0 .. 1 :
         Reads(Ev("mouse", b, v)) /\ hostMouse' = Pressed(hostMouse, b, v)
    /\ UNCHANGED <<modifiers, buttonFlags, leftTrigger, delta, gamepadModified,
                   hostKeys, hostPad, hostPointer, quit, keysRead>>

(* Mutant: an event that changes nothing takes the flag of the frame back. *)
MarkAssigned(modified) == gamepadModified' = modified

(* dev->gamepadModified |= gamepadModified.                                *)
Mark(modified) == gamepadModified' = (gamepadModified \/ modified)

(* Gamepad buttons, the triggers that are buttons, and the rest.           *)
OnButton ==
    /\ \E b \in Button \cup {"tl2", "unmapped"}, v \in 0 .. 1 :
         /\ Reads(Ev("btn", b, v))
         /\ Mark(b # "unmapped")
         /\ buttonFlags' = IF b \in Button THEN Pressed(buttonFlags, b, v) ELSE buttonFlags
         /\ leftTrigger' = IF b = "tl2" THEN v * UCHAR_MAX ELSE leftTrigger
    /\ UNCHANGED <<modifiers, delta, hostKeys, hostMouse, hostPad, hostPointer,
                   quit, keysRead>>

(* EV_REL: the last value of the frame counts.                             *)
OnRel ==
    /\ \E a \in PointerAxis, v \in {-1, 1} :
         Reads(Ev("rel", a, v)) /\ delta' = [delta EXCEPT ![a] = v]
    /\ UNCHANGED <<modifiers, buttonFlags, leftTrigger, gamepadModified, hostKeys,
                   hostMouse, hostPad, hostPointer, quit, keysRead>>

(* EV_ABS.                                                                 *)
OnAbs ==
    /\ \/ \E v \in ZValues : /\ Reads(Ev("abs", "z", v))
                             /\ leftTrigger' = ConvertByte(ZParms, v)
                             /\ Mark(TRUE)
                             /\ UNCHANGED buttonFlags
       \/ \E v \in HatValues :
            /\ Reads(Ev("abs", "hat", v))
            /\ buttonFlags' = WithHat(buttonFlags, ConvertDirection(HatParms, v, FALSE))
            /\ Mark(TRUE)
            /\ UNCHANGED leftTrigger
       \/ /\ Reads(Ev("abs", "unmapped", 0))
          /\ Mark(FALSE)
          /\ UNCHANGED <<buttonFlags, leftTrigger>>
    /\ UNCHANGED <<modifiers, delta, hostKeys, hostMouse, hostPad, hostPointer,
                   quit, keysRead>>

Handle == OnDropped \/ OnSyn \/ OnKey \/ OnMouse \/ OnButton \/ OnRel \/ OnAbs

Next == (Device \/ Handle) /\ UNCHANGED kind

Spec == Init /\ [][Next]_vars

----------------------------------------------------------------------------
(* Properties.                                                             *)

(* Everything the device reported has been read, and nothing was lost.     *)
CaughtUp == frame = <<>> /\ queue = <<>> /\ ~lost /\ ~quit

(* Keys and mouse buttons are down at the host exactly when they are.      *)
KeysInStep == hostKeys = keyDown /\ hostMouse = mouseDown

(* The controller of the host shows the pad: no change of a frame is       *)
(* forgotten because of another event in it (dev->gamepadModified |= ...). *)
PadInStep == hostButtons = padDown /\ hostTrigger = trigger

(* The pointer and wheel of the host have moved as far as the mouse: no    *)
(* movement is sent twice or left over for a later frame.                  *)
PointerInStep == hostPointer = pointer

(* The host shows a device whose frames were all read.                     *)
InStep == CaughtUp => KeysInStep /\ PadInStep /\ PointerInStep

(* Between frames the host knows what the program knows of the pad, even   *)
(* after a loss.                                                           *)
PadFlushed == ~gamepadModified => hostButtons = buttonFlags /\ hostTrigger = leftTrigger

(* The modifiers the host is told are those of keys that are down, and the *)
(* stream ends only when the whole chord is down (evdev.c:186): as long as *)
(* no event was lost.                                                      *)
ModifiersHeld ==
    ~lost => /\ modifiers \subseteq {ModOf[k] : k \in keysRead}
             /\ quit => QUIT_MODIFIERS \subseteq {ModOf[k] : k \in keysRead}

=============================================================================
