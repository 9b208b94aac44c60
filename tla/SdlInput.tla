------------------------------- MODULE SdlInput -------------------------------
(***************************************************************************)
(* Input under SDL: sdlinput_handle_event of src/src/input/sdlinput.c and  *)
(* what sdl_loop of src/src/sdl.c does with its result.  SDL queues the    *)
(* events in their order and loses none below its limit.  The events of    *)
(* the window and of the decoder in the queue are SdlVideo's.              *)
(***************************************************************************)
EXTENDS Naturals, Sequences, FiniteSets

CONSTANTS
    Key,            \* keys of the keyboard
    ModOf,          \* Key -> "shift", "alt", "ctrl" or "none"
    QuitKey, FullscreenKey,
    Pad,            \* SDL_JoystickIDs of the opened game controllers
    NumGamepads,    \* length of gamepads[], 4 in the code
    Kinds           \* what users play with, with the bounds

Modifier == {"shift", "alt", "ctrl"}
ACTION_MODIFIERS == Modifier
Slot == 0 .. NumGamepads - 1

(* What a user plays with, and bounds on the events in SDL's queue when    *)
(* another comes, and on the decode units the user is sent.                *)
MouseButton == {"left", "extra"}
Kind == [keys : SUBSET Key, pads : SUBSET Pad, buttons : SUBSET MouseButton,
         unread : Nat, units : Nat]

ASSUME SdlAssumption ==
    /\ ModOf \in [Key -> Modifier \cup {"none"}]
    /\ {QuitKey, FullscreenKey} \cap {k \in Key : ModOf[k] # "none"} = {}
    /\ QuitKey # FullscreenKey
    /\ Pad \subseteq Nat /\ NumGamepads \in Nat \ {0}
    /\ Kinds \subseteq Kind

VARIABLES
    kind,                           \* the user's, never changed
    keyDown, padDown, mouseDown,    \* the devices, up to their last event
    queue,                          \* SDL's events
    keyboard_modifiers, gamepads,   \* static state of sdlinput.c
    grabbed, fullscreen, done,      \* of sdl.c
    hostKeys, hostPads, hostMouse   \* the host, after what was sent to it

devices == <<kind, keyDown, padDown, mouseDown>>
sdlVars == <<grabbed, fullscreen, done>>
hostVars == <<hostKeys, hostPads, hostMouse>>
vars == <<kind, keyDown, padDown, mouseDown, queue, keyboard_modifiers, gamepads,
          grabbed, fullscreen, done, hostKeys, hostPads, hostMouse>>

Event == [type : {"key"}, what : Key, down : BOOLEAN]
           \cup [type : {"pad"}, what : Pad, down : BOOLEAN]
           \cup [type : {"mouse"}, what : MouseButton, down : BOOLEAN]
           \cup [type : {"frame", "close"}]

(* The state of a gamepad: its button, for all of them.                    *)
Gamepad == [initialized : BOOLEAN, sdl_id : Nat, button : BOOLEAN]

TypeOK ==
    /\ kind \in Kinds
    /\ keyDown \subseteq Key /\ padDown \subseteq Pad /\ mouseDown \subseteq MouseButton
    /\ queue \in Seq(Event)
    /\ keyboard_modifiers \subseteq Modifier
    /\ gamepads \in [Slot -> Gamepad]
    /\ grabbed \in BOOLEAN /\ fullscreen \in BOOLEAN /\ done \in BOOLEAN
    /\ hostKeys \subseteq Key /\ hostPads \in [Slot -> BOOLEAN] /\ hostMouse \subseteq {"left"}

(* sdl_init and sdlinput_init.                                             *)
Init ==
    /\ kind \in Kinds
    /\ keyDown = {} /\ padDown = {} /\ mouseDown = {} /\ queue = <<>>
    /\ keyboard_modifiers = {}
    /\ gamepads = [i \in Slot |-> [initialized |-> FALSE, sdl_id |-> 0, button |-> FALSE]]
    /\ grabbed = TRUE /\ fullscreen \in BOOLEAN /\ done = FALSE
    /\ hostKeys = {} /\ hostPads = [i \in Slot |-> FALSE] /\ hostMouse = {}

Toggled(set, x, down) == IF down THEN set \cup {x} ELSE set \ {x}

----------------------------------------------------------------------------
(* External: the user.                                                     *)

Push(ev) ==
    /\ ~done /\ Len(queue) < kind.unread
    /\ queue' = Append(queue, ev)
    /\ UNCHANGED <<kind, keyboard_modifiers, gamepads, sdlVars, hostVars>>

(* A held key repeats.                                                     *)
UserKey(k) ==
    \E down \in BOOLEAN :
      /\ down \/ k \in keyDown
      /\ keyDown' = Toggled(keyDown, k, down)
      /\ Push([type |-> "key", what |-> k, down |-> down])
      /\ UNCHANGED <<padDown, mouseDown>>

UserPad(p) ==
    LET down == p \notin padDown IN
      /\ padDown' = Toggled(padDown, p, down)
      /\ Push([type |-> "pad", what |-> p, down |-> down])
      /\ UNCHANGED <<keyDown, mouseDown>>

UserMouse(b) ==
    LET down == b \notin mouseDown IN
      /\ mouseDown' = Toggled(mouseDown, b, down)
      /\ Push([type |-> "mouse", what |-> b, down |-> down])
      /\ UNCHANGED <<keyDown, padDown>>

User == \/ \E k \in kind.keys : UserKey(k)
        \/ \E p \in kind.pads : UserPad(p)
        \/ \E b \in kind.buttons : UserMouse(b)

----------------------------------------------------------------------------
(* sdlinput_handle_event and sdl_loop.                                     *)

Waits(ev) ==
    /\ ~done /\ queue # <<>>
    /\ ev = Head(queue)
    /\ queue' = Tail(queue)
    /\ UNCHANGED devices

First(slots) == CHOOSE i \in slots : \A j \in slots : i <= j

Free == {i \in Slot : ~gamepads[i].initialized}

(* Mutant: a free entry is preferred to the controller's own.              *)
GetGamepadFree(p) ==
    LET fits == IF Free # {} THEN Free ELSE {i \in Slot : gamepads[i].sdl_id = p}
    IN IF fits # {} THEN First(fits) ELSE 0

(* get_gamepad: the entry of this controller or a free one, whichever      *)
(* comes first; the first of all when there is neither.                    *)
GetGamepad(p) ==
    LET fits == Free \cup {i \in Slot : gamepads[i].sdl_id = p}
    IN IF fits # {} THEN First(fits) ELSE 0

(* A controller's button; all of its state is sent.                        *)
OnPad ==
    \E p \in Pad, down \in BOOLEAN :
      LET i == GetGamepad(p) IN
        /\ Waits([type |-> "pad", what |-> p, down |-> down])
        /\ gamepads' = [gamepads EXCEPT
             ![i].button = down,
             ![i].sdl_id = IF gamepads[i].initialized THEN @ ELSE p,
             ![i].initialized = TRUE]
        /\ hostPads' = [hostPads EXCEPT ![i] = down]
        /\ UNCHANGED <<keyboard_modifiers, sdlVars, hostKeys, hostMouse>>

(* SDL_MOUSE_GRAB, whichever the button.                                   *)
OnMouse ==
    \E b \in MouseButton, down \in BOOLEAN :
      /\ Waits([type |-> "mouse", what |-> b, down |-> down])
      /\ hostMouse' = IF b = "left" THEN Toggled(hostMouse, b, down) ELSE hostMouse
      /\ grabbed' = TRUE
      /\ UNCHANGED <<keyboard_modifiers, gamepads, fullscreen, done, hostKeys, hostPads>>

(* Mutant: the modifiers are noted when the chord was looked for.          *)
ModifiersBefore(k, down) == keyboard_modifiers

(* The modifiers the chord is looked for in.                               *)
ModifiersAfter(k, down) ==
    IF ModOf[k] = "none" THEN keyboard_modifiers
    ELSE Toggled(keyboard_modifiers, ModOf[k], down)

ActionOf(mods, k, down) ==
    CASE mods # ACTION_MODIFIERS      -> "SDL_NOTHING"
      [] mods = ACTION_MODIFIERS /\ k = QuitKey /\ ~down -> "SDL_QUIT_APPLICATION"
      [] mods = ACTION_MODIFIERS /\ k = FullscreenKey /\ ~down -> "SDL_TOGGLE_FULLSCREEN"
      [] OTHER                        -> "SDL_MOUSE_UNGRAB"

(* With all modifiers down no key is sent.  SDL_TOGGLE_FULLSCREEN falls    *)
(* through to SDL_MOUSE_GRAB.                                              *)
OnKey ==
    \E k \in Key, down \in BOOLEAN :
      LET action == ActionOf(ModifiersAfter(k, down), k, down) IN
        /\ Waits([type |-> "key", what |-> k, down |-> down])
        /\ keyboard_modifiers' = IF ModOf[k] = "none" THEN keyboard_modifiers
                                 ELSE Toggled(keyboard_modifiers, ModOf[k], down)
        /\ hostKeys' = IF action = "SDL_NOTHING" THEN Toggled(hostKeys, k, down) ELSE hostKeys
        /\ done' = (action = "SDL_QUIT_APPLICATION")
        /\ fullscreen' = IF action = "SDL_TOGGLE_FULLSCREEN" THEN ~fullscreen ELSE fullscreen
        /\ grabbed' = CASE action = "SDL_TOGGLE_FULLSCREEN" -> TRUE
                        [] action = "SDL_MOUSE_UNGRAB"      -> FALSE
                        [] OTHER                            -> grabbed
        /\ UNCHANGED <<gamepads, hostPads, hostMouse>>

Handle == OnPad \/ OnMouse \/ OnKey

Next == User \/ Handle

Spec == Init /\ [][Next]_vars

----------------------------------------------------------------------------
(* Properties.                                                             *)

CaughtUp == queue = <<>> /\ ~done

(* The release of a modifier is always sent, however many were down and    *)
(* though keys are held back while all of them are.                        *)
NoStuckModifier ==
    CaughtUp => \A k \in hostKeys : ModOf[k] # "none" => k \in keyDown

(* As long as there is an entry for each controller in use, every one has  *)
(* a controller of its own at the host, which shows it.                    *)
EntriesOf(p) == {i \in Slot : gamepads[i].initialized /\ gamepads[i].sdl_id = p}

PadsApart ==
    (CaughtUp /\ Free # {}) =>
      \A p \in Pad : /\ \A i \in EntriesOf(p) : hostPads[i] = (p \in padDown)
                     /\ p \in padDown => EntriesOf(p) # {}
==============================================================================
