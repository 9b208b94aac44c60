------------------------------- MODULE SdlClient -------------------------------
(***************************************************************************)
(* The client on SDL: sdl_loop of src/src/sdl.c takes the user's input,    *)
(* the decoder's frames and the closing of the window from one queue, and  *)
(* the chord or the window ends it, whatever is still queued.              *)
(***************************************************************************)
EXTENDS SdlInput

CONSTANTS
    MaxQueue,       \* length of SDL's event queue
    MaxUnits,       \* bound: decode units the host sends
    MayMiss         \* whether a unit may be decoded without a picture

(* Users are slower than SDL's limit of 65535 events: keys and pads leave  *)
(* room for the event of a frame.                                          *)
ASSUME ClientAssumption ==
    /\ MaxUnits \in Nat /\ MaxQueue \in Nat \ {0} /\ MayMiss \in BOOLEAN
    /\ \A k \in Kinds : k.unread < MaxQueue /\ k.units <= MaxUnits

VARIABLES loop, decoder, mutex, frame, units, newest, missed, shown, stopping

Video == INSTANCE SdlVideo WITH events <- queue

inputOnly == <<kind, keyDown, padDown, mouseDown, keyboard_modifiers, gamepads, grabbed,
               fullscreen, hostKeys, hostPads, hostMouse>>
videoOnly == <<loop, decoder, mutex, frame, units, newest, missed, shown, stopping>>
clientVars == <<inputOnly, queue, done, videoOnly>>

ClientInit == Init /\ Video!Init

(* The user goes on while the process runs; what happens to the window     *)
(* that is closed is the loop's matter.                                    *)
UserStep == Video!Running /\ User /\ UNCHANGED videoOnly
InputStep == loop = "wait" /\ Handle /\ UNCHANGED videoOnly
VideoStep == Video!Next /\ units' <= kind.units /\ UNCHANGED inputOnly

ClientNext == UserStep \/ InputStep \/ VideoStep

(* Both threads are scheduled; nothing is assumed of the host or the user, *)
(* and units come to an end, so a mutex without queueing starves nobody.   *)
MainThread == InputStep \/ (Video!Loop /\ UNCHANGED inputOnly)
DecoderThread == Video!Decoder /\ UNCHANGED inputOnly

ClientSpec ==
    /\ ClientInit /\ [][ClientNext]_clientVars
    /\ WF_clientVars(MainThread) /\ WF_clientVars(DecoderThread)

----------------------------------------------------------------------------
(* Properties, beside those of SdlInput.                                   *)

(* No frame is shown while it is being decoded.                            *)
NoTearing == Video!NoTearing

(* The last picture is shown although input shares the queue, and even     *)
(* when that had no room for its event, unless a unit without a picture    *)
(* emptied the frame before.                                               *)
LatestShown == Video!LatestShown

(* By the chord as by the window, and with whatever still in the queue,    *)
(* the program comes to its end once it was told to.                       *)
QuitReturns == Video!QuitReturns
==============================================================================
