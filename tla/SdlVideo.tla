------------------------------- MODULE SdlVideo -------------------------------
(***************************************************************************)
(* Frames under SDL: the decoder thread (sdl_submit_decode_unit of         *)
(* src/src/video/sdl.c with ffmpeg_decode of src/src/video/ffmpeg.c) and   *)
(* the main thread (sdl_loop of src/src/sdl.c, then LiStopConnection).     *)
(* They share one frame under a mutex and SDL's event queue, in which other *)
(* events are SdlInput's.                                                  *)
(***************************************************************************)
EXTENDS Naturals, Sequences

CONSTANTS
    MaxUnits,       \* bound: decode units the host sends
    MaxQueue,       \* length of SDL's event queue
    MayMiss         \* whether a unit may be decoded without a picture

VARIABLES
    loop, decoder,  \* where the two threads are
    mutex,          \* who holds it
    frame,          \* the picture in dec_frame, 0 when it holds none
    events,         \* SDL's event queue
    units,          \* decode units so far; each decoded picture has its number
    newest,         \* the last picture decoded
    missed,         \* history: the last unit with a picture was followed by one without
    shown,          \* the picture on the screen, 0 for none
    done, stopping  \* static of sdl.c; LiStopConnection was called

vars == <<loop, decoder, mutex, frame, events, units, newest, missed, shown, done,
          stopping>>

Init ==
    /\ loop = "wait" /\ decoder = "idle" /\ mutex = "free"
    /\ frame = 0 /\ events = <<>> /\ units = 0 /\ newest = 0 /\ missed = FALSE
    /\ shown = 0 /\ done = FALSE /\ stopping = FALSE

TypeOK ==
    /\ loop \in {"wait", "lock", "show", "stop", "returned", "exited"}
    /\ decoder \in {"idle", "lock", "decode", "push", "unlock"}
    /\ mutex \in {"free", "loop", "decoder"}
    /\ units \in 0 .. MaxUnits /\ {frame, newest, shown} \subseteq 0 .. units
    /\ Len(events) <= MaxQueue
    /\ missed \in BOOLEAN /\ done \in BOOLEAN /\ stopping \in BOOLEAN

Running == loop # "exited"

(* SDL_PushEvent: nothing is queued when the queue is full.                *)
Pushed(type) == IF Len(events) < MaxQueue THEN Append(events, [type |-> type]) ELSE events

----------------------------------------------------------------------------
(* The decoder thread.                                                     *)

(* A unit that does not fit the buffer ends the process: exit(1).          *)
SubmitUnit ==
    /\ Running /\ decoder = "idle" /\ ~stopping /\ units < MaxUnits
    /\ units' = units + 1
    /\ \/ decoder' = "lock" /\ UNCHANGED loop
       \/ loop' = "exited" /\ UNCHANGED decoder
    /\ UNCHANGED <<mutex, frame, events, newest, missed, shown, done, stopping>>

(* Mutant: the frame is decoded without the mutex.                         *)
DecoderLockForgotten ==
    /\ Running /\ decoder = "lock" /\ decoder' = "decode"
    /\ UNCHANGED <<loop, mutex, frame, events, units, newest, missed, shown, done, stopping>>

DecoderLock ==
    /\ Running /\ decoder = "lock" /\ mutex = "free"
    /\ mutex' = "decoder" /\ decoder' = "decode"
    /\ UNCHANGED <<loop, frame, events, units, newest, missed, shown, done, stopping>>

(* ffmpeg_decode gives up the frame it had; the unit may give a new one.   *)
Decode ==
    /\ Running /\ decoder = "decode"
    /\ \/ /\ frame' = units /\ newest' = units /\ missed' = FALSE
          /\ decoder' = "push"
       \/ /\ MayMiss
          /\ frame' = 0 /\ missed' = TRUE /\ UNCHANGED newest
          /\ decoder' = "unlock"
    /\ UNCHANGED <<loop, mutex, events, units, shown, done, stopping>>

(* Mutant: a frame is only announced when none is waiting to be.           *)
PushFrameFirstOnly ==
    /\ Running /\ decoder = "push" /\ decoder' = "unlock"
    /\ events' = IF newest = 1 THEN Pushed("frame") ELSE events
    /\ UNCHANGED <<loop, mutex, frame, units, newest, missed, shown, done, stopping>>

PushFrame ==
    /\ Running /\ decoder = "push" /\ decoder' = "unlock"
    /\ events' = Pushed("frame")
    /\ UNCHANGED <<loop, mutex, frame, units, newest, missed, shown, done, stopping>>

(* Mutant: the mutex is kept when there was no picture.                    *)
DecoderUnlockPushedOnly ==
    /\ Running /\ decoder = "unlock" /\ decoder' = "idle"
    /\ mutex' = IF frame = 0 THEN mutex ELSE "free"
    /\ UNCHANGED <<loop, frame, events, units, newest, missed, shown, done, stopping>>

DecoderUnlock ==
    /\ Running /\ decoder = "unlock" /\ decoder' = "idle"
    /\ mutex' = "free"
    /\ UNCHANGED <<loop, frame, events, units, newest, missed, shown, done, stopping>>

Decoder == DecoderLock \/ Decode \/ PushFrame \/ DecoderUnlock

----------------------------------------------------------------------------
(* The main thread.                                                        *)

(* External: the window is closed.                                         *)
UserQuits ==
    /\ Running /\ ~done /\ \A n \in DOMAIN events : events[n].type # "close"
    /\ Len(events) < MaxQueue
    /\ events' = Append(events, [type |-> "close"])
    /\ UNCHANGED <<loop, decoder, mutex, frame, units, newest, missed, shown, done, stopping>>

LoopWaits(type) ==
    /\ loop = "wait" /\ ~done /\ events # <<>> /\ Head(events).type = type
    /\ events' = Tail(events)

LoopFrame ==
    /\ LoopWaits("frame") /\ loop' = "lock"
    /\ UNCHANGED <<decoder, mutex, frame, units, newest, missed, shown, done, stopping>>

LoopClosed ==
    /\ LoopWaits("close") /\ done' = TRUE
    /\ UNCHANGED <<loop, decoder, mutex, frame, units, newest, missed, shown, stopping>>

LoopLock ==
    /\ loop = "lock" /\ mutex = "free"
    /\ mutex' = "loop" /\ loop' = "show"
    /\ UNCHANGED <<decoder, frame, events, units, newest, missed, shown, done, stopping>>

(* The event points at dec_frame, whatever that holds by now.  Without a   *)
(* picture the texture is not updated and the old one is shown again.      *)
LoopShow ==
    /\ loop = "show" /\ loop' = "wait"
    /\ shown' = IF frame = 0 THEN shown ELSE frame
    /\ mutex' = "free"
    /\ UNCHANGED <<decoder, frame, events, units, newest, missed, done, stopping>>

(* Once done, whatever is still queued: SDL_DestroyWindow and SDL_Quit.    *)
LoopDestroy ==
    /\ loop = "wait" /\ done /\ loop' = "stop"
    /\ events' = <<>>
    /\ UNCHANGED <<decoder, mutex, frame, units, newest, missed, shown, done, stopping>>

(* LiStopConnection: no unit is submitted any more, and when the decoder   *)
(* thread has returned ffmpeg_destroy frees the frame.                     *)
StopConnection ==
    /\ loop = "stop"
    /\ stopping' = TRUE
    /\ \/ decoder # "idle" /\ UNCHANGED <<loop, frame>>
       \/ decoder = "idle" /\ loop' = "returned" /\ frame' = 0
    /\ UNCHANGED <<decoder, mutex, events, units, newest, missed, shown, done>>

Loop == LoopFrame \/ LoopClosed \/ LoopLock \/ LoopShow \/ LoopDestroy \/ StopConnection

Next == SubmitUnit \/ Decoder \/ UserQuits \/ Loop

Spec == Init /\ [][Next]_vars

(* Both threads are scheduled; nothing is assumed of the host or the user, *)
(* and units come to an end, so a mutex without queueing starves nobody.   *)
Fairness == WF_vars(Loop) /\ WF_vars(Decoder)
FairSpec == Spec /\ Fairness

----------------------------------------------------------------------------
(* Properties.                                                             *)

(* No frame is shown while it is being decoded.                            *)
NoTearing == ~(loop = "show" /\ decoder \in {"decode", "push"})

(* The last picture is shown, even when the queue had no room for its      *)
(* event, unless a unit without a picture emptied the frame before.        *)
LatestShown ==
    \A n \in 1 .. MaxUnits :
      (newest = n) ~> (shown >= n \/ missed \/ done \/ ~Running)

(* Once told to, the program comes to its end.                             *)
QuitReturns == done ~> loop \in {"returned", "exited"}
==============================================================================
