------------------------------- MODULE PiDecoder -------------------------------
(***************************************************************************)
(* The renderer of src/src/video/pi.c: every decode unit goes, its SPS     *)
(* fixed, into an input buffer of OpenMAX's video_decode component.  Once  *)
(* the component has found the size of the picture it announces that its   *)
(* output port changed; the tunnel to the renderer is set up by the next   *)
(* submit, before which it cannot put out any picture.                     *)
(***************************************************************************)
EXTENDS SpsFix

CONSTANTS
    Buffers,        \* input buffers of video_decode
    MaxAhead        \* buffers it empties after the announcement and before the tunnel

ASSUME PiAssumption == Buffers \in Nat \ {0} /\ MaxAhead \in Nat \ {0}

VARIABLES
    pi_at,          \* where the client is
    theirs,         \* filled buffers the component has
    announced, event,   \* it announced the change; its event was not taken yet
    ahead,          \* buffers emptied since and before the tunnel
    port_settings_changed, first_packet

piVars == <<pi_at, theirs, announced, event, ahead, port_settings_changed, first_packet>>
piAll == <<piVars, vars>>

PiInit ==
    /\ pi_at = "setup" /\ theirs = 0 /\ announced = FALSE /\ event = FALSE /\ ahead = 0
    /\ port_settings_changed = FALSE /\ first_packet = FALSE

PiFlags == {"GS_SPS_BITSTREAM_FIXUP"}

PiTypeOK ==
    /\ pi_at \in {"setup", "idle", "get", "filled", "cleanup", "cleaned", "exited"}
    /\ theirs \in 0 .. Buffers /\ announced \in BOOLEAN /\ event \in BOOLEAN
    /\ ahead \in 0 .. MaxAhead
    /\ port_settings_changed \in BOOLEAN /\ first_packet \in BOOLEAN
    /\ TypeOK

----------------------------------------------------------------------------
(* Every failing step of setup ends the process.                           *)
PiSetup ==
    /\ pi_at = "setup"
    /\ \/ pi_at' = "exited" /\ UNCHANGED first_packet
       \/ pi_at' = "idle" /\ first_packet' = TRUE
    /\ UNCHANGED <<vars, theirs, announced, event, ahead, port_settings_changed>>

PiSubmit ==
    /\ pi_at = "idle" /\ pi_at' = "get"
    /\ UNCHANGED <<vars, theirs, announced, event, ahead, port_settings_changed,
                   first_packet>>

(* ilclient_get_input_buffer waits until one is empty.                     *)
FillBuffer(u) ==
    /\ pi_at = "get" /\ theirs < Buffers /\ MayCome(u)
    /\ gs_sps_fix(u)
    /\ first_packet' = FALSE /\ pi_at' = "filled"
    /\ UNCHANGED <<theirs, announced, event, ahead, port_settings_changed>>

(* A unit is never empty, so the event is taken if it is there already.    *)
EmptyThisBuffer ==
    /\ pi_at = "filled"
    /\ LET changed == ~port_settings_changed /\ event
       IN  /\ event' = (event /\ ~changed)
           /\ port_settings_changed' = (port_settings_changed \/ changed)
    /\ pi_at' = "idle" /\ theirs' = theirs + 1
    /\ UNCHANGED <<vars, announced, ahead, first_packet>>

SubmitFails ==
    /\ pi_at \in {"get", "filled"} /\ pi_at' = "exited"
    /\ UNCHANGED <<vars, theirs, announced, event, ahead, port_settings_changed,
                   first_packet>>

(* Cleanup waits for an input buffer too, to send an empty one.            *)
PiCleanup ==
    /\ pi_at = "idle" /\ pi_at' = "cleanup"
    /\ UNCHANGED <<vars, theirs, announced, event, ahead, port_settings_changed,
                   first_packet>>

PiCleanedUp ==
    /\ pi_at = "cleanup" /\ theirs < Buffers /\ pi_at' = "cleaned"
    /\ UNCHANGED <<vars, theirs, announced, event, ahead, port_settings_changed,
                   first_packet>>

----------------------------------------------------------------------------
(* External: the component.  It announces the change no later than when it *)
(* has emptied the first buffer, which has the SPS, and empties some more  *)
(* before it waits for the tunnel.                                         *)
Announce ==
    /\ theirs > 0 /\ ~announced /\ announced' = TRUE /\ event' = TRUE
    /\ UNCHANGED <<vars, pi_at, theirs, ahead, port_settings_changed, first_packet>>

EmptyBufferDone ==
    /\ theirs > 0 /\ announced /\ (port_settings_changed \/ ahead < MaxAhead)
    /\ theirs' = theirs - 1
    /\ ahead' = IF port_settings_changed THEN ahead ELSE ahead + 1
    /\ UNCHANGED <<vars, pi_at, announced, event, port_settings_changed, first_packet>>

PiClient == (\E u \in Units : FillBuffer(u)) \/ EmptyThisBuffer \/ PiCleanedUp
PiComponent == Announce \/ EmptyBufferDone

PiNext == PiSetup \/ PiSubmit \/ PiClient \/ SubmitFails \/ PiCleanup \/ PiComponent

(* The thread that submits and the component go on; nothing is assumed of  *)
(* failures, or of how often units come.                                   *)
PiFairness == WF_piAll(PiClient) /\ WF_piAll(PiComponent)
PiSpec == Init /\ flags = PiFlags /\ PiInit /\ [][PiNext]_piAll /\ PiFairness

----------------------------------------------------------------------------
(* Properties.                                                             *)

(* Neither a submit nor cleanup waits for an input buffer for ever,        *)
(* although the change of the port is noticed only by a later submit.      *)
PiReturns ==
    pi_at \in {"get", "filled", "cleanup"} ~> pi_at \in {"idle", "cleaned", "exited"}
==============================================================================
