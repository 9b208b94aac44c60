------------------------------- MODULE Renderers -------------------------------
(***************************************************************************)
(* The renderers that talk to decoders of their own, one of which          *)
(* platform_check of src/src/platform.c selects: i.MX, Raspberry Pi or     *)
(* Amlogic.  gs_sps_fix is also there for other programs that use          *)
(* libgamestream, with whatever flags they like.                           *)
(***************************************************************************)
EXTENDS PiDecoder

CONSTANTS
    Ring, ImxUnits, Frames, Refs, Delay,    \* of ImxDecoder
    MaxUnits, MaxEntries                    \* of AmlDecoder

(* A unit has an entry, none is empty, and it is never as large as the     *)
(* whole ring.  decoder_renderer_setup registers 18 buffers: more than the *)
(* 16 frames an H.264 stream refers to, and more than two beside those     *)
(* held back.                                                              *)
ASSUME RenderersAssumption ==
    /\ Ring \in Nat \ {0} /\ Frames \in Nat \ {0} /\ Refs \in Nat \ {0} /\ Delay \in Nat
    /\ Frames > Refs /\ Frames > Delay + 2
    /\ \A u \in ImxUnits : /\ u \in Seq(1 .. Ring - 1) /\ u # <<>>
                          /\ \A j \in 1 .. Len(u) : \A i \in 1 .. j - 1 : u[i] < u[j]
    /\ MaxUnits \in Nat \ {0} /\ MaxEntries \in Nat \ {0}

VARIABLES
    system,         \* what platform_check returned, or "library"
    imx_at, prepared, ring, wr, filled, target_addr, fullLength, copied, todo, sent, short,
    free, refs, pending, flagged, queue, finished, queued_count, displaying,
    disp_clr_index, shown,                              \* of ImxDecoder
    aml_at, blanked, freerun, format, unit, entry, needIdr, fed     \* of AmlDecoder

Imx == INSTANCE ImxDecoder WITH Units <- ImxUnits
Aml == INSTANCE AmlDecoder

imx == <<imx_at, prepared, ring, wr, filled, target_addr, fullLength, copied, todo, sent, short,
         free, refs, pending, flagged, queue, finished, queued_count, displaying,
         disp_clr_index, shown>>
aml == <<aml_at, blanked, freerun, format, unit, entry, needIdr, fed>>
allVars == <<system, piAll, imx, aml>>

(* Platforms in the order they are tried for "default"; `works' are those  *)
(* compiled in whose library loads and whose own test succeeds: imx's      *)
(* video_imx_init, pi's symbol bcm_host_init, aml's device /dev/amvideo.   *)
Platforms == <<"imx", "pi", "aml", "sdl", "fake">>

platform_check(name, works) ==
    LET eligible == {i \in DOMAIN Platforms :
                       name \in {"default", Platforms[i]} /\ Platforms[i] \in works}
    IN  IF eligible = {} THEN "none"
        ELSE Platforms[CHOOSE i \in eligible : \A j \in eligible : i <= j]

(* A renderer that is not used keeps the state it was loaded with; where   *)
(* SPS are not fixed, one stream stands for all.                           *)
RenderersInit ==
    /\ \/ system = "library"
       \/ \E name \in Range(Platforms) \cup {"default"}, works \in SUBSET Range(Platforms) :
            system = platform_check(name, works)
    /\ Init /\ PiInit /\ Imx!Init /\ Aml!Init
    /\ system = "pi" => flags = PiFlags
    /\ system \notin {"pi", "library"} =>
         flags = {} /\ <<width, height>> = CHOOSE r \in Resolutions : TRUE

ImxStep == system = "imx" /\ Imx!Next /\ UNCHANGED <<system, piAll, aml>>
AmlStep == system = "aml" /\ Aml!Next /\ UNCHANGED <<system, piAll, imx>>
PiStep == system = "pi" /\ PiNext /\ UNCHANGED <<system, imx, aml>>
LibraryStep == system = "library" /\ Next /\ UNCHANGED <<system, piVars, imx, aml>>

RenderersNext == ImxStep \/ PiStep \/ AmlStep \/ LibraryStep

RenderersSpec == RenderersInit /\ [][RenderersNext]_allVars /\ Imx!Fairness /\ PiFairness

----------------------------------------------------------------------------
(* Properties: those of SpsFix for every SPS a decoder is sent, and:       *)

(* The VPU finds the stream's bytes in the ring, in order and unbroken.    *)
RingInOrder == Imx!RingInOrder

(* The VPU always finds a frame buffer, never one on its way to the screen. *)
FramesRotate == Imx!FramesRotate

(* The Amlogic decoder is never given anything it lacks the reference for. *)
DecodableFeed == Aml!DecodableFeed

(* No call of a renderer waits for ever: not in VIDIOC_DQBUF of the i.MX,  *)
(* not for an input buffer of the Raspberry Pi's component.                *)
SubmitReturns == Imx!SubmitReturns /\ PiReturns
==============================================================================
