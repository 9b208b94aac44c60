-------------------------------- MODULE SpsFix --------------------------------
(***************************************************************************)
(* The sequence parameter sets (SPS) of the video stream are rewritten for *)
(* decoders that are particular: gs_sps_init and gs_sps_fix of             *)
(* src/libgamestream/sps.c.  Only the first entry of a decode unit is      *)
(* looked at.  With GS_SPS_BASELINE_HACK an SPS says it is of the baseline *)
(* profile until one of the high profile was replayed, put before the unit *)
(* after the first that starts with a picture parameter set (PPS).         *)
(***************************************************************************)
EXTENDS Integers, Sequences, SequencesExt

CONSTANTS
    Resolutions,        \* pairs of a width and a height
    MaxRefs,            \* bound: reference frames an SPS of the host asks for
    NoSps               \* h264_stream before an SPS was read

ASSUME SpsAssumption == Resolutions \subseteq Nat \X Nat /\ MaxRefs \in Nat \ {0}

VARIABLES
    width, height,              \* of the stream, as given to gs_sps_init
    initial_width, initial_height,
    replay_sps,
    sps,                        \* h264_stream->sps
    flags,                      \* of the renderer
    given, list                 \* the entries of the last decode unit, before and after

vars == <<width, height, initial_width, initial_height, replay_sps, sps, flags, given, list>>

Flag == {"GS_SPS_BITSTREAM_FIXUP", "GS_SPS_BASELINE_HACK"}

(* Fields the code touches.  The last two are of vui, whose presence the   *)
(* code leaves as it was: they are meant for the SPS that have one.        *)
Sps == [profile_idc : {"BASELINE", "HIGH"}, level_idc : {32, 42, 50},
        num_ref_frames : 1 .. MaxRefs,
        bitstream_restriction_flag : BOOLEAN, max_dec_frame_buffering : 1 .. MaxRefs]
HostSps == {s \in Sps : s.profile_idc = "HIGH" /\ s.level_idc = 50}

(* A NAL unit; Overwritten is one over whose bytes another was written.    *)
Nal == [type : {"SPS"}, sps : Sps] \cup [type : {"PPS", "Slice", "Overwritten"}]
Plain(type) == [type |-> type]
SpsNal(s) == [type |-> "SPS", sps |-> s]

(* External: the decode units of the host.                                 *)
Units == {<<SpsNal(s), Plain("PPS"), Plain("Slice")>> : s \in HostSps}
         \cup {<<SpsNal(s)>> : s \in HostSps}
         \cup {<<Plain("PPS")>>, <<Plain("Slice")>>}

TypeOK ==
    /\ <<width, height>> \in Resolutions
    /\ initial_width \in {0, 1, width} /\ initial_height = height
    /\ replay_sps \in 0 .. 2 /\ sps \in Sps \cup {NoSps} /\ flags \in SUBSET Flag
    /\ given \in Seq(Nal) /\ list \in Seq(Nal)

(* gs_sps_init.                                                            *)
Init ==
    /\ \E r \in Resolutions : width = r[1] /\ height = r[2]
    /\ initial_width = width /\ initial_height = height
    /\ replay_sps = 0 /\ sps = NoSps /\ flags \in SUBSET Flag
    /\ given = <<>> /\ list = <<>>

Fixup == "GS_SPS_BITSTREAM_FIXUP" \in flags
BaselineHack == "GS_SPS_BASELINE_HACK" \in flags

(* Mutant: the second width is compared, after the first SPS was its truth. *)
LevelAndWidthCompared(level) ==
    IF initial_width = 1280 /\ initial_height = 720 THEN <<32, initial_width>>
    ELSE IF initial_width = 1920 /\ initial_height = 1080 THEN <<42, 1>> ELSE <<level, 0>>

(* 1280x720 is compared, 1920 is assigned: where the height is not that of *)
(* 1280x720, the width becomes the truth of 1920 && initial_height == 1080. *)
LevelAndWidth(level) ==
    IF initial_width = 1280 /\ initial_height = 720 THEN <<32, initial_width>>
    ELSE IF initial_height = 1080 THEN <<42, 1>> ELSE <<level, 0>>

Fixed(s) ==
    [s EXCEPT !.level_idc = LevelAndWidth(@)[1],
              !.num_ref_frames = 1,
              !.bitstream_restriction_flag = Fixup,
              !.max_dec_frame_buffering = IF Fixup THEN 1 ELSE @,
              !.profile_idc = IF BaselineHack /\ replay_sps = 0 THEN "BASELINE" ELSE @]

----------------------------------------------------------------------------
(* gs_sps_fix: one action for each case of the first entry.                *)
Gets(unit) == given' = unit /\ UNCHANGED <<width, height, initial_height, flags>>

(* Mutant: the replayed SPS keeps the profile the last one was given.      *)
ReplaySpsAsItWas(unit) ==
    /\ replay_sps = 1 /\ Gets(unit)
    /\ list' = <<SpsNal(sps), Plain("Overwritten")>> \o Tail(unit)
    /\ replay_sps' = 2
    /\ UNCHANGED <<sps, initial_width>>

(* The SPS is replayed before the unit.  Its bytes are written where those *)
(* of the first entry begin: an entry lies before its own bytes.           *)
ReplaySps(unit) ==
    /\ replay_sps = 1 /\ Gets(unit)
    /\ sps' = [sps EXCEPT !.profile_idc = "HIGH"]
    /\ list' = <<SpsNal(sps'), Plain("Overwritten")>> \o Tail(unit)
    /\ replay_sps' = 2
    /\ UNCHANGED initial_width

FixSps(unit) ==
    /\ replay_sps # 1 /\ Head(unit).type = "SPS" /\ Gets(unit)
    /\ sps' = Fixed(Head(unit).sps)
    /\ initial_width' = LevelAndWidth(sps'.level_idc)[2]
    /\ list' = <<SpsNal(sps')>> \o Tail(unit)
    /\ UNCHANGED replay_sps

SeePps(unit) ==
    /\ replay_sps # 1 /\ Head(unit).type = "PPS" /\ Gets(unit) /\ list' = unit
    /\ replay_sps' = IF BaselineHack /\ replay_sps = 0 THEN 1 ELSE replay_sps
    /\ UNCHANGED <<sps, initial_width>>

PassOn(unit) ==
    /\ replay_sps # 1 /\ Head(unit).type \notin {"SPS", "PPS"} /\ Gets(unit) /\ list' = unit
    /\ UNCHANGED <<replay_sps, sps, initial_width>>

(* External: a stream begins with an SPS.                                  *)
MayCome(unit) == sps = NoSps => Head(unit).type = "SPS"

gs_sps_fix(unit) == ReplaySps(unit) \/ FixSps(unit) \/ SeePps(unit) \/ PassOn(unit)

Next == \E unit \in Units : MayCome(unit) /\ gs_sps_fix(unit)

Spec == Init /\ [][Next]_vars

----------------------------------------------------------------------------
(* Properties.                                                             *)

Sent == {list[i].sps : i \in {j \in DOMAIN list : list[j].type = "SPS"}}

(* Every SPS of a stream of a known resolution, not only the first, has    *)
(* the level that goes with it, whatever becomes of the width meanwhile.   *)
KnownLevels ==
    \A s \in Sent :
      /\ <<width, height>> = <<1280, 720>> => s.level_idc = 32
      /\ <<width, height>> = <<1920, 1080>> => s.level_idc = 42

(* What sps.c:60 and its comment mean: with any other resolution the level *)
(* is left as the host chose it.                                           *)
OtherLevelsLeft ==
    <<width, height>> \notin {<<1280, 720>>, <<1920, 1080>>} =>
      \A s \in Sent : s.level_idc = 50

(* No decoder is sent a restriction to buffer fewer frames than it must    *)
(* refer to, whatever the host asked for; not in a replayed SPS either.    *)
BufferingSuffices ==
    \A s \in Sent :
      s.bitstream_restriction_flag => s.max_dec_frame_buffering >= s.num_ref_frames

(* What every decoder is sent, then, it can decode.                        *)
SpsAccepted == KnownLevels /\ BufferingSuffices

(* A decoder that was told of the baseline profile learns of the high one  *)
(* in front of what follows a unit that begins with a PPS.  Whoever knows  *)
(* of it is told of each change before anything else in the unit, and of   *)
(* the baseline never again, whatever the host sends.  Until there is such *)
(* a unit what comes is for the baseline profile; where the PPS follows    *)
(* its SPS in one unit, and no other begins with one, that is for good.    *)
StaysHigh ==
    given # <<>> /\ (Head(given).type = "PPS" \/ sps.profile_idc = "HIGH") =>
      /\ sps'.profile_idc = "HIGH"
      /\ sps' # sps => list'[1] = SpsNal(sps')
      /\ \A s \in Sent' : s.profile_idc = "HIGH"
HighAfterReplay == [][StaysHigh]_vars
==============================================================================
