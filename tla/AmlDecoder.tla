------------------------------ MODULE AmlDecoder ------------------------------
(***************************************************************************)
(* The renderer of src/src/video/aml.c: entries are written to the Amlogic *)
(* decoder one by one; a write that takes less than an entry resets the    *)
(* decoder and asks the connection for an IDR frame.  It blanks the two    *)
(* OSD layers while it streams.                                            *)
(***************************************************************************)
EXTENDS Integers, Sequences

CONSTANTS
    MaxUnits,       \* bound: units the host sends
    MaxEntries      \* bound: entries of a unit

VARIABLES
    aml_at,         \* where the client is
    blanked, freerun,   \* the OSD layers that are blanked, and the mode of /dev/amvideo
    format,         \* codecParam.am_sysinfo.format, and whether param has UCODE_IP_ONLY_PARAM
    unit, entry,    \* the decode unit being submitted, and its entry
    needIdr,        \* the connection was told DR_NEED_IDR
    fed             \* entries the decoder took since it was opened or reset

amlVars == <<aml_at, blanked, freerun, format, unit, entry, needIdr, fed>>

Osd == {0, 1}
Unit == [number : 0 .. MaxUnits, idr : BOOLEAN, entries : 0 .. MaxEntries]
NoFormat == [name |-> "none", ipOnly |-> FALSE]

Init ==
    /\ aml_at = "setup" /\ blanked = {} /\ freerun = FALSE /\ format = NoFormat
    /\ unit = [number |-> 0, idr |-> FALSE, entries |-> 0] /\ entry = 1
    /\ needIdr = TRUE /\ fed = <<>>

TypeOK ==
    /\ aml_at \in {"setup", "open", "idle", "write", "cleaned", "exited"}
    /\ blanked \subseteq Osd /\ freerun \in BOOLEAN
    /\ format \in [name : {"none", "H264", "H264_4K2K", "HEVC"}, ipOnly : BOOLEAN]
    /\ unit \in Unit /\ entry \in 1 .. MaxEntries + 1 /\ needIdr \in BOOLEAN
    /\ fed \in Seq([unit : Unit, entry : 1 .. MaxEntries])

----------------------------------------------------------------------------
(* aml_setup: each layer is blanked unless its device fails; likewise the  *)
(* free running mode.                                                      *)
Setup ==
    /\ aml_at = "setup" /\ aml_at' = "open"
    /\ blanked' \in SUBSET Osd /\ freerun' \in BOOLEAN
    /\ UNCHANGED <<format, unit, entry, needIdr, fed>>

(* The decoder for the codec, the size and the kernel: H.264 above 1080p   *)
(* has one of its own, and at 1080p kernels before 3.14 (the C1) need the  *)
(* workaround.  Any other codec ends the process, as a failing codec_init  *)
(* does, and the layers stay blanked.                                      *)
FormatOf(codec, size, oldKernel) ==
    CASE codec = "H265"                   -> [name |-> "HEVC", ipOnly |-> FALSE]
      [] codec = "H264" /\ size = "above" -> [name |-> "H264_4K2K", ipOnly |-> FALSE]
      [] OTHER -> [name |-> "H264", ipOnly |-> oldKernel /\ size = "1080p"]

Open(codec, size, oldKernel) ==
    /\ aml_at = "open"
    /\ \/ aml_at' = "exited" /\ UNCHANGED format
       \/ /\ codec \in {"H264", "H265"}
          /\ format' = FormatOf(codec, size, oldKernel) /\ aml_at' = "idle"
    /\ UNCHANGED <<blanked, freerun, unit, entry, needIdr, fed>>

(* External: after a loss, its own or one it was told of, the connection   *)
(* passes on nothing before the next IDR frame; units are numbered as the  *)
(* host sent them.                                                         *)
SubmitUnit(u) ==
    /\ aml_at = "idle" /\ u.number > unit.number /\ u.entries > 0
    /\ u.idr \/ (~needIdr /\ u.number = unit.number + 1)
    /\ unit' = u /\ entry' = 1 /\ needIdr' = FALSE /\ aml_at' = "write"
    /\ UNCHANGED <<blanked, freerun, format, fed>>

(* codec_write took the whole entry.                                       *)
WriteEntry ==
    /\ aml_at = "write"
    /\ fed' = Append(fed, [unit |-> unit, entry |-> entry])
    /\ entry' = entry + 1
    /\ aml_at' = IF entry = unit.entries THEN "idle" ELSE "write"
    /\ UNCHANGED <<blanked, freerun, format, unit, needIdr>>

(* Mutant: the rest of the unit is written after the reset.                *)
WriteFailsGoesOn ==
    /\ aml_at = "write" /\ fed' = <<>> /\ needIdr' = TRUE
    /\ entry' = entry + 1
    /\ aml_at' = IF entry = unit.entries THEN "idle" ELSE "write"
    /\ UNCHANGED <<blanked, freerun, format, unit>>

(* It took less, or failed: the rest of the unit is given up.              *)
WriteFails ==
    /\ aml_at = "write" /\ aml_at' = "idle"
    /\ fed' = <<>> /\ needIdr' = TRUE
    /\ UNCHANGED <<blanked, freerun, format, unit, entry>>

(* aml_cleanup: a layer whose device fails now stays as it was.            *)
Cleanup ==
    /\ aml_at = "idle" /\ aml_at' = "cleaned" /\ fed' = <<>>
    /\ blanked' \in SUBSET blanked /\ freerun' \in {freerun, FALSE}
    /\ UNCHANGED <<format, unit, entry, needIdr>>

Next ==
    \/ Setup
    \/ \E codec \in {"H264", "H265", "other"}, size \in {"below", "1080p", "above"},
          oldKernel \in BOOLEAN : Open(codec, size, oldKernel)
    \/ (\E u \in Unit : SubmitUnit(u)) \/ WriteEntry \/ WriteFails \/ Cleanup

Spec == Init /\ [][Next]_amlVars

----------------------------------------------------------------------------
(* Properties.                                                             *)

Follows(next, last) ==
    \/ next.unit = last.unit /\ next.entry = last.entry + 1
    \/ /\ last.entry = last.unit.entries /\ next.entry = 1
       /\ next.unit.idr \/ next.unit.number = last.unit.number + 1

(* Whatever was lost on the way or not taken by a write, the decoder is    *)
(* never given anything it lacks the reference for: what it took begins    *)
(* with a whole IDR unit and has no gap but before another.                *)
DecodableFeed ==
    /\ fed # <<>> => fed[1].entry = 1 /\ fed[1].unit.idr
    /\ \A i \in 2 .. Len(fed) : Follows(fed[i], fed[i - 1])
==============================================================================
