------------------------------ MODULE ImxDecoder ------------------------------
(***************************************************************************)
(* The decoder of src/src/video/imx.c between three parties: the client    *)
(* writes decode units into a ring the VPU reads; the VPU decodes them     *)
(* into frame buffers; V4L2 displays these.  A frame buffer belongs to the *)
(* VPU (free), to the stream (it is referred to, or waits for its turn),   *)
(* is flagged as displayed until vpu_DecClrDispFlag, and is in V4L2's      *)
(* hands from VIDIOC_QBUF to VIDIOC_DQBUF.                                 *)
(***************************************************************************)
EXTENDS Integers, Sequences, SequencesExt

CONSTANTS
    Ring,           \* STREAM_BUF_SIZE
    Units,          \* decode units: each the sequence of where its entries end in it
    Frames,         \* regfbcount
    Refs,           \* frames the stream refers back to
    Delay           \* frames the VPU holds back before it displays one

VARIABLES
    imx_at,         \* where the client is
    prepared,       \* how many of SetupSteps were taken
    ring,           \* the bytes, each by its place in the stream modulo Turn
    wr, filled,     \* the VPU's write pointer; bytes it has not read yet
    target_addr, fullLength,    \* of submit: where it writes, the unit's bytes
    copied, todo,   \* how many of them it has written, the entries it has still to write
    sent,           \* history: bytes of the stream so far, modulo Turn
    short,          \* history: a unit was larger than the room; sent and ring stop there
    free,           \* buffers the VPU may decode into, longest free first
    refs, pending,  \* buffers that are referred to, and that wait to be displayed
    flagged,        \* buffers whose display flag is set
    queue, finished,    \* buffers queued in V4L2, and those it is done with
    queued_count, displaying, disp_clr_index,
    shown           \* outinfo.indexFrameDisplay of the current submit

imxRing == <<ring, wr, filled, target_addr, fullLength, copied, todo, sent, short>>
imxFrames == <<free, refs, pending, flagged, queue, finished, queued_count, displaying,
               disp_clr_index, shown>>
imxVars == <<imx_at, prepared, imxRing, imxFrames>>

(* Mutant: a buffer is waited for although V4L2 shows the only one.        *)
ThresholdNone == 0

Threshold == 2
Turn == 2 * Ring

(* decoder_renderer_setup: what is acquired, in this order.                *)
SetupSteps == <<"format", "alpha", "mem", "virt", "ps", "open", "slice", "fb", "video",
                "pixels", "buffers", "map", "mvcol">>

Init ==
    /\ imx_at = "setup" /\ prepared = 0
    /\ ring = [a \in 0 .. Ring - 1 |-> 0] /\ wr = 0 /\ filled = 0
    /\ target_addr = 0 /\ fullLength = 0 /\ copied = 0 /\ todo = <<>>
    /\ sent = 0 /\ short = FALSE
    /\ free = [i \in 1 .. Frames |-> i - 1] /\ refs = <<>> /\ pending = <<>> /\ flagged = {}
    /\ queue = <<>> /\ finished = <<>> /\ queued_count = 0 /\ displaying = FALSE
    /\ disp_clr_index = 0 /\ shown = 0

TypeOK ==
    /\ imx_at \in {"setup", "idle", "write", "decode", "queue", "dequeue", "clear",
                   "cleaned", "exited"}
    /\ prepared \in 0 .. Len(SetupSteps)
    /\ ring \in [0 .. Ring - 1 -> 0 .. Turn - 1]
    /\ wr \in 0 .. Ring - 1 /\ filled \in 0 .. Ring - 1 /\ target_addr \in 0 .. Ring
    /\ {fullLength, copied} \subseteq 0 .. Ring - 1 /\ todo \in Seq(1 .. Ring - 1)
    /\ sent \in 0 .. Turn - 1 /\ short \in BOOLEAN
    /\ {free, refs, pending, queue, finished} \subseteq Seq(0 .. Frames - 1)
    /\ flagged \subseteq 0 .. Frames - 1 /\ {disp_clr_index, shown} \subseteq 0 .. Frames - 1
    /\ queued_count \in 0 .. Threshold + 1 /\ displaying \in BOOLEAN

Exit == imx_at' = "exited"

----------------------------------------------------------------------------
(* Setup: whatever fails ends the process with what was acquired before    *)
(* left as it is, the alpha of the framebuffer included.                   *)
Setup ==
    /\ imx_at = "setup"
    /\ \/ Exit /\ UNCHANGED prepared
       \/ /\ prepared' = prepared + 1
          /\ imx_at' = IF prepared' = Len(SetupSteps) THEN "idle" ELSE "setup"
    /\ UNCHANGED <<imxRing, imxFrames>>

(* Submit: vpu_DecGetBitstreamBuffer tells the write pointer and the room. *)
(* A unit that does not fit is reported, and written all the same.         *)
SubmitUnit(u) ==
    /\ imx_at = "idle"
    /\ \/ Exit /\ UNCHANGED <<target_addr, fullLength, copied, todo, short>>
       \/ /\ imx_at' = "write" /\ target_addr' = wr /\ todo' = u /\ copied' = 0
          /\ fullLength' = Last(u)
          /\ short' = (short \/ Ring - 1 - filled < fullLength')
    /\ UNCHANGED <<prepared, ring, wr, filled, sent, imxFrames>>

(* entry->length                                                           *)
Length == Head(todo) - copied

(* memcpy of the next n bytes of the stream: to `from', and with an entry  *)
(* that does not fit behind it, the rest of it to the start of the ring.   *)
Copied(from, n) ==
    [a \in 0 .. Ring - 1 |->
       CASE a \in from .. from + n - 1 -> (sent + a - from) % Turn
         [] a < from + n - Ring        -> (sent + Ring - from + a) % Turn
         [] OTHER                      -> ring[a]]

Copy(n) ==
    IF short THEN UNCHANGED <<ring, sent>>
             ELSE ring' = Copied(target_addr, n) /\ sent' = (sent + n) % Turn

(* Mutant: after the wrap, the target is a whole entry into the ring.      *)
WriteEntryWholeAhead ==
    /\ imx_at = "write" /\ todo # <<>>
    /\ Copy(Length)
    /\ target_addr' = IF target_addr + Length > Ring THEN Length
                                                         ELSE target_addr + Length
    /\ copied' = Head(todo) /\ todo' = Tail(todo)
    /\ UNCHANGED <<imx_at, prepared, wr, filled, fullLength, short, imxFrames>>

WriteEntry ==
    /\ imx_at = "write" /\ todo # <<>>
    /\ Copy(Length)
    /\ target_addr' = IF target_addr + Length > Ring
                      THEN target_addr + Length - Ring
                      ELSE target_addr + Length
    /\ copied' = Head(todo) /\ todo' = Tail(todo)
    /\ UNCHANGED <<imx_at, prepared, wr, filled, fullLength, short, imxFrames>>

(* vpu_DecUpdateBitstreamBuffer, which refuses more than fits; its result  *)
(* is ignored.  Then decoding starts: `decoding' is false at every submit, *)
(* and VPU and V4L2 are initialised by the first.                          *)
StartDecoding ==
    /\ imx_at = "write" /\ todo = <<>>
    /\ IF fullLength < Ring - filled
       THEN wr' = (wr + fullLength) % Ring /\ filled' = filled + fullLength
       ELSE UNCHANGED <<wr, filled>>
    /\ imx_at' = "decode" \/ Exit
    /\ UNCHANGED <<prepared, ring, target_addr, fullLength, copied, todo, sent, short, imxFrames>>

----------------------------------------------------------------------------
(* The VPU's outcome, external but for what the client makes of it: it     *)
(* reads on to the end of a unit, which it may not find; decodes into the  *)
(* buffer longest free, when there is one; and displays in order.          *)
LastRefs(s) == IF Len(s) > Refs THEN Tail(s) ELSE s

(* A buffer that is no longer referred to, waiting or flagged is free.     *)
Freed(f, r, p, fl) == IF f \in Range(r) \cup Range(p) \cup fl THEN <<>> ELSE <<f>>

(* 0x10: the unit was not complete; nothing is read.  Or the client exits: *)
(* too long busy, no output info, buffers too small, nothing decoded (-1). *)
DecodeNothing ==
    /\ imx_at = "decode" /\ imx_at' \in {"idle", "exited"}
    /\ UNCHANGED <<prepared, imxRing, imxFrames>>

Decode(n) ==
    /\ imx_at = "decode" /\ free # <<>> /\ n \in 1 .. filled
    /\ filled' = filled - n
    /\ LET f == Head(free)
           all == Append(pending, f)
           display == Len(all) > Delay
       IN  /\ refs' = LastRefs(Append(refs, f))
           /\ pending' = IF display THEN Tail(all) ELSE all
           /\ flagged' = IF display THEN flagged \cup {Head(all)} ELSE flagged
           /\ shown' = IF display THEN Head(all) ELSE shown
           /\ imx_at' = IF display THEN "queue" ELSE "idle"
           /\ free' = Tail(free) \o (IF Len(refs) < Refs THEN <<>>
                                    ELSE Freed(Head(refs), refs', pending', flagged'))
    /\ UNCHANGED <<prepared, ring, wr, target_addr, fullLength, copied, todo, sent, short, queue,
                   finished, queued_count, displaying, disp_clr_index>>

----------------------------------------------------------------------------
(* VIDIOC_QBUF fails for a buffer that V4L2 still has.                     *)
Held == Range(queue) \cup Range(finished)

QueueFrame ==
    /\ imx_at = "queue"
    /\ IF shown \in Held
       THEN Exit /\ UNCHANGED <<queue, queued_count, displaying>>
       ELSE /\ queue' = Append(queue, shown) /\ displaying' = TRUE
            /\ queued_count' = queued_count + 1
            /\ imx_at' = IF queued_count' > Threshold THEN "dequeue" ELSE "clear"
    /\ UNCHANGED <<prepared, imxRing, free, refs, pending, flagged, finished,
                   disp_clr_index, shown>>

(* External: a buffer is done with when the next is displayed instead.     *)
DisplayNext ==
    /\ displaying /\ imx_at # "exited" /\ Len(queue) > 1
    /\ queue' = Tail(queue) /\ finished' = Append(finished, Head(queue))
    /\ UNCHANGED <<imx_at, prepared, imxRing, free, refs, pending, flagged, queued_count,
                   displaying, disp_clr_index, shown>>

(* VIDIOC_DQBUF waits for a buffer V4L2 is done with, whichever it is.     *)
DequeueFrame ==
    /\ imx_at = "dequeue" /\ finished # <<>>
    /\ finished' = Tail(finished) /\ queued_count' = queued_count - 1
    /\ imx_at' = "clear"
    /\ UNCHANGED <<prepared, imxRing, free, refs, pending, flagged, queue, displaying,
                   disp_clr_index, shown>>

(* Any ioctl on the device may fail.                                       *)
DeviceFails ==
    /\ imx_at \in {"queue", "dequeue"} /\ Exit
    /\ UNCHANGED <<prepared, imxRing, imxFrames>>

(* vpu_DecClrDispFlag                                                      *)
Clear(f) ==
    /\ flagged' = flagged \ {f}
    /\ free' = IF f \in flagged THEN free \o Freed(f, refs, pending, flagged') ELSE free

(* Mutant: disp_clr_index stays what it was.                               *)
ClearFlagOfFirst ==
    /\ imx_at = "clear" /\ imx_at' = "idle"
    /\ Clear(disp_clr_index)
    /\ UNCHANGED <<prepared, imxRing, refs, pending, queue, finished, queued_count,
                   displaying, disp_clr_index, shown>>

(* The flag that is cleared is that of the frame queued before; the first  *)
(* time, with disp_clr_index as it was initialised, that of buffer 0.      *)
ClearFlag ==
    /\ imx_at = "clear" /\ imx_at' = "idle"
    /\ Clear(disp_clr_index)
    /\ disp_clr_index' = shown
    /\ UNCHANGED <<prepared, imxRing, refs, pending, queue, finished, queued_count,
                   displaying, shown>>

Cleanup ==
    /\ imx_at = "idle" /\ imx_at' = "cleaned"
    /\ UNCHANGED <<prepared, imxRing, imxFrames>>

Client == WriteEntry \/ StartDecoding \/ DecodeNothing \/ (\E n \in 1 .. filled : Decode(n))
          \/ QueueFrame \/ DequeueFrame \/ ClearFlag

Next == Setup \/ (\E u \in Units : SubmitUnit(u)) \/ Client \/ DeviceFails \/ DisplayNext
        \/ Cleanup

(* The thread that submits and the display go on; nothing is assumed of    *)
(* failures, or of how often units come.                                   *)
Fairness == WF_imxVars(Client) /\ WF_imxVars(DisplayNext)
Spec == Init /\ [][Next]_imxVars /\ Fairness

----------------------------------------------------------------------------
(* Properties.                                                             *)

(* As long as the units fit, the VPU finds in the ring, from its read      *)
(* pointer on, the bytes of the stream it has not read yet, in order,      *)
(* whichever entries were split at the end of the ring.                    *)
RingInOrder ==
    imx_at = "decode" /\ ~short =>
      \A i \in 1 .. filled : ring[(wr - i) % Ring] = (sent - i) % Turn

(* A decode finds a buffer, and never one that V4L2 is displaying or about *)
(* to: flags are cleared long before V4L2 gives the buffer back, so that   *)
(* only the number of buffers keeps the two apart.                         *)
FramesRotate == imx_at = "decode" => free # <<>> /\ Head(free) \notin Held

(* No submit waits for ever, in VIDIOC_DQBUF above all.                    *)
SubmitReturns ==
    imx_at \notin {"setup", "idle", "cleaned", "exited"} ~>
      imx_at \in {"idle", "exited"}
==============================================================================
