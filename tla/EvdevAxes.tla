------------------------------- MODULE EvdevAxes -------------------------------
(***************************************************************************)
(* Beside the devices of EvdevEvents, axes: one that travels from its      *)
(* minimum to above its maximum, with whatever range and dead zone, and is *)
(* converted in all three ways.                                            *)
(***************************************************************************)
EXTENDS EvdevEvents

CONSTANTS MaxRange, MaxFlat    \* bounds on the axes that are tried

(* A range that the int of evdev_convert_value_byte holds times UCHAR_MAX;  *)
(* the long long of evdev_convert_value then holds what it computes.       *)
ASSUME AxesAssumption ==
    /\ MaxRange \in Nat /\ MaxFlat \in Nat
    /\ 2 * MaxRange * UCHAR_MAX <= INT_MAX

VARIABLES
    travels,            \* this is a run of an axis, not of a device
    parms,              \* struct input_abs_parms of the axis
    reverse,            \* the mapping turns it round
    position            \* what it reports

axisVars == <<travels, parms, reverse, position>>

(* Axes of at least three positions whose dead zone leaves room on both    *)
(* sides; with flat * 2 = max - min evdev_convert_value divides by zero.   *)
Axes == {q \in {InitParms(min, max, flat) : min \in -MaxRange .. 0,
                                            max \in 1 .. MaxRange,
                                            flat \in 0 .. MaxFlat} :
           q.max - q.min >= 2 /\ StickSpan(q) > 0}

AxesInit ==
    /\ Init
    /\ \/ travels = FALSE /\ parms = HatParms /\ reverse = FALSE
       \/ /\ travels = TRUE /\ parms \in Axes /\ reverse \in BOOLEAN
          /\ kind = CHOOSE k \in Kinds : TRUE
    /\ position = parms.min

Travel ==
    /\ travels /\ position <= parms.max /\ position' = position + 1
    /\ UNCHANGED <<travels, parms, reverse, vars>>

AxesNext == (~travels /\ Next /\ UNCHANGED axisVars) \/ Travel

AxesSpec == AxesInit /\ [][AxesNext]_<<vars, axisVars>>

Stick == ConvertValue(parms, position, reverse)
Trigger == ConvertByte(parms, position)
Direction == ConvertDirection(parms, position, reverse)

----------------------------------------------------------------------------
(* Properties.                                                             *)

(* Rounding: one unit, or one position of the device when its range is odd *)
(* and has no middle.                                                      *)
Even(p) == (p.max - p.min) % 2 = 0
Slack(p) == IF Even(p) THEN 1 ELSE CDiv(SHRT_MAX - SHRT_MIN, StickSpan(p)) + 1

(* The stick fits the short it is stored in (leftStickX, ...): the long    *)
(* long of evdev_convert_value never wraps when it is narrowed.  The ends  *)
(* of the axis reach the ends of the host's range, the middle of the dead  *)
(* zone is its centre, so that no direction is weaker than the other, and  *)
(* the d-pad agrees with the stick on the direction.                       *)
StickFits == travels =>
    /\ Stick \in SHRT_MIN .. SHRT_MAX
    /\ position = parms.min => Stick = IF reverse THEN SHRT_MAX ELSE SHRT_MIN
    /\ position = parms.max => Stick = IF reverse THEN SHRT_MIN ELSE SHRT_MAX
    /\ position = parms.avg /\ parms.flat > 0 => Stick = 0
    /\ Direction = 1 => Stick >= -Slack(parms)
    /\ Direction = -1 => Stick <= Slack(parms)

(* The stick follows the axis, turned round when the mapping says so; at   *)
(* the edges of the dead zone rounding may step back.  The trigger never   *)
(* drops while it is pulled further, and reaches 255.                      *)
AxisFollows ==
    [][travels =>
       /\ IF reverse THEN Stick' <= Stick + Slack(parms) ELSE Stick' >= Stick - Slack(parms)
       /\ Trigger' >= Trigger /\ (position' >= parms.max => Trigger' = UCHAR_MAX)]_axisVars
=============================================================================
