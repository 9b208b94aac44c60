----------------------------- MODULE AxisConvert -----------------------------
(***************************************************************************)
(* The conversions of an evdev axis to what the host takes: a signed 16    *)
(* bit stick, an unsigned 8 bit trigger, or a direction of the d-pad       *)
(* (src/src/input/evdev.c:80-130).                                         *)
(***************************************************************************)
EXTENDS Integers

SHRT_MIN == -32768
SHRT_MAX == 32767
UCHAR_MAX == 255
INT_MAX == 2147483647

(* Division of C, toward zero, by a positive number.                       *)
CDiv(a, b) == IF a >= 0 THEN a \div b ELSE -((-a) \div b)

Dist(a, b) == IF a >= b THEN a - b ELSE b - a

(* evdev_init_parms, from what the device reports of the axis.             *)
InitParms(min, max, flat) ==
    LET avg == CDiv(min + max, 2)
    IN [flat |-> flat, min |-> min, max |-> max, avg |-> avg,
        range |-> max - avg, diff |-> max - min]

(* struct input_abs_parms.                                                *)
InputAbsParms == [flat : Nat, min : Int, max : Int, avg : Int, range : Int, diff : Int]

(* evdev_convert_value divides by this.                                    *)
StickSpan(p) == p.max - p.min - p.flat * 2

(* Mutant: the dead zone is taken off the same half whichever way the axis *)
(* runs.                                                                   *)
StickOffsetSameHalf(p, v, reverse) ==
    IF reverse THEN p.max - (IF v > p.avg THEN p.flat * 2 ELSE 0) - v
               ELSE v - (IF v > p.avg THEN p.flat * 2 ELSE 0) - p.min

(* How far the stick is into its range without the dead zone.              *)
StickOffset(p, v, reverse) ==
    IF reverse THEN p.max - (IF v < p.avg THEN p.flat * 2 ELSE 0) - v
               ELSE v - (IF v > p.avg THEN p.flat * 2 ELSE 0) - p.min

ConvertValue(p, v, reverse) ==
    CASE Dist(v, p.avg) < p.flat -> 0
      [] Dist(v, p.avg) >= p.flat /\ v > p.max -> IF reverse THEN SHRT_MIN ELSE SHRT_MAX
      [] Dist(v, p.avg) >= p.flat /\ v < p.min -> IF reverse THEN SHRT_MAX ELSE SHRT_MIN
      [] OTHER -> CDiv(StickOffset(p, v, reverse) * (SHRT_MAX - SHRT_MIN), StickSpan(p))
                  + SHRT_MIN

(* Mutant: scaled by the whole range, dead zone included.                  *)
ConvertByteWholeRange(p, v) ==
    CASE Dist(v, p.min) < p.flat -> 0
      [] Dist(v, p.min) >= p.flat /\ v > p.max -> UCHAR_MAX
      [] OTHER -> CDiv((v - p.flat - p.min) * UCHAR_MAX, p.diff) % 256

(* evdev_convert_value_byte returns a char and the host's trigger is an    *)
(* unsigned char: the value is taken modulo 256.                           *)
ConvertByte(p, v) ==
    CASE Dist(v, p.min) < p.flat -> 0
      [] Dist(v, p.min) >= p.flat /\ v > p.max -> UCHAR_MAX
      [] OTHER -> CDiv((v - p.flat - p.min) * UCHAR_MAX, p.diff - p.flat) % 256

ConvertDirection(p, v, reverse) ==
    CASE v > p.avg + CDiv(p.range, 4) -> IF reverse THEN -1 ELSE 1
      [] v < p.avg - CDiv(p.range, 4) -> IF reverse THEN 1 ELSE -1
      [] OTHER -> 0
==============================================================================
