---------------------------- MODULE MapWizardProofs ----------------------------
(***************************************************************************)
(* Proofs about MapWizard, for any gamepads as PadsAssumption has them: an *)
(* element that was asked for when nothing was held is filled in with its  *)
(* answer, and the file that is saved makes the pad work as answered.      *)
(***************************************************************************)
EXTENDS MapWizard, TLAPS

----------------------------------------------------------------------------
(* The invariant.                                                          *)

Far(axis, v) == High(pad.parms[axis], v) \/ Low(pad.parms[axis], v)

(* An element asked for with nothing held: whatever is down, moved or yet  *)
(* unread belongs to its answer, but for axes that report where they rest. *)
Expected(ev) ==
    \/ ev.type = "EV_KEY" /\ ev.code = Answer.key
    \/ ev.type = "EV_ABS" /\ ev.value \in
         IF ev.code = Answer.abs THEN {pad.parms[ev.code].avg, pad.rest[ev.code], Answer.to}
                                 ELSE {pad.rest[ev.code]}

Quiet ==
    fresh /\ pc \in {"ask", "loop"} =>
      /\ held \subseteq {Answer.key}
      /\ \A a \in Axis : Expected([type |-> "EV_ABS", code |-> a, value |-> value[a]])
      /\ \A i \in DOMAIN queue : Expected(queue[i])

(* What the mapping has of an element is its answer, or nothing.           *)
KeyAgrees(n) == Elements[n].key # "" => map[Elements[n].key] \in {Told(pad, n).key, NoCode}

AbsAgrees(n) ==
    LET e == Elements[n] a == Told(pad, n)
    IN e.abs # "" /\ map[e.abs] # NoCode =>
         /\ map[e.abs] = a.abs
         /\ e.reverse \in Reversible => IF reverse[e.reverse] THEN Low(pad.parms[a.abs], a.to)
                                                             ELSE High(pad.parms[a.abs], a.to)

(* An axis at rest may be taken for the answer for a while.                *)
Misled == noisy /\ map[Asked.abs] \in Axis \ {Answer.abs}
                /\ Far(map[Asked.abs], pad.rest[map[Asked.abs]])

Following == fresh /\ pc = "loop" => KeyAgrees(step) /\ (AbsAgrees(step) \/ (Asked.abs # "" /\ Misled))

(* Elements that were asked for, or passed over.                           *)
Past(n) == n < step \/ (n = step /\ pc \notin {"ask", "loop"})

Filled(n) ==
    LET e == Elements[n] a == Told(pad, n)
    IN \/ e.key # "" /\ a.key # NoCode /\ map[e.key] = a.key
       \/ e.abs # "" /\ a.abs # NoCode /\ map[e.abs] = a.abs

Kept ==
    /\ sure \cap spoilt = {}
    /\ \A n \in Step :
         IF Past(n) THEN /\ Elements[n].what \notin spoilt => KeyAgrees(n) /\ AbsAgrees(n)
                         /\ Elements[n].what \in sure => Filled(n)
                    ELSE Elements[n].what \notin sure \cup spoilt

Saved ==
    pc = "saved" =>
      /\ step = 21
      /\ file = [f \in CodeField \cup Reversible |-> IF f \in CodeField THEN map[f] ELSE reverse[f]]

Inv == TypeOK /\ Quiet /\ Following /\ Kept /\ Saved

----------------------------------------------------------------------------
(* The elements: no two have a name or a field in common, for each name    *)
(* has its place in their list.                                            *)
Place(s) ==
    CASE s \in {"Left Stick Right", "abs_x", "reverse_x"} -> 1
      [] s \in {"Left Stick Up", "abs_y", "reverse_y"} -> 2
      [] s \in {"Left Stick Button", "btn_thumbl"} -> 3
      [] s \in {"Right Stick Right", "abs_rx", "reverse_rx"} -> 4
      [] s \in {"Right Stick Up", "abs_ry", "reverse_ry"} -> 5
      [] s \in {"Right Stick Button", "btn_thumbr"} -> 6
      [] s \in {"D-Pad Right", "btn_dpad_right", "abs_dpad_x", "reverse_dpad_x"} -> 7
      [] s \in {"D-Pad Left", "btn_dpad_left"} -> 8
      [] s \in {"D-Pad Down", "btn_dpad_down", "abs_dpad_y", "reverse_dpad_y"} -> 9
      [] s \in {"D-Pad Up", "btn_dpad_up"} -> 10
      [] s \in {"Button X (1)", "btn_west"} -> 11
      [] s \in {"Button A (2)", "btn_south"} -> 12
      [] s \in {"Button B (3)", "btn_east"} -> 13
      [] s \in {"Button Y (4)", "btn_north"} -> 14
      [] s \in {"Back Button", "btn_select"} -> 15
      [] s \in {"Start Button", "btn_start"} -> 16
      [] s \in {"Special Button", "btn_mode"} -> 17
      [] s \in {"Left Trigger", "btn_tl2", "abs_z"} -> 18
      [] s \in {"Right Trigger", "btn_tr2", "abs_rz"} -> 19
      [] s \in {"Left Bumper", "btn_tl"} -> 20
      [] s \in {"Right Bumper", "btn_tr"} -> 21
      [] OTHER -> 0

Placed(n) ==
    LET e == Elements[n]
    IN /\ Place(e.what) = n
       /\ e.key # "" => Place(e.key) = n
       /\ e.abs # "" => Place(e.abs) = n
       /\ e.reverse \notin {"", "ignored"} => Place(e.reverse) = n

Formed(n) ==
    /\ Elements[n].key # Elements[n].abs
    /\ Elements[n].abs = "" <=> Elements[n].reverse = ""
    /\ Elements[n].reverse # "" => Elements[n].reverse \notin {Elements[n].key, Elements[n].abs}

LEMMA Steps ==
    /\ Step = 1 .. 21
    /\ \A n \in Step : \/ n = 1 \/ n = 2 \/ n = 3 \/ n = 4 \/ n = 5 \/ n = 6 \/ n = 7
                       \/ n = 8 \/ n = 9 \/ n = 10 \/ n = 11 \/ n = 12 \/ n = 13 \/ n = 14
                       \/ n = 15 \/ n = 16 \/ n = 17 \/ n = 18 \/ n = 19 \/ n = 20 \/ n = 21
BY DEF Step, Elements

LEMMA AllPlaced == \A n \in Step : Placed(n)
<1>1. Placed(1)  BY DEF Elements, Placed, Place
<1>2. Placed(2)  BY DEF Elements, Placed, Place
<1>3. Placed(3)  BY DEF Elements, Placed, Place
<1>4. Placed(4)  BY DEF Elements, Placed, Place
<1>5. Placed(5)  BY DEF Elements, Placed, Place
<1>6. Placed(6)  BY DEF Elements, Placed, Place
<1>7. Placed(7)  BY DEF Elements, Placed, Place
<1>8. Placed(8)  BY DEF Elements, Placed, Place
<1>9. Placed(9)  BY DEF Elements, Placed, Place
<1>10. Placed(10)  BY DEF Elements, Placed, Place
<1>11. Placed(11)  BY DEF Elements, Placed, Place
<1>12. Placed(12)  BY DEF Elements, Placed, Place
<1>13. Placed(13)  BY DEF Elements, Placed, Place
<1>14. Placed(14)  BY DEF Elements, Placed, Place
<1>15. Placed(15)  BY DEF Elements, Placed, Place
<1>16. Placed(16)  BY DEF Elements, Placed, Place
<1>17. Placed(17)  BY DEF Elements, Placed, Place
<1>18. Placed(18)  BY DEF Elements, Placed, Place
<1>19. Placed(19)  BY DEF Elements, Placed, Place
<1>20. Placed(20)  BY DEF Elements, Placed, Place
<1>21. Placed(21)  BY DEF Elements, Placed, Place
<1> QED
  BY Steps, <1>1, <1>2, <1>3, <1>4, <1>5, <1>6, <1>7, <1>8, <1>9, <1>10, <1>11,
     <1>12, <1>13, <1>14, <1>15, <1>16, <1>17, <1>18, <1>19, <1>20, <1>21

LEMMA AllFormed == \A n \in Step : Formed(n)
<1>1. Formed(1)  BY DEF Elements, Formed
<1>2. Formed(2)  BY DEF Elements, Formed
<1>3. Formed(3)  BY DEF Elements, Formed
<1>4. Formed(4)  BY DEF Elements, Formed
<1>5. Formed(5)  BY DEF Elements, Formed
<1>6. Formed(6)  BY DEF Elements, Formed
<1>7. Formed(7)  BY DEF Elements, Formed
<1>8. Formed(8)  BY DEF Elements, Formed
<1>9. Formed(9)  BY DEF Elements, Formed
<1>10. Formed(10)  BY DEF Elements, Formed
<1>11. Formed(11)  BY DEF Elements, Formed
<1>12. Formed(12)  BY DEF Elements, Formed
<1>13. Formed(13)  BY DEF Elements, Formed
<1>14. Formed(14)  BY DEF Elements, Formed
<1>15. Formed(15)  BY DEF Elements, Formed
<1>16. Formed(16)  BY DEF Elements, Formed
<1>17. Formed(17)  BY DEF Elements, Formed
<1>18. Formed(18)  BY DEF Elements, Formed
<1>19. Formed(19)  BY DEF Elements, Formed
<1>20. Formed(20)  BY DEF Elements, Formed
<1>21. Formed(21)  BY DEF Elements, Formed
<1> QED
  BY Steps, <1>1, <1>2, <1>3, <1>4, <1>5, <1>6, <1>7, <1>8, <1>9, <1>10, <1>11,
     <1>12, <1>13, <1>14, <1>15, <1>16, <1>17, <1>18, <1>19, <1>20, <1>21

LEMMA Apart ==
    ASSUME NEW m \in Step, NEW n \in Step, m # n
    PROVE  /\ Elements[m].what # Elements[n].what
           /\ Elements[m].key # "" => Elements[m].key \notin {Elements[n].key, Elements[n].abs}
           /\ Elements[m].abs # "" => Elements[m].abs \notin {Elements[n].key, Elements[n].abs}
           /\ Elements[m].reverse \notin {"", "ignored"} => Elements[m].reverse # Elements[n].reverse
<1>1. Placed(m) /\ Placed(n)
  BY AllPlaced
<1> QED
  BY <1>1 DEF Placed

LEMMA Fields ==
    ASSUME NEW n \in Step
    PROVE  /\ Elements[n].what \in What
           /\ Elements[n].key # "" => Elements[n].key \in CodeField
           /\ Elements[n].abs # "" => Elements[n].abs \in CodeField /\ Elements[n].reverse \in ReverseField
           /\ Elements[n].abs = "" => Elements[n].reverse = ""
           /\ Elements[n].reverse \in Reversible <=> Elements[n].reverse \notin {"", "ignored"}
           /\ Elements[n].reverse \in Reversible => Elements[n].reverse \notin CodeField
<1>1. Placed(n) /\ Formed(n)
  BY AllPlaced, AllFormed
<1>2. /\ Elements[n].what \in What
      /\ Elements[n].key # "" => Elements[n].key \in CodeField
      /\ Elements[n].abs # "" => Elements[n].abs \in CodeField /\ Elements[n].reverse \in ReverseField
      /\ Elements[n].abs = "" => Elements[n].reverse = ""
      /\ Elements[n].reverse \in Reversible <=> Elements[n].reverse \notin {"", "ignored"}
  BY <1>1 DEF What, CodeField, ReverseField, Reversible, Formed
<1>3. ASSUME Elements[n].reverse \in Reversible, Elements[n].reverse \in CodeField PROVE FALSE
  <2>1. PICK m \in Step : Elements[n].reverse \in {Elements[m].key, Elements[m].abs}
    BY <1>3 DEF CodeField
  <2>2. Place(Elements[n].reverse) = n /\ Elements[n].reverse # ""
    BY <1>1, <1>2, <1>3 DEF Placed
  <2>3. Place(Elements[n].reverse) = m
    BY <2>1, <2>2, AllPlaced DEF Placed
  <2> QED
    BY <1>1, <1>2, <1>3, <2>1, <2>2, <2>3 DEF Placed, Formed
<1> QED
  BY <1>2, <1>3

LEMMA DPads ==
    ASSUME NEW n \in Step
    PROVE  Elements[n].what \in {"D-Pad Right", "D-Pad Down"} <=> n \in {7, 9}
<1>1. Place("D-Pad Right") = 7 /\ Place("D-Pad Down") = 9
  BY DEF Place
<1>2. Elements[7].what = "D-Pad Right" /\ Elements[9].what = "D-Pad Down"
  BY DEF Elements
<1> QED
  BY <1>1, <1>2, AllPlaced, Steps DEF Placed

----------------------------------------------------------------------------
(* The pad that is mapped.                                                 *)

LEMMA Quotient ==
    ASSUME NEW a \in Int, NEW b \in Nat, b > 0
    PROVE  /\ CDiv(a, b) \in Int
           /\ a >= 0 => 0 <= CDiv(a, b) /\ CDiv(a, b) <= a
BY DEF CDiv

LEMMA PadIs ==
    ASSUME TypeOK
    PROVE  /\ Gamepad(pad) /\ TellsApart(pad) /\ \A n \in Step : Moves(pad, n)
           /\ NoCode \notin Axis /\ NoCode \notin Key /\ Answer = Told(pad, step)
           /\ \A n \in Step : /\ Told(pad, n).to \in Int /\ Told(pad, n).key \in Key \cup {NoCode}
                             /\ Told(pad, n).abs \in Axis \cup {NoCode}
           /\ \A a \in Axis : pad.parms[a].avg \in Int /\ pad.rest[a] \in Int
<1>1. /\ Gamepad(pad) /\ TellsApart(pad) /\ \A n \in Step : Moves(pad, n)
  BY PadsAssumption DEF TypeOK, pad
<1>2. /\ NoCode \notin Axis /\ NoCode \notin Key /\ Answer = Told(pad, step)
  BY <1>1 DEF Gamepad, Axis, Key, Answer, Asked, Told
<1>3. ASSUME NEW n \in Step
      PROVE  /\ Told(pad, n).to \in Int /\ Told(pad, n).key \in Key \cup {NoCode}
             /\ Told(pad, n).abs \in Axis \cup {NoCode}
  BY <1>1, Fields DEF Gamepad, Axis, Key, Told
<1>4. ASSUME NEW a \in Axis PROVE pad.parms[a].avg \in Int /\ pad.rest[a] \in Int
  <2>1. Calibrated(pad.parms[a]) /\ pad.rest[a] \in pad.parms[a].min .. pad.parms[a].max
    BY <1>1 DEF Gamepad, Axis
  <2>2. pad.parms[a].avg = CDiv(pad.parms[a].min + pad.parms[a].max, 2)
    BY <2>1 DEF Calibrated, InitParms
  <2> QED
    BY <2>1, <2>2, Quotient DEF Calibrated
<1> QED
  BY <1>1, <1>2, <1>3, <1>4

----------------------------------------------------------------------------
(* The type invariant.                                                     *)

LEMMA TypeInit == Init => TypeOK
<1> SUFFICES ASSUME Init PROVE TypeOK
  OBVIOUS
<1>1. kind \in DOMAIN Pads /\ value \in [Axis -> Int]
  BY PadsAssumption DEF Init, pad, Axis
<1>2. map \in [CodeField -> Axis \cup Key \cup {NoCode}] /\ reverse \in [ReverseField -> BOOLEAN]
  BY DEF Init
<1>3. queue \in Seq(Event) /\ Len(queue) <= MaxQueue /\ odd \in 0 .. MaxOdd /\ step \in Step
  BY PadsAssumption, Steps DEF Init
<1> QED
  BY <1>1, <1>2, <1>3 DEF TypeOK, Init

(* What the mapping holds stays of the pad.                                *)
LEMMA TypeStep == TypeOK /\ [Next]_vars => TypeOK'
<1> SUFFICES ASSUME TypeOK, [Next]_vars PROVE TypeOK'
  OBVIOUS
<1>1. kind' = kind
  BY DEF Next, User, Move, Trembles, Press, Release, Reports, Signal, Ask, EvdevHandle,
         LoopSigHandler, Sleep, Drain, vars
<1>2. pad' = pad /\ Axis' = Axis /\ Key' = Key /\ Event' = Event
  BY <1>1 DEF pad, Axis, Key, Event
<1>3. /\ step \in Step /\ Asked = Elements[step]
      /\ Answer.to \in Int /\ Answer.key \in Key \cup {NoCode}
      /\ \A a \in Axis : pad.parms[a].avg \in Int /\ pad.rest[a] \in Int
  BY PadIs DEF TypeOK, Asked
<1>4. ASSUME NEW ev \in Event, Reports(ev)
      PROVE  queue' \in Seq(Event) /\ Len(queue') <= MaxQueue
  <2>1. queue \in Seq(Event) /\ Len(queue) < MaxQueue /\ queue' = Append(queue, ev)
    BY <1>4 DEF TypeOK, Reports
  <2> QED
    BY <2>1, PadsAssumption
<1>5. CASE User
  <2>1. ASSUME NEW axis \in Axis, Move(axis) PROVE TypeOK'
    <3>1. PICK v \in Int : /\ value' = [value EXCEPT ![axis] = v] 
                           /\ Reports([type |-> "EV_ABS", code |-> axis, value |-> v])
      BY <1>3, <2>1 DEF Move
    <3>2. [type |-> "EV_ABS", code |-> axis, value |-> v] \in Event
      BY DEF Event
    <3> QED
      BY <1>2, <1>4, <2>1, <3>1, <3>2 DEF TypeOK, Move, Reports, history
  <2>2. ASSUME NEW axis \in Axis, Trembles(axis) PROVE TypeOK'
    <3>1. [type |-> "EV_ABS", code |-> axis, value |-> value[axis]] \in Event
      BY DEF Event, TypeOK
    <3>2. odd' \in 0 .. MaxOdd
      BY <2>2, PadsAssumption DEF Trembles, TypeOK
    <3> QED
      BY <1>2, <1>4, <2>2, <3>1, <3>2 DEF TypeOK, Trembles, Reports, history, padVars
  <2>3. ASSUME Answer.key # NoCode, Press(Answer.key) PROVE TypeOK'
    <3>1. Answer.key \in Key
      BY <1>3, <2>3
    <3>2. [type |-> "EV_KEY", code |-> Answer.key, value |-> 1] \in Event
      BY <3>1 DEF Event
    <3> QED
      BY <1>2, <1>4, <2>3, <3>1, <3>2 DEF TypeOK, Press, Reports, history
  <2>4. ASSUME NEW key \in held, Release(key) PROVE TypeOK'
    <3>1. [type |-> "EV_KEY", code |-> key, value |-> 0] \in Event
      BY DEF Event, TypeOK
    <3> QED
      BY <1>2, <1>4, <2>4, <3>1 DEF TypeOK, Release, Reports, history
  <2> QED
    BY <1>5, <2>1, <2>2, <2>3, <2>4 DEF User
<1>6. CASE Signal
  BY <1>2, <1>6, PadsAssumption DEF TypeOK, Signal, padVars, history
<1>7. CASE Ask
  <2>1. map' \in [CodeField -> Axis \cup Key \cup {NoCode}]
    BY <1>7 DEF TypeOK, Ask
  <2> QED
    BY <1>2, <1>7, <2>1 DEF TypeOK, Ask, padVars, history
<1>8. CASE EvdevHandle
  <2>1. queue \in Seq(Event) /\ queue # <<>> /\ Head(queue) \in Event /\ queue' = Tail(queue)
    BY <1>8 DEF TypeOK, EvdevHandle
  <2>2. queue' \in Seq(Event) /\ Len(queue') <= MaxQueue
    BY <2>1, PadsAssumption DEF TypeOK
  <2>3. Head(queue).code \in Axis \cup Key /\ Elements[step].what \in What
    BY <1>3, <2>1, Fields DEF Event
  <2>4. /\ pc' \in {"loop", "sleep"} /\ fresh' = fresh /\ noisy' \in BOOLEAN
        /\ sure' \subseteq What /\ spoilt' \subseteq What
    BY <1>3, <1>8, <2>3 DEF TypeOK, EvdevHandle, MapKey, MapAbs, Returns, GoesOn
  <2>5. map' \in [CodeField -> Axis \cup Key \cup {NoCode}] /\ reverse' \in [ReverseField -> BOOLEAN]
    BY <1>8, <2>3 DEF TypeOK, EvdevHandle, MapKey, MapAbs
  <2> QED
    BY <1>2, <1>8, <2>2, <2>4, <2>5 DEF TypeOK, EvdevHandle, padVars
<1>9. CASE LoopSigHandler
  BY <1>2, <1>3, <1>9, Fields DEF TypeOK, LoopSigHandler, Returns, padVars
<1>10. CASE Sleep
  BY <1>2, <1>10, PadsAssumption DEF TypeOK, Sleep, padVars, history
<1>11. CASE Drain
  <2>1. step' \in Step
    <3>1. step \in {7, 9} => step + 2 \in Step
      BY Steps
    <3> QED
      BY <1>3, <1>11, <3>1, DPads DEF Drain, NextStep, DPadDone
  <2>2. map' \in [CodeField -> Axis \cup Key \cup {NoCode}]
    BY <1>11 DEF TypeOK, Drain
  <2>3. queue' \in Seq(Event) /\ Len(queue') <= MaxQueue
    BY <1>11, PadsAssumption DEF Drain, Drained
  <2> QED
    BY <1>2, <1>11, <2>1, <2>2, <2>3 DEF TypeOK, Drain, AtRest, padVars
<1>12. CASE UNCHANGED vars
  BY <1>2, <1>12 DEF TypeOK, vars
<1> QED
  BY <1>5, <1>6, <1>7, <1>8, <1>9, <1>10, <1>11, <1>12 DEF Next

----------------------------------------------------------------------------
(* What is asked for.                                                      *)

LEMMA SamePad ==
    ASSUME [Next]_vars
    PROVE  kind' = kind /\ pad' = pad /\ Axis' = Axis /\ Key' = Key
           /\ \A n \in Step : Told(pad, n)' = Told(pad, n)
<1>1. kind' = kind
  BY DEF Next, User, Move, Trembles, Press, Release, Reports, Signal, Ask, EvdevHandle,
         LoopSigHandler, Sleep, Drain, vars
<1> QED
  BY <1>1 DEF pad, Axis, Key, Told

(* An axis that is not the answer stays where it rests, and is reported    *)
(* there.                                                                  *)
LEMMA StaysAtRest ==
    ASSUME TypeOK, Quiet, fresh, pc \in {"ask", "loop"}, NEW axis \in Axis, Move(axis)
    PROVE  /\ axis = Answer.abs
           /\ value'[axis] \in {pad.parms[axis].avg, pad.rest[axis], Answer.to}
<1>1. PICK v \in {pad.parms[axis].avg, pad.rest[axis], Answer.to} :
         /\ IF pc = "loop" /\ axis = Answer.abs THEN TRUE
            ELSE Dist(v, pad.rest[axis]) < Dist(value[axis], pad.rest[axis])
         /\ v # value[axis] /\ value' = [value EXCEPT ![axis] = v]
  BY DEF Move
<1>2. v \in Int /\ value[axis] \in Int /\ pad.rest[axis] \in Int /\ value'[axis] = v
  BY <1>1, PadIs DEF TypeOK
<1>3. ASSUME axis # Answer.abs PROVE FALSE
  <2>1. value[axis] = pad.rest[axis]
    BY <1>3 DEF Quiet, Expected
  <2> QED
    BY <1>1, <1>2, <1>3, <2>1 DEF Dist
<1> QED
  BY <1>1, <1>2, <1>3

(* Which events the user adds, and what they leave as it was.              *)
LEMMA Reported ==
    ASSUME TypeOK, Quiet, User, fresh, pc \in {"ask", "loop"}
    PROVE  /\ held' \subseteq {Answer.key}
           /\ \A a \in Axis : Expected([type |-> "EV_ABS", code |-> a, value |-> value'[a]])
           /\ \E ev \in Event : Expected(ev) /\ queue' = Append(queue, ev)
<1> DEFINE Goal == /\ held' \subseteq {Answer.key}
                   /\ \A a \in Axis : Expected([type |-> "EV_ABS", code |-> a, value |-> value'[a]])
                   /\ \E ev \in Event : Expected(ev) /\ queue' = Append(queue, ev)
<1>1. /\ held \subseteq {Answer.key} /\ value \in [Axis -> Int]
      /\ \A a \in Axis : Expected([type |-> "EV_ABS", code |-> a, value |-> value[a]])
  BY DEF Quiet, TypeOK
<1>2. ASSUME NEW axis \in Axis, Move(axis) PROVE Goal
  <2>1. /\ axis = Answer.abs
        /\ value'[axis] \in {pad.parms[axis].avg, pad.rest[axis], Answer.to}
    BY <1>2, StaysAtRest
  <2>2. PICK v : /\ v \in {pad.parms[axis].avg, pad.rest[axis], Answer.to}
                 /\ value' = [value EXCEPT ![axis] = v] /\ held' = held
                 /\ queue' = Append(queue, [type |-> "EV_ABS", code |-> axis, value |-> v])
    BY <1>2 DEF Move, Reports
  <2>3. v \in Int
    BY <2>2, PadIs DEF TypeOK
  <2>4. \A a \in Axis : value'[a] = IF a = axis THEN v ELSE value[a]
    BY <1>1, <2>2
  <2>5. Expected([type |-> "EV_ABS", code |-> axis, value |-> v])
    BY <2>1, <2>2 DEF Expected
  <2>6. [type |-> "EV_ABS", code |-> axis, value |-> v] \in Event
    BY <2>3 DEF Event
  <2>7. \A a \in Axis : Expected([type |-> "EV_ABS", code |-> a, value |-> value'[a]])
    BY <1>1, <2>4, <2>5
  <2> QED
    BY <1>1, <2>2, <2>5, <2>6, <2>7
<1>3. ASSUME NEW axis \in Axis, Trembles(axis) PROVE Goal
  <2>1. /\ value' = value /\ held' = held
        /\ queue' = Append(queue, [type |-> "EV_ABS", code |-> axis, value |-> value[axis]])
    BY <1>3 DEF Trembles, Reports, padVars
  <2>2. [type |-> "EV_ABS", code |-> axis, value |-> value[axis]] \in Event
    BY <1>1 DEF Event
  <2> QED
    BY <1>1, <2>1, <2>2
<1>4. ASSUME Answer.key # NoCode, Press(Answer.key) PROVE Goal
  <2>1. /\ value' = value /\ held' = held \cup {Answer.key}
        /\ queue' = Append(queue, [type |-> "EV_KEY", code |-> Answer.key, value |-> 1])
    BY <1>4 DEF Press, Reports
  <2>2. [type |-> "EV_KEY", code |-> Answer.key, value |-> 1] \in Event
    BY <1>4, PadIs DEF Event, TypeOK
  <2>3. Expected([type |-> "EV_KEY", code |-> Answer.key, value |-> 1])
    BY DEF Expected
  <2> QED
    BY <1>1, <2>1, <2>2, <2>3
<1>5. ASSUME NEW key \in held, Release(key) PROVE Goal
  <2>1. /\ value' = value /\ held' = held \ {key} /\ key = Answer.key
        /\ queue' = Append(queue, [type |-> "EV_KEY", code |-> key, value |-> 0])
    BY <1>1, <1>5 DEF Release, Reports
  <2>2. [type |-> "EV_KEY", code |-> key, value |-> 0] \in Event
    BY DEF Event, TypeOK
  <2>3. Expected([type |-> "EV_KEY", code |-> key, value |-> 0])
    BY <2>1 DEF Expected
  <2> QED
    BY <1>1, <2>1, <2>2, <2>3
<1> QED
  BY <1>2, <1>3, <1>4, <1>5 DEF User

LEMMA QuietStep ==
    ASSUME TypeOK, Quiet, [Next]_vars
    PROVE  Quiet'
<1>1. SUFFICES ASSUME fresh', pc' \in {"ask", "loop"}
               PROVE  /\ held' \subseteq {Answer'.key}
                      /\ \A a \in Axis : Expected([type |-> "EV_ABS", code |-> a, value |-> value[a]])'
                      /\ \A i \in DOMAIN queue' : Expected(queue[i])'
  BY SamePad DEF Quiet
<1>2. pad' = pad /\ queue \in Seq(Event)
  BY SamePad DEF TypeOK
<1>3. ASSUME fresh, pc \in {"ask", "loop"}, step' = step
      PROVE  /\ Answer' = Answer /\ \A ev : Expected(ev)' <=> Expected(ev)
             /\ held \subseteq {Answer.key}
             /\ \A a \in Axis : Expected([type |-> "EV_ABS", code |-> a, value |-> value[a]])
             /\ \A i \in DOMAIN queue : Expected(queue[i])
  BY <1>2, <1>3 DEF Answer, Asked, Quiet, Expected
<1>4. ASSUME step' = step, queue' = queue \/ (queue # <<>> /\ queue' = Tail(queue)),
             UNCHANGED <<value, held>>, fresh, pc \in {"ask", "loop"}
      PROVE  Quiet'
  <2>1. \A i \in DOMAIN queue' : \E j \in DOMAIN queue : queue'[i] = queue[j]
    BY <1>2, <1>4
  <2> QED
    BY <1>2, <1>3, <1>4, <2>1, SamePad DEF Quiet
<1>5. CASE User
  <2>1. fresh /\ pc \in {"ask", "loop"} /\ step' = step
    BY <1>1, <1>5 DEF User, Move, Trembles, Press, Release, Reports, history
  <2>2. PICK ev \in Event : Expected(ev) /\ queue' = Append(queue, ev)
    BY <1>5, <2>1, Reported
  <2>3. \A i \in DOMAIN queue' : queue'[i] = ev \/ (i \in DOMAIN queue /\ queue'[i] = queue[i])
    BY <1>2, <2>2
  <2>4. /\ held' \subseteq {Answer.key}
        /\ \A a \in Axis : Expected([type |-> "EV_ABS", code |-> a, value |-> value'[a]])
    BY <1>5, <2>1, Reported
  <2>5. Answer' = Answer
    BY <1>3, <2>1
  <2>6. \A a \in Axis : Expected([type |-> "EV_ABS", code |-> a, value |-> value[a]])'
    BY <1>2, <2>4, <2>5 DEF Expected
  <2>7. \A i \in DOMAIN queue' : Expected(queue'[i])
    BY <1>3, <2>1, <2>2, <2>3
  <2>8. \A i \in DOMAIN queue' : Expected(queue[i])'
    BY <1>2, <2>5, <2>7 DEF Expected
  <2> QED
    BY <2>4, <2>5, <2>6, <2>8
<1>6. CASE Drain
  <2>1. AtRest /\ queue' = <<>> /\ held' = held /\ value' = value
    BY <1>1, <1>6 DEF Drain, Drained, padVars
  <2> QED
    BY <1>2, <2>1 DEF AtRest, Expected
<1>7. CASE Signal \/ Ask \/ EvdevHandle \/ LoopSigHandler \/ Sleep \/ UNCHANGED vars
  <2>1. /\ step' = step /\ UNCHANGED <<value, held>> /\ fresh
        /\ queue' = queue \/ (queue # <<>> /\ queue' = Tail(queue))
    BY <1>1, <1>7 DEF Signal, Ask, EvdevHandle, MapKey, MapAbs, Returns, GoesOn, LoopSigHandler, Sleep,
           vars, padVars, history
  <2>2. pc \in {"ask", "loop"}
    BY <1>1, <1>7 DEF Signal, Ask, EvdevHandle, LoopSigHandler, Returns, Sleep, vars
  <2> QED
    BY <1>1, <1>4, <2>1, <2>2, SamePad DEF Quiet
<1> QED
  BY <1>5, <1>6, <1>7 DEF Next

----------------------------------------------------------------------------
(* What one element's answer does to the mapping leaves the others alone.  *)

AsksOnly ==
    /\ DOMAIN map' = CodeField /\ DOMAIN reverse' = ReverseField
    /\ \A f \in CodeField \ {Asked.key, Asked.abs} : map'[f] = map[f]
    /\ \A f \in Reversible \ {Asked.reverse} : reverse'[f] = reverse[f]

LEMMA OnlyAsked ==
    ASSUME TypeOK, Ask \/ EvdevHandle
    PROVE  AsksOnly
<1>1. CASE Ask
  BY <1>1 DEF TypeOK, Ask, AsksOnly, Reversible
<1>2. CASE EvdevHandle
  BY <1>2 DEF TypeOK, EvdevHandle, MapKey, MapAbs, AsksOnly, Reversible
<1> QED
  BY <1>1, <1>2

LEMMA OthersKeep ==
    ASSUME TypeOK, [Next]_vars, AsksOnly, NEW n \in Step, n # step
    PROVE  /\ KeyAgrees(n)' <=> KeyAgrees(n)
           /\ AbsAgrees(n)' <=> AbsAgrees(n)
           /\ Filled(n)' <=> Filled(n)
<1>1. /\ Elements[n].key # "" => map'[Elements[n].key] = map[Elements[n].key]
      /\ Elements[n].abs # "" => map'[Elements[n].abs] = map[Elements[n].abs]
      /\ Elements[n].reverse \in Reversible => reverse'[Elements[n].reverse] = reverse[Elements[n].reverse]
  BY Apart, Fields DEF TypeOK, AsksOnly, Asked
<1> QED
  BY <1>1, SamePad DEF KeyAgrees, AbsAgrees, Filled

----------------------------------------------------------------------------
(* The handler follows the answer.                                         *)

(* What an axis does in the middle of its range is not taken for a move.   *)
LEMMA MiddleIsNear ==
    ASSUME TypeOK, NEW axis \in Axis
    PROVE  ~Far(axis, pad.parms[axis].avg)
<1>1. Calibrated(pad.parms[axis])
  BY PadIs DEF Gamepad, Axis
<1> DEFINE p == pad.parms[axis]
<1>2. p.range = p.max - p.avg /\ p.avg = CDiv(p.min + p.max, 2) /\ p.min \in Int /\ p.max \in Int
      /\ p.min < p.max
  BY <1>1 DEF Calibrated, InitParms
<1> HIDE DEF p
<1>3. p.avg \in Int /\ p.avg <= p.max
  BY <1>2 DEF CDiv
<1>4. CDiv(p.range, 2) \in Int /\ CDiv(p.range, 2) >= 0
  BY <1>2, <1>3, Quotient
<1> QED
  BY <1>3, <1>4 DEF p, Far, High, Low

(* An answer that counts as a move is at its end, and is as Moves says.    *)
LEMMA AnswerMoves ==
    ASSUME TypeOK, NEW ev \in Event, ev.type = "EV_ABS", Expected(ev), ev.code = Answer.abs,
           Far(ev.code, ev.value), Asked.reverse \in Reversible
    PROVE  ev.value = Answer.to
<1>1. ev.code \in Axis /\ ev.value \in {pad.parms[ev.code].avg, pad.rest[ev.code], Answer.to}
  BY PadIs DEF Event, Expected, TypeOK
<1>2. ev.value # pad.parms[ev.code].avg
  BY <1>1, MiddleIsNear
<1>3. Answer = Told(pad, step) /\ Moves(pad, step) /\ Asked.reverse # "ignored" /\ Answer.abs # NoCode
  BY <1>1, PadIs DEF TypeOK, Asked, Reversible
<1>4. ~High(pad.parms[Answer.abs], pad.rest[Answer.abs]) /\ ~Low(pad.parms[Answer.abs], pad.rest[Answer.abs])
  BY <1>3 DEF Moves, Asked
<1> QED
  BY <1>1, <1>2, <1>4 DEF Far

(* While the loop runs for an element, the mapping has nothing of it or    *)
(* its answer, or the handler is misled; when it returns without anything  *)
(* to doubt, the mapping has the answer.                                   *)
KeyOrAxis == Asked.key # "" /\ Asked.abs # ""

LEMMA Handled ==
    ASSUME TypeOK, Quiet, Following, EvdevHandle, fresh
    PROVE  /\ pc' \in {"loop", "sleep"} /\ KeyAgrees(step)'
           /\ pc' = "loop" => AbsAgrees(step)' \/ (Asked.abs # "" /\ Misled')
           /\ pc' = "sleep" /\ ~(noisy /\ KeyOrAxis) => AbsAgrees(step)' /\ Filled(step)'
<1> DEFINE ev == Head(queue)
<1>1. /\ pc = "loop" /\ ev \in Event /\ Expected(ev) /\ (MapKey(ev) \/ MapAbs(ev))
      /\ queue # <<>>
  BY DEF TypeOK, Quiet, EvdevHandle
<1>2. /\ KeyAgrees(step) /\ (AbsAgrees(step) \/ (Asked.abs # "" /\ Misled))
      /\ step \in Step /\ Asked = Elements[step] /\ Answer = Told(pad, step)
      /\ NoCode \notin Axis /\ NoCode \notin Key
  BY <1>1, PadIs DEF Following, Asked, TypeOK
<1>3. /\ step' = step /\ kind' = kind /\ pad' = pad /\ Answer' = Answer /\ Asked' = Asked /\ Axis' = Axis
      /\ pc' \in {"loop", "sleep"}
  BY <1>1 DEF EvdevHandle, padVars, pad, Answer, Asked, Axis, MapKey, MapAbs, Returns, GoesOn
<1>4. /\ Asked.key # "" => Asked.key \in CodeField /\ Asked.key # Asked.abs
      /\ Asked.abs # "" => Asked.abs \in CodeField /\ Asked.reverse \in ReverseField
      /\ Asked.reverse \in Reversible <=> Asked.reverse \notin {"", "ignored"}
  BY <1>2, Fields, AllFormed DEF Formed
<1> HIDE DEF ev
<1>5. CASE MapKey(ev)
  <2>1. ev.code = Answer.key /\ ev.code # NoCode
    BY <1>1, <1>2, <1>5 DEF MapKey, Expected, Event
  <2>2. KeyAgrees(step)'
    BY <1>2, <1>3, <1>4, <1>5, <2>1 DEF KeyAgrees, MapKey, TypeOK
  <2>3. /\ Asked.abs # "" => map'[Asked.abs] = map[Asked.abs]
        /\ reverse' = reverse /\ (noisy => noisy')
    BY <1>4, <1>5 DEF MapKey, TypeOK, Returns, GoesOn
  <2>4. (AbsAgrees(step)' <=> AbsAgrees(step)) /\ (Asked.abs # "" /\ Misled => Misled')
    BY <1>2, <1>3, <2>3 DEF AbsAgrees, Misled, Far
  <2>5. pc' = "sleep" => /\ Asked.key # "" /\ map'[Asked.key] = Answer.key
                         /\ Answer.key # NoCode
    BY <1>1, <1>5, <2>1 DEF MapKey, GoesOn
  <2>6. pc' = "sleep" => Filled(step)'
    BY <1>2, <1>3, <2>5 DEF Filled
  <2>7. pc' = "sleep" /\ ~(noisy /\ KeyOrAxis) => AbsAgrees(step)
    BY <1>2, <2>5 DEF KeyOrAxis, Misled
  <2> QED
    BY <1>2, <1>3, <2>2, <2>4, <2>6, <2>7
<1>6. CASE MapAbs(ev) /\ Asked.abs # "" /\ Far(ev.code, ev.value)
  <2>1. /\ ev.type = "EV_ABS" /\ ev.code \in Axis
        /\ map' = [map EXCEPT ![Asked.abs] = ev.code]
        /\ reverse' = [reverse EXCEPT ![Asked.reverse] = Low(pad.parms[ev.code], ev.value)]
        /\ GoesOn(ev)
    <3>1. ev.type = "EV_ABS"
      BY <1>6 DEF MapAbs
    <3>2. ev.code \in Axis
      BY <1>1, <3>1 DEF Event
    <3>3. High(pad.parms[ev.code], ev.value) \/ Low(pad.parms[ev.code], ev.value)
      BY <1>6 DEF Far
    <3>4. /\ map' = [map EXCEPT ![Asked.abs] = ev.code]
          /\ reverse' = [reverse EXCEPT ![Asked.reverse] = Low(pad.parms[ev.code], ev.value)]
          /\ GoesOn(ev)
      <4> DEFINE high == Asked.abs # "" /\ High(pad.parms[ev.code], ev.value)
                 low == Asked.abs # "" /\ Low(pad.parms[ev.code], ev.value)
      <4>1. (high \/ low) /\ low = Low(pad.parms[ev.code], ev.value)
        <5>1. Low(pad.parms[ev.code], ev.value) \in BOOLEAN
          BY DEF Low
        <5> QED
          BY <1>6, <3>3, <5>1, Zenon
      <4>2. /\ map' = IF high \/ low THEN [map EXCEPT ![Asked.abs] = ev.code] ELSE map
            /\ reverse' = IF high \/ low THEN [reverse EXCEPT ![Asked.reverse] = low] ELSE reverse
            /\ IF Asked.abs # "" /\ ~high /\ ~low /\ ev.code = map[Asked.abs] THEN Returns(TRUE)
                                                                             ELSE GoesOn(ev)
        BY <1>6 DEF MapAbs
      <4> HIDE DEF high, low
      <4> QED
        BY <4>1, <4>2
    <3> QED
      BY <3>1, <3>2, <3>4
  <2>2. /\ map'[Asked.abs] = ev.code /\ (Asked.key # "" => map'[Asked.key] = map[Asked.key])
        /\ Asked.reverse \in Reversible => reverse'[Asked.reverse] = Low(pad.parms[ev.code], ev.value)
    BY <1>4, <1>6, <2>1 DEF TypeOK, Reversible
  <2>3. KeyAgrees(step)' /\ pc' = "loop"
    BY <1>1, <1>2, <1>3, <2>1, <2>2 DEF KeyAgrees, GoesOn
  <2>4. CASE ev.code = Answer.abs
    <3>1. Asked.reverse \in Reversible => ev.value = Answer.to
      BY <1>1, <1>6, <2>1, <2>4, AnswerMoves
    <3>2. AbsAgrees(step)'
      BY <1>2, <1>3, <1>6, <2>1, <2>2, <2>4, <3>1 DEF AbsAgrees, Far
    <3> QED
      BY <1>3, <2>3, <3>2
  <2>5. CASE ev.code # Answer.abs
    <3>1. ev.value = pad.rest[ev.code] /\ noisy'
      BY <1>1, <2>1, <2>5 DEF Expected, GoesOn
    <3>2. map'[Asked'.abs] = ev.code /\ ev.code \in Axis' \ {Answer'.abs}
      BY <1>3, <2>1, <2>2, <2>5
    <3>3. Far(ev.code, pad.rest[ev.code])
      BY <1>6, <3>1
    <3>4. \A a : Far(a, pad.rest[a])' <=> Far(a, pad.rest[a])
      BY <1>3 DEF Far
    <3>5. Far(map[Asked.abs], pad.rest[map[Asked.abs]])'
      BY <3>2, <3>3, <3>4
    <3>6. Misled'
      BY <3>1, <3>2, <3>5 DEF Misled
    <3> QED
      BY <1>3, <1>6, <2>3, <3>6
  <2> QED
    BY <2>4, <2>5
<1>7. CASE MapAbs(ev) /\ ~(Asked.abs # "" /\ Far(ev.code, ev.value))
  <2>1. /\ ev.type = "EV_ABS" /\ ev.code \in Axis /\ map' = map /\ reverse' = reverse
        /\ pc' = "sleep" => Asked.abs # "" /\ ev.code = map[Asked.abs]
        /\ noisy => noisy'
    <3>1. ev.type = "EV_ABS" /\ ev.code \in Axis
      <4>1. ev.type = "EV_ABS"
        BY <1>7 DEF MapAbs
      <4> QED
        BY <1>1, <4>1 DEF Event
    <3>2. ~(Asked.abs # "" /\ High(pad.parms[ev.code], ev.value))
          /\ ~(Asked.abs # "" /\ Low(pad.parms[ev.code], ev.value))
      BY <1>7 DEF Far
    <3>3. /\ map' = map /\ reverse' = reverse
          /\ \/ Asked.abs # "" /\ ev.code = map[Asked.abs] /\ Returns(TRUE)
             \/ GoesOn(ev)
      BY <1>7, <3>2 DEF MapAbs
    <3>4. pc' = "sleep" => Asked.abs # "" /\ ev.code = map[Asked.abs]
      BY <1>1, <3>3 DEF GoesOn
    <3>5. noisy => noisy'
      BY <3>3 DEF Returns, GoesOn
    <3> QED
      BY <3>1, <3>3, <3>4, <3>5
  <2>2. /\ KeyAgrees(step)' <=> KeyAgrees(step)
        /\ AbsAgrees(step)' <=> AbsAgrees(step)
        /\ Misled => Misled'
    BY <1>2, <1>3, <2>1 DEF KeyAgrees, AbsAgrees, Misled, Far
  <2>3. ASSUME pc' = "sleep" PROVE AbsAgrees(step) /\ Filled(step)'
    <3>1. Asked.abs # "" /\ ev.code = map[Asked.abs] /\ ~Far(ev.code, ev.value) /\ ev.code # NoCode
      BY <1>2, <1>7, <2>1, <2>3
    <3>2. ~Misled
      BY <1>1, <2>1, <3>1 DEF Misled, Expected
    <3>3. AbsAgrees(step)
      BY <1>2, <3>2
    <3>4. map[Asked.abs] = Answer.abs
      BY <1>2, <3>1, <3>3 DEF AbsAgrees
    <3> QED
      BY <1>2, <1>3, <2>1, <3>1, <3>3, <3>4 DEF Filled
  <2> QED
    BY <1>2, <1>3, <2>2, <2>3
<1> QED
  BY <1>1, <1>5, <1>6, <1>7

LEMMA FollowingStep ==
    ASSUME TypeOK, Quiet, Following, [Next]_vars
    PROVE  Following'
<1>1. SUFFICES ASSUME fresh', pc' = "loop"
               PROVE  KeyAgrees(step)' /\ (AbsAgrees(step)' \/ (Asked'.abs # "" /\ Misled'))
  BY DEF Following
<1>2. CASE EvdevHandle
  <2>1. fresh /\ Asked' = Asked
    BY <1>1, <1>2 DEF EvdevHandle, MapKey, MapAbs, Returns, GoesOn, Asked
  <2> QED
    BY <1>1, <1>2, <2>1, Handled
<1>3. CASE Ask
  <2>1. step' = step /\ Asked = Elements[step] /\ step \in Step
    BY <1>3 DEF Ask, Asked, TypeOK
  <2>2. /\ Asked.key # "" => map'[Asked.key] = NoCode
        /\ Asked.abs # "" => map'[Asked.abs] = NoCode
    BY <1>3, <2>1, Fields DEF Ask
  <2> QED
    BY <2>1, <2>2 DEF KeyAgrees, AbsAgrees
<1>4. CASE User \/ Signal \/ LoopSigHandler \/ Sleep \/ Drain \/ UNCHANGED vars
  <2>1. UNCHANGED <<kind, pc, step, map, reverse, fresh, noisy>>
    BY <1>1, <1>4 DEF User, Move, Trembles, Press, Release, Reports, Signal, LoopSigHandler, Returns,
         Sleep, Drain, vars, history
  <2>2. KeyAgrees(step) /\ (AbsAgrees(step) \/ (Asked.abs # "" /\ Misled))
    BY <1>1, <2>1 DEF Following
  <2> QED
    BY <2>1, <2>2 DEF KeyAgrees, AbsAgrees, Misled, Asked, Answer, Axis, Far, pad, Told
<1> QED
  BY <1>2, <1>3, <1>4 DEF Next

----------------------------------------------------------------------------
(* What the elements have been filled in with.                             *)

Holds(n) ==
    /\ Elements[n].what \notin spoilt => KeyAgrees(n) /\ AbsAgrees(n)
    /\ Elements[n].what \in sure => Filled(n)

LEMMA Untouched ==
    ASSUME [Next]_vars, UNCHANGED <<map, reverse>>, NEW n \in Step
    PROVE  /\ KeyAgrees(n)' <=> KeyAgrees(n)
           /\ AbsAgrees(n)' <=> AbsAgrees(n)
           /\ Filled(n)' <=> Filled(n)
BY SamePad DEF KeyAgrees, AbsAgrees, Filled

(* loop_main returns: the element asked for is doubtful, or as it should be. *)
LEMMA KeptReturns ==
    ASSUME TypeOK, Kept, [Next]_vars, NEW answered \in BOOLEAN, Returns(answered), pc = "loop", step' = step,
           fresh /\ ~(noisy /\ (KeyOrAxis \/ ~answered)) =>
             KeyAgrees(step)' /\ AbsAgrees(step)' /\ (answered => Filled(step)'),
           AsksOnly \/ UNCHANGED <<map, reverse>>
    PROVE  Kept'
<1> DEFINE sound == fresh /\ ~(noisy /\ (KeyOrAxis \/ ~answered))
<1>1. /\ pc' = "sleep" /\ step \in Step /\ Asked = Elements[step]
      /\ sure' = IF answered /\ sound THEN sure \cup {Elements[step].what} ELSE sure
      /\ spoilt' = IF sound THEN spoilt ELSE spoilt \cup {Elements[step].what}
  BY DEF Returns, TypeOK, Asked, KeyOrAxis
<1>2. sound => KeyAgrees(step)' /\ AbsAgrees(step)' /\ (answered => Filled(step)')
  OBVIOUS
<1> HIDE DEF sound
<1>3. Elements[step].what \notin sure \cup spoilt
  <2>1. ~Past(step)
    BY <1>1, Steps DEF Past
  <2> QED
    BY <1>1, <2>1 DEF Kept
<1>4. (sure \cap spoilt)' = {}
  BY <1>1, <1>3 DEF Kept
<1>5. ASSUME NEW n \in Step, n # step
      PROVE  IF Past(n)' THEN Holds(n)' ELSE Elements[n].what \notin sure' \cup spoilt'
  <2>1. /\ Elements[n].what \in sure' <=> Elements[n].what \in sure
        /\ Elements[n].what \in spoilt' <=> Elements[n].what \in spoilt
    BY <1>1, <1>5, Apart
  <2>2. /\ KeyAgrees(n)' <=> KeyAgrees(n)
        /\ AbsAgrees(n)' <=> AbsAgrees(n)
        /\ Filled(n)' <=> Filled(n)
    BY <1>5, OthersKeep, Untouched
  <2>3. Past(n)' <=> Past(n)
    BY <1>1, <1>5 DEF Past
  <2>4. IF Past(n) THEN Holds(n) ELSE Elements[n].what \notin sure \cup spoilt
    BY DEF Kept, Holds
  <2> QED
    BY <2>1, <2>2, <2>3, <2>4 DEF Holds
<1>6. Past(step)' /\ Holds(step)'
  BY <1>1, <1>2, <1>3 DEF Past, Holds
<1>7. \A n \in Step : IF Past(n)' THEN Holds(n)' ELSE Elements[n].what \notin sure' \cup spoilt'
  BY <1>1, <1>5, <1>6
<1> QED
  BY <1>4, <1>7 DEF Kept, Holds

LEMMA KeptDrain ==
    ASSUME TypeOK, Kept, Drain
    PROVE  Kept'
<1>1. /\ pc = "drain" /\ step \in Step /\ kind' = kind /\ reverse' = reverse
      /\ sure' = sure /\ spoilt' = spoilt /\ step' = NextStep
      /\ map' = IF DPadDone THEN [map EXCEPT ![Elements[step + 1].key] = NoCode] ELSE map
      /\ (NextStep = step /\ pc' = "saved") \/ (NextStep # step /\ pc' = "ask")
      /\ Asked = Elements[step] /\ [Next]_vars /\ step \in 1 .. 21
  BY Steps DEF Drain, TypeOK, Asked, Next, padVars
<1>2. CASE DPadDone
  <2>1. PICK next \in Step : next = step + 1
    <3>1. step = 7 \/ step = 9
      BY <1>1, <1>2, DPads DEF DPadDone
    <3>2. step + 1 \in 1 .. 21
      BY <3>1
    <3> QED
      BY <3>2, Steps
  <2>2. next \in {8, 10} /\ step' = step + 2 /\ pc' = "ask"
    <3>1. step \in {7, 9}
      BY <1>1, <1>2, DPads DEF DPadDone
    <3> QED
      BY <1>1, <1>2, <2>1, <3>1 DEF NextStep
  <2>3. Elements[next].key # "" /\ Elements[next].abs = "" /\ Elements[next].key \in CodeField
    <3>1. Elements[8].key # "" /\ Elements[8].abs = "" /\ Elements[10].key # "" /\ Elements[10].abs = ""
      BY DEF Elements
    <3>2. next = 8 \/ next = 10
      BY <2>2
    <3>3. Elements[next].key # "" /\ Elements[next].abs = ""
      BY <3>1, <3>2
    <3> QED
      BY <3>3, Fields
  <2>4. /\ \A f \in CodeField \ {Elements[next].key} : map'[f] = map[f]
        /\ map'[Elements[next].key] = NoCode
    BY <1>1, <1>2, <2>1, <2>3 DEF TypeOK
  <2>5. ASSUME NEW n \in Step, n # next
        PROVE  IF Past(n)' THEN Holds(n)' ELSE Elements[n].what \notin sure' \cup spoilt'
    <3>1. /\ Elements[n].key # "" => map'[Elements[n].key] = map[Elements[n].key]
          /\ Elements[n].abs # "" => map'[Elements[n].abs] = map[Elements[n].abs]
      BY <2>4, <2>5, Apart, Fields
    <3>2. /\ KeyAgrees(n)' <=> KeyAgrees(n)
          /\ AbsAgrees(n)' <=> AbsAgrees(n)
          /\ Filled(n)' <=> Filled(n)
      BY <1>1, <3>1, SamePad DEF KeyAgrees, AbsAgrees, Filled
    <3>3. Past(n)' <=> Past(n)
      BY <1>1, <2>1, <2>2, <2>5, Steps DEF Past
    <3>4. IF Past(n) THEN Holds(n) ELSE Elements[n].what \notin sure \cup spoilt
      BY DEF Kept, Holds
    <3> QED
      BY <1>1, <3>2, <3>3, <3>4 DEF Holds
  <2>6. Past(next)' /\ Holds(next)'
    <3>1. ~Past(next)
      BY <1>1, <2>1 DEF Past
    <3>2. Elements[next].what \notin sure \cup spoilt
      BY <3>1 DEF Kept
    <3>3. Past(next)'
      BY <1>1, <2>1, <2>2 DEF Past
    <3>4. KeyAgrees(next)' /\ AbsAgrees(next)'
      BY <2>3, <2>4 DEF KeyAgrees, AbsAgrees
    <3> QED
      BY <1>1, <3>2, <3>3, <3>4 DEF Holds
  <2>7. \A n \in Step : IF Past(n)' THEN Holds(n)' ELSE Elements[n].what \notin sure' \cup spoilt'
    BY <2>5, <2>6
  <2> QED
    BY <1>1, <2>7 DEF Kept, Holds
<1>3. CASE ~DPadDone
  <2>1. map' = map /\ ((step' = step + 1 /\ pc' = "ask") \/ (step' = step /\ pc' = "saved"))
    BY <1>1, <1>3 DEF NextStep
  <2>2. ASSUME NEW n \in Step
        PROVE  /\ Past(n)' <=> Past(n)
               /\ KeyAgrees(n)' <=> KeyAgrees(n)
               /\ AbsAgrees(n)' <=> AbsAgrees(n)
               /\ Filled(n)' <=> Filled(n)
    <3>1. Past(n)' <=> Past(n)
      BY <1>1, <2>1, Steps DEF Past
    <3> QED
      BY <1>1, <1>3, <3>1, Untouched
  <2> QED
    BY <1>1, <2>2 DEF Kept
<1> QED
  BY <1>2, <1>3

LEMMA KeptStep ==
    ASSUME TypeOK, Quiet, Following, Kept, [Next]_vars
    PROVE  Kept'
<1>1. CASE EvdevHandle
  <2>1. /\ pc = "loop" /\ step' = step /\ AsksOnly
        /\ (pc' = "loop" /\ sure' = sure /\ spoilt' = spoilt) \/ Returns(TRUE)
    BY <1>1, OnlyAsked DEF EvdevHandle, MapKey, MapAbs, GoesOn
  <2>2. CASE Returns(TRUE)
    <3>1. pc' = "sleep"
      BY <2>2 DEF Returns
    <3>2. fresh /\ ~(noisy /\ KeyOrAxis) => KeyAgrees(step)' /\ AbsAgrees(step)' /\ Filled(step)'
      BY <1>1, <3>1, Handled
    <3> QED
      BY <2>1, <2>2, <3>2, KeptReturns
  <2>3. CASE pc' = "loop" /\ sure' = sure /\ spoilt' = spoilt
    <3>1. ASSUME NEW n \in Step
          PROVE  IF Past(n)' THEN Holds(n)' ELSE Elements[n].what \notin sure' \cup spoilt'
      <4>1. Past(n)' <=> Past(n)
        BY <2>1, <2>3 DEF Past
      <4>2. Past(n) => n # step
        BY <2>1, Steps DEF Past, TypeOK
      <4>3. IF Past(n) THEN Holds(n) ELSE Elements[n].what \notin sure \cup spoilt
        BY DEF Kept, Holds
      <4> QED
        BY <2>1, <2>3, <4>1, <4>2, <4>3, OthersKeep DEF Holds
    <3> QED
      BY <2>3, <3>1 DEF Kept, Holds
  <2> QED
    BY <2>1, <2>2, <2>3
<1>2. CASE Ask
  <2>1. AsksOnly /\ step' = step /\ sure' = sure /\ spoilt' = spoilt /\ pc = "ask" /\ pc' = "loop"
    BY <1>2, OnlyAsked DEF Ask, history
  <2>2. ASSUME NEW n \in Step
        PROVE  IF Past(n)' THEN Holds(n)' ELSE Elements[n].what \notin sure' \cup spoilt'
    <3>1. Past(n)' <=> Past(n)
      BY <2>1 DEF Past
    <3>2. Past(n) => n # step
      BY <2>1, Steps DEF Past, TypeOK
    <3>3. IF Past(n) THEN Holds(n) ELSE Elements[n].what \notin sure \cup spoilt
      BY DEF Kept, Holds
    <3> QED
      BY <2>1, <3>1, <3>2, <3>3, OthersKeep DEF Holds
  <2> QED
    BY <2>1, <2>2 DEF Kept, Holds
<1>3. CASE LoopSigHandler
  <2>1. pc = "loop" /\ step' = step /\ map' = map /\ reverse' = reverse /\ Returns(FALSE) /\ step \in Step
    BY <1>3 DEF LoopSigHandler, TypeOK
  <2>2. ASSUME fresh, ~noisy PROVE KeyAgrees(step)' /\ AbsAgrees(step)'
    <3>1. KeyAgrees(step) /\ AbsAgrees(step)
      BY <2>1, <2>2 DEF Following, Misled
    <3> QED
      BY <2>1, <3>1, SamePad DEF KeyAgrees, AbsAgrees
  <2> QED
    BY <2>1, <2>2, KeptReturns
<1>4. CASE User \/ Signal \/ Sleep \/ UNCHANGED vars
  <2>1. /\ UNCHANGED <<step, map, reverse, sure, spoilt>>
        /\ pc' = pc \/ (pc = "sleep" /\ pc' = "drain")
    BY <1>4 DEF User, Move, Trembles, Press, Release, Reports, Signal, Sleep, vars, history
  <2>2. ASSUME NEW n \in Step
        PROVE  /\ Past(n)' <=> Past(n)
               /\ KeyAgrees(n)' <=> KeyAgrees(n)
               /\ AbsAgrees(n)' <=> AbsAgrees(n)
               /\ Filled(n)' <=> Filled(n)
    BY <2>1, Untouched DEF Past
  <2> QED
    BY <2>1, <2>2 DEF Kept
<1>5. CASE Drain
  BY <1>5, KeptDrain
<1> QED
  BY <1>1, <1>2, <1>3, <1>4, <1>5 DEF Next

LEMMA SavedStep ==
    ASSUME TypeOK, Saved, [Next]_vars
    PROVE  Saved'
<1>1. CASE Drain
  <2>1. /\ step \in 1 .. 21 /\ reverse' = reverse /\ step' = NextStep
        /\ map' = IF DPadDone THEN [map EXCEPT ![Elements[step + 1].key] = NoCode] ELSE map
    BY <1>1, Steps DEF Drain, TypeOK
  <2>2. ASSUME pc' = "saved" PROVE ~DPadDone /\ step = 21 /\ step' = step
    <3>1. NextStep = step
      BY <1>1, <2>2 DEF Drain
    <3> QED
      BY <2>1, <3>1, Steps DEF NextStep
  <2>3. pc' = "saved" =>
          file' = [f \in CodeField \cup Reversible |-> IF f \in CodeField THEN map[f] ELSE reverse[f]]
    BY <1>1 DEF Drain
  <2> QED
    BY <2>1, <2>2, <2>3 DEF Saved
<1>2. CASE User \/ Signal \/ Ask \/ EvdevHandle \/ LoopSigHandler \/ Sleep
  BY <1>2 DEF User, Move, Trembles, Press, Release, Reports, Signal, Ask, EvdevHandle, MapKey, MapAbs,
       Returns, GoesOn, LoopSigHandler, Sleep, Saved
<1>3. CASE UNCHANGED vars
  BY <1>3 DEF vars, Saved
<1> QED
  BY <1>1, <1>2, <1>3 DEF Next

LEMMA InvInit == Init => Inv
<1> SUFFICES ASSUME Init PROVE Inv
  OBVIOUS
<1>1. TypeOK
  BY TypeInit
<1>2. Quiet
  <2>1. \A a \in Axis : Expected([type |-> "EV_ABS", code |-> a, value |-> value[a]])
    BY DEF Init, Expected
  <2> QED
    BY <2>1 DEF Init, Quiet
<1>3. \A n \in Step : ~Past(n)
  BY Steps DEF Init, Past
<1> QED
  BY <1>1, <1>2, <1>3 DEF Init, Inv, Following, Kept, Saved

LEMMA InvStep == Inv /\ [Next]_vars => Inv'
BY TypeStep, QuietStep, FollowingStep, KeptStep, SavedStep DEF Inv

LEMMA Invariance == Spec => []Inv
<1>1. Init => Inv
  BY InvInit
<1>2. Inv /\ [Next]_vars => Inv'
  BY InvStep
<1> QED
  BY <1>1, <1>2, PTL DEF Spec

(* The mapping, the queue and the history have their types, for any pads.  *)
THEOREM TypeCorrect == Spec => []TypeOK
<1>1. Inv => TypeOK
  BY DEF Inv
<1> QED
  BY <1>1, Invariance, PTL

(* Whatever the order of the user's moves, of what an axis at rest reports *)
(* and of signals, an element that was asked for when nothing was held,    *)
(* and answered with nothing else that could be its answer, has been       *)
(* filled in with that answer and with nothing else.                       *)
THEOREM AnswersAreKept == Spec => []AnswersKept
<1>1. Inv => AnswersKept
  <2> SUFFICES ASSUME Inv, NEW n \in Step, Elements[n].what \in sure
               PROVE  LET e == Elements[n] a == pad.answer[e.what]
                      IN /\ e.key # "" => map[e.key] \in {a.key, NoCode}
                         /\ e.abs # "" => map[e.abs] \in {a.abs, NoCode}
                         /\ \/ e.key # "" /\ a.key # NoCode /\ map[e.key] = a.key
                            \/ e.abs # "" /\ a.abs # NoCode /\ map[e.abs] = a.abs
    BY DEF AnswersKept
  <2>1. KeyAgrees(n) /\ AbsAgrees(n) /\ Filled(n)
    BY DEF Inv, Kept
  <2> QED
    BY <2>1 DEF KeyAgrees, AbsAgrees, Filled, Told
<1> QED
  BY <1>1, Invariance, PTL

----------------------------------------------------------------------------
(* The order in which evdev_handle_event compares the fields: each of them *)
(* has its turn, and is of one element.                                    *)
Turn(s) ==
    CASE s \in {"btn_south", "abs_x"} -> 1
      [] s \in {"btn_west", "abs_y"} -> 2
      [] s \in {"btn_north", "abs_rx"} -> 3
      [] s \in {"btn_east", "abs_ry"} -> 4
      [] s \in {"btn_dpad_up", "abs_z"} -> 5
      [] s \in {"btn_dpad_down", "abs_rz"} -> 6
      [] s \in {"btn_dpad_right", "abs_dpad_x"} -> 7
      [] s \in {"btn_dpad_left", "abs_dpad_y"} -> 8
      [] s \in {"btn_thumbl"} -> 9
      [] s \in {"btn_thumbr"} -> 10
      [] s \in {"btn_tl"} -> 11
      [] s \in {"btn_tr"} -> 12
      [] s \in {"btn_start"} -> 13
      [] s \in {"btn_select"} -> 14
      [] s \in {"btn_mode"} -> 15
      [] s \in {"btn_tl2"} -> 16
      [] s \in {"btn_tr2"} -> 17
      [] OTHER -> 0

KeyAt(i, n) == Turn(KeyOrder[i]) = i /\ Elements[n].key = KeyOrder[i] /\ KeyOrder[i] # ""
AbsAt(i, n) == Turn(AbsOrder[i]) = i /\ Elements[n].abs = AbsOrder[i] /\ AbsOrder[i] # ""
Keyed(n) == Elements[n].key # "" => \E i \in DOMAIN KeyOrder : KeyAt(i, n)
Axed(n) == Elements[n].abs # "" => \E i \in DOMAIN AbsOrder : AbsAt(i, n)

LEMMA KeysOrdered ==
    /\ DOMAIN KeyOrder = 1 .. 17
    /\ \A i \in DOMAIN KeyOrder : \E n \in Step : KeyAt(i, n)
    /\ \A n \in Step : Keyed(n)
<1>0. DOMAIN KeyOrder = 1 .. 17  BY DEF KeyOrder
<1>1. KeyAt(1, 12)  BY DEF Elements, KeyAt, KeyOrder, Turn
<1>2. KeyAt(2, 11)  BY DEF Elements, KeyAt, KeyOrder, Turn
<1>3. KeyAt(3, 14)  BY DEF Elements, KeyAt, KeyOrder, Turn
<1>4. KeyAt(4, 13)  BY DEF Elements, KeyAt, KeyOrder, Turn
<1>5. KeyAt(5, 10)  BY DEF Elements, KeyAt, KeyOrder, Turn
<1>6. KeyAt(6, 9)  BY DEF Elements, KeyAt, KeyOrder, Turn
<1>7. KeyAt(7, 7)  BY DEF Elements, KeyAt, KeyOrder, Turn
<1>8. KeyAt(8, 8)  BY DEF Elements, KeyAt, KeyOrder, Turn
<1>9. KeyAt(9, 3)  BY DEF Elements, KeyAt, KeyOrder, Turn
<1>10. KeyAt(10, 6)  BY DEF Elements, KeyAt, KeyOrder, Turn
<1>11. KeyAt(11, 20)  BY DEF Elements, KeyAt, KeyOrder, Turn
<1>12. KeyAt(12, 21)  BY DEF Elements, KeyAt, KeyOrder, Turn
<1>13. KeyAt(13, 16)  BY DEF Elements, KeyAt, KeyOrder, Turn
<1>14. KeyAt(14, 15)  BY DEF Elements, KeyAt, KeyOrder, Turn
<1>15. KeyAt(15, 17)  BY DEF Elements, KeyAt, KeyOrder, Turn
<1>16. KeyAt(16, 18)  BY DEF Elements, KeyAt, KeyOrder, Turn
<1>17. KeyAt(17, 19)  BY DEF Elements, KeyAt, KeyOrder, Turn
<1>18. Keyed(1)  BY DEF Elements, Keyed
<1>19. Keyed(2)  BY DEF Elements, Keyed
<1>20. Keyed(3)  BY <1>0, <1>9, 9 \in 1 .. 17 DEF Keyed
<1>21. Keyed(4)  BY DEF Elements, Keyed
<1>22. Keyed(5)  BY DEF Elements, Keyed
<1>23. Keyed(6)  BY <1>0, <1>10, 10 \in 1 .. 17 DEF Keyed
<1>24. Keyed(7)  BY <1>0, <1>7, 7 \in 1 .. 17 DEF Keyed
<1>25. Keyed(8)  BY <1>0, <1>8, 8 \in 1 .. 17 DEF Keyed
<1>26. Keyed(9)  BY <1>0, <1>6, 6 \in 1 .. 17 DEF Keyed
<1>27. Keyed(10)  BY <1>0, <1>5, 5 \in 1 .. 17 DEF Keyed
<1>28. Keyed(11)  BY <1>0, <1>2, 2 \in 1 .. 17 DEF Keyed
<1>29. Keyed(12)  BY <1>0, <1>1, 1 \in 1 .. 17 DEF Keyed
<1>30. Keyed(13)  BY <1>0, <1>4, 4 \in 1 .. 17 DEF Keyed
<1>31. Keyed(14)  BY <1>0, <1>3, 3 \in 1 .. 17 DEF Keyed
<1>32. Keyed(15)  BY <1>0, <1>14, 14 \in 1 .. 17 DEF Keyed
<1>33. Keyed(16)  BY <1>0, <1>13, 13 \in 1 .. 17 DEF Keyed
<1>34. Keyed(17)  BY <1>0, <1>15, 15 \in 1 .. 17 DEF Keyed
<1>35. Keyed(18)  BY <1>0, <1>16, 16 \in 1 .. 17 DEF Keyed
<1>36. Keyed(19)  BY <1>0, <1>17, 17 \in 1 .. 17 DEF Keyed
<1>37. Keyed(20)  BY <1>0, <1>11, 11 \in 1 .. 17 DEF Keyed
<1>38. Keyed(21)  BY <1>0, <1>12, 12 \in 1 .. 17 DEF Keyed
<1>39. \A i \in 1 .. 17 : \E n \in Step : KeyAt(i, n)
  BY Steps, <1>1, <1>2, <1>3, <1>4, <1>5, <1>6, <1>7, <1>8, <1>9, <1>10, <1>11, <1>12, <1>13,
     <1>14, <1>15, <1>16, <1>17
<1>40. \A n \in Step : Keyed(n)
  BY Steps, <1>18, <1>19, <1>20, <1>21, <1>22, <1>23, <1>24, <1>25, <1>26, <1>27, <1>28, <1>29,
     <1>30, <1>31, <1>32, <1>33, <1>34, <1>35, <1>36, <1>37, <1>38
<1> QED
  BY <1>0, <1>39, <1>40

LEMMA AxesOrdered ==
    /\ DOMAIN AbsOrder = 1 .. 8
    /\ \A i \in DOMAIN AbsOrder : \E n \in Step : AbsAt(i, n)
    /\ \A n \in Step : Axed(n)
<1>0. DOMAIN AbsOrder = 1 .. 8  BY DEF AbsOrder
<1>1. AbsAt(1, 1)  BY DEF Elements, AbsAt, AbsOrder, Turn
<1>2. AbsAt(2, 2)  BY DEF Elements, AbsAt, AbsOrder, Turn
<1>3. AbsAt(3, 4)  BY DEF Elements, AbsAt, AbsOrder, Turn
<1>4. AbsAt(4, 5)  BY DEF Elements, AbsAt, AbsOrder, Turn
<1>5. AbsAt(5, 18)  BY DEF Elements, AbsAt, AbsOrder, Turn
<1>6. AbsAt(6, 19)  BY DEF Elements, AbsAt, AbsOrder, Turn
<1>7. AbsAt(7, 7)  BY DEF Elements, AbsAt, AbsOrder, Turn
<1>8. AbsAt(8, 9)  BY DEF Elements, AbsAt, AbsOrder, Turn
<1>9. Axed(1)  BY <1>0, <1>1, 1 \in 1 .. 8 DEF Axed
<1>10. Axed(2)  BY <1>0, <1>2, 2 \in 1 .. 8 DEF Axed
<1>11. Axed(3)  BY DEF Elements, Axed
<1>12. Axed(4)  BY <1>0, <1>3, 3 \in 1 .. 8 DEF Axed
<1>13. Axed(5)  BY <1>0, <1>4, 4 \in 1 .. 8 DEF Axed
<1>14. Axed(6)  BY DEF Elements, Axed
<1>15. Axed(7)  BY <1>0, <1>7, 7 \in 1 .. 8 DEF Axed
<1>16. Axed(8)  BY DEF Elements, Axed
<1>17. Axed(9)  BY <1>0, <1>8, 8 \in 1 .. 8 DEF Axed
<1>18. Axed(10)  BY DEF Elements, Axed
<1>19. Axed(11)  BY DEF Elements, Axed
<1>20. Axed(12)  BY DEF Elements, Axed
<1>21. Axed(13)  BY DEF Elements, Axed
<1>22. Axed(14)  BY DEF Elements, Axed
<1>23. Axed(15)  BY DEF Elements, Axed
<1>24. Axed(16)  BY DEF Elements, Axed
<1>25. Axed(17)  BY DEF Elements, Axed
<1>26. Axed(18)  BY <1>0, <1>5, 5 \in 1 .. 8 DEF Axed
<1>27. Axed(19)  BY <1>0, <1>6, 6 \in 1 .. 8 DEF Axed
<1>28. Axed(20)  BY DEF Elements, Axed
<1>29. Axed(21)  BY DEF Elements, Axed
<1>30. \A i \in 1 .. 8 : \E n \in Step : AbsAt(i, n)
  BY Steps, <1>1, <1>2, <1>3, <1>4, <1>5, <1>6, <1>7, <1>8
<1>31. \A n \in Step : Axed(n)
  BY Steps, <1>9, <1>10, <1>11, <1>12, <1>13, <1>14, <1>15, <1>16, <1>17, <1>18, <1>19, <1>20,
     <1>21, <1>22, <1>23, <1>24, <1>25, <1>26, <1>27, <1>28, <1>29
<1> QED
  BY <1>0, <1>30, <1>31

(* Which elements have an axis, and of which kind.                         *)
Triggers == {"abs_z", "abs_rz"}
Hats == {"abs_dpad_x", "abs_dpad_y"}

OfAKind(n) ==
    Elements[n].abs # "" =>
      /\ Elements[n].abs \in Triggers <=> Elements[n].reverse = "ignored"
      /\ Elements[n].abs \in Hats <=> n \in {7, 9}
      /\ n \notin {8, 10}

LEMMA Kinds == \A n \in Step : OfAKind(n)
<1>1. OfAKind(1)
  <2>1. Elements[1].abs = "abs_x" /\ Elements[1].reverse = "reverse_x"  BY DEF Elements
  <2> QED  BY <2>1 DEF OfAKind, Triggers, Hats
<1>2. OfAKind(2)
  <2>1. Elements[2].abs = "abs_y" /\ Elements[2].reverse = "reverse_y"  BY DEF Elements
  <2> QED  BY <2>1 DEF OfAKind, Triggers, Hats
<1>3. OfAKind(3)  BY DEF Elements, OfAKind, Triggers, Hats
<1>4. OfAKind(4)
  <2>1. Elements[4].abs = "abs_rx" /\ Elements[4].reverse = "reverse_rx"  BY DEF Elements
  <2> QED  BY <2>1 DEF OfAKind, Triggers, Hats
<1>5. OfAKind(5)
  <2>1. Elements[5].abs = "abs_ry" /\ Elements[5].reverse = "reverse_ry"  BY DEF Elements
  <2> QED  BY <2>1 DEF OfAKind, Triggers, Hats
<1>6. OfAKind(6)  BY DEF Elements, OfAKind, Triggers, Hats
<1>7. OfAKind(7)
  <2>1. Elements[7].abs = "abs_dpad_x" /\ Elements[7].reverse = "reverse_dpad_x"  BY DEF Elements
  <2> QED  BY <2>1 DEF OfAKind, Triggers, Hats
<1>8. OfAKind(8)  BY DEF Elements, OfAKind, Triggers, Hats
<1>9. OfAKind(9)
  <2>1. Elements[9].abs = "abs_dpad_y" /\ Elements[9].reverse = "reverse_dpad_y"  BY DEF Elements
  <2> QED  BY <2>1 DEF OfAKind, Triggers, Hats
<1>10. OfAKind(10)  BY DEF Elements, OfAKind, Triggers, Hats
<1>11. OfAKind(11)  BY DEF Elements, OfAKind, Triggers, Hats
<1>12. OfAKind(12)  BY DEF Elements, OfAKind, Triggers, Hats
<1>13. OfAKind(13)  BY DEF Elements, OfAKind, Triggers, Hats
<1>14. OfAKind(14)  BY DEF Elements, OfAKind, Triggers, Hats
<1>15. OfAKind(15)  BY DEF Elements, OfAKind, Triggers, Hats
<1>16. OfAKind(16)  BY DEF Elements, OfAKind, Triggers, Hats
<1>17. OfAKind(17)  BY DEF Elements, OfAKind, Triggers, Hats
<1>18. OfAKind(18)
  <2>1. Elements[18].abs = "abs_z" /\ Elements[18].reverse = "ignored"  BY DEF Elements
  <2> QED  BY <2>1 DEF OfAKind, Triggers, Hats
<1>19. OfAKind(19)
  <2>1. Elements[19].abs = "abs_rz" /\ Elements[19].reverse = "ignored"  BY DEF Elements
  <2> QED  BY <2>1 DEF OfAKind, Triggers, Hats
<1>20. OfAKind(20)  BY DEF Elements, OfAKind, Triggers, Hats
<1>21. OfAKind(21)  BY DEF Elements, OfAKind, Triggers, Hats
<1> QED
  BY Steps, <1>1, <1>2, <1>3, <1>4, <1>5, <1>6, <1>7, <1>8, <1>9, <1>10, <1>11,
     <1>12, <1>13, <1>14, <1>15, <1>16, <1>17, <1>18, <1>19, <1>20, <1>21

(* The field that a code is taken for, when only one of them has it.       *)
LEMMA FieldIs ==
    ASSUME NEW order, NEW code, NEW i \in Int, i \in DOMAIN order, file[order[i]] = code,
           \A j \in DOMAIN order : file[order[j]] = code => j = i
    PROVE  FieldOf(order, code) = order[i]
<1> DEFINE fits == {j \in DOMAIN order : file[order[j]] = code}
<1>1. fits = {i}
  OBVIOUS
<1>2. FieldOf(order, code) = IF fits = {} THEN "" ELSE order[CHOOSE k \in fits : \A j \in fits : k <= j]
  BY DEF FieldOf
<1> HIDE DEF fits
<1>3. (CHOOSE k \in fits : \A j \in fits : k <= j) = i
  BY <1>1
<1> QED
  BY <1>1, <1>2, <1>3

LEMMA Reversal ==
    ASSUME NEW n \in Step, Elements[n].abs # ""
    PROVE  ReverseOf(Elements[n].abs) = n
<1>1. \A m \in Step : Elements[m].abs = Elements[n].abs => m = n
  BY Apart
<1> QED
  BY <1>1 DEF ReverseOf

----------------------------------------------------------------------------
(* The conversions, at the ends of an axis.                                *)

LEMMA Whole ==
    ASSUME NEW s \in Nat, s > 0, NEW m \in Nat
    PROVE  CDiv(s * m, s) = m
<1> DEFINE q == CDiv(s * m, s)
<1>1. s * m \in Nat
  OBVIOUS
<1>2. q \in Nat /\ s * q <= s * m /\ s * m < s * q + s
  <2>1. (s * m) \div s \in Nat /\ s * ((s * m) \div s) <= s * m /\ s * m < s * ((s * m) \div s) + s
    BY <1>1, SMT
  <2> QED
    BY <1>1, <2>1 DEF CDiv
<1> HIDE DEF q
<1>3. ASSUME NEW a \in Nat, NEW b \in Nat, a < b PROVE s * a + s <= s * b
  <2>1. PICK d \in Nat : b = a + 1 + d
    BY <1>3, b - a - 1 \in Nat
  <2>2. s * b = s * a + s + s * d /\ s * d \in Nat
    BY <2>1
  <2> QED
    BY <2>2
<1>4. q = m
  BY <1>1, <1>2, <1>3
<1> QED
  BY <1>4 DEF q

LEMMA Middle ==
    ASSUME NEW p, Calibrated(p)
    PROVE  /\ p.min \in Int /\ p.max \in Int /\ p.avg \in Int /\ p.flat \in Nat /\ p.min < p.max
           /\ p.max - p.min > 2 * p.flat
           /\ p.range = p.max - p.avg /\ p.diff = p.max - p.min
           /\ p.min <= p.avg /\ p.avg <= p.max
           /\ 2 * (p.max - p.avg) >= p.max - p.min - 1
           /\ 2 * (p.avg - p.min) >= p.max - p.min - 1
<1>1. /\ p.min \in Int /\ p.max \in Int /\ p.flat \in Nat /\ p.min < p.max
      /\ p.max - p.min > 2 * p.flat
      /\ p.avg = CDiv(p.min + p.max, 2) /\ p.range = p.max - p.avg /\ p.diff = p.max - p.min
  BY DEF Calibrated, InitParms, StickSpan
<1>2. /\ p.avg \in Int
      /\ 2 * p.avg <= p.min + p.max + 1 /\ 2 * p.avg >= p.min + p.max - 1
  BY <1>1 DEF CDiv
<1> QED
  BY <1>1, <1>2

(* An axis that the wizard took for moved to an end counts for as much as  *)
(* it can, in the direction it was asked for, and its other end for the    *)
(* opposite.                                                               *)
LEMMA AtTheEnd ==
    ASSUME NEW p, Calibrated(p), NEW to \in {p.min, p.max}, NEW reversed \in BOOLEAN,
           IF reversed THEN Low(p, to) ELSE High(p, to)
    PROVE  /\ Sign(ConvertValue(p, to, reversed)) = 1
           /\ ConvertDirection(p, to, reversed) = 1
           /\ \A other \in {p.min, p.max} :
                p.max - p.min > 1 /\ other # to => ConvertDirection(p, other, reversed) = -1
<1>1. /\ p.min \in Int /\ p.max \in Int /\ p.avg \in Int /\ p.flat \in Nat /\ p.min < p.max
      /\ p.max - p.min > 2 * p.flat
      /\ p.range = p.max - p.avg /\ p.diff = p.max - p.min
      /\ p.min <= p.avg /\ p.avg <= p.max
      /\ 2 * (p.max - p.avg) >= p.max - p.min - 1
      /\ 2 * (p.avg - p.min) >= p.max - p.min - 1
  BY Middle
<1>2. /\ CDiv(p.range, 2) \in Nat /\ CDiv(p.range, 4) \in Nat
      /\ CDiv(p.range, 4) <= CDiv(p.range, 2) /\ 4 * CDiv(p.range, 4) <= p.max - p.avg
  BY <1>1 DEF CDiv
<1>3. (reversed /\ to = p.min /\ p.min < p.avg - CDiv(p.range, 2))
      \/ (~reversed /\ to = p.max /\ p.max > p.avg + CDiv(p.range, 2))
  BY <1>1, <1>2 DEF Low, High
<1>4. ConvertDirection(p, to, reversed) = 1
  BY <1>1, <1>2, <1>3 DEF ConvertDirection
<1>5. ASSUME NEW other \in {p.min, p.max}, p.max - p.min > 1, other # to
      PROVE  ConvertDirection(p, other, reversed) = -1
  <2>1. p.min < p.avg - CDiv(p.range, 4) /\ p.max > p.avg + CDiv(p.range, 4)
    BY <1>1, <1>2, <1>5
  <2> QED
    BY <1>1, <1>2, <1>3, <1>5, <2>1 DEF ConvertDirection
<1>6. Sign(ConvertValue(p, to, reversed)) = 1
  <2>1. ~(Dist(to, p.avg) < p.flat) /\ ~(to > p.max) /\ ~(to < p.min)
    BY <1>1, <1>3 DEF Dist
  <2>2. StickOffset(p, to, reversed) = StickSpan(p) /\ StickSpan(p) \in Nat /\ StickSpan(p) > 0
    BY <1>1, <1>2, <1>3 DEF StickOffset, StickSpan
  <2>3. ConvertValue(p, to, reversed) = CDiv(StickSpan(p) * (SHRT_MAX - SHRT_MIN), StickSpan(p)) + SHRT_MIN
    BY <2>1, <2>2 DEF ConvertValue
  <2>4. SHRT_MAX - SHRT_MIN = 65535 /\ SHRT_MIN = -32768
    BY DEF SHRT_MAX, SHRT_MIN
  <2>5. CDiv(StickSpan(p) * 65535, StickSpan(p)) = 65535
    BY <2>2, Whole
  <2>6. ConvertValue(p, to, reversed) = 32767
    BY <2>3, <2>4, <2>5
  <2> QED
    BY <2>6 DEF Sign
<1> QED
  BY <1>4, <1>5, <1>6

LEMMA TriggerAtTheEnd ==
    ASSUME NEW p, Calibrated(p)
    PROVE  Sign(ConvertByte(p, p.max)) = 1
<1>1. /\ p.min \in Int /\ p.max \in Int /\ p.flat \in Nat /\ p.min < p.max
      /\ p.max - p.min > 2 * p.flat /\ p.diff = p.max - p.min
  BY Middle
<1>2. ~(Dist(p.max, p.min) < p.flat) /\ ~(p.max > p.max)
  BY <1>1 DEF Dist
<1>3. p.max - p.flat - p.min = p.diff - p.flat /\ p.diff - p.flat \in Nat /\ p.diff - p.flat > 0
  BY <1>1
<1>4. ConvertByte(p, p.max) = CDiv((p.diff - p.flat) * 255, p.diff - p.flat) % 256
  BY <1>2, <1>3 DEF ConvertByte, UCHAR_MAX
<1>5. CDiv((p.diff - p.flat) * 255, p.diff - p.flat) = 255
  BY <1>3, Whole
<1> QED
  BY <1>4, <1>5 DEF Sign

----------------------------------------------------------------------------
(* The file that is saved.                                                 *)

SavedWell == pc = "saved" /\ spoilt = {}

LEMMA FileIs ==
    ASSUME Inv, SavedWell, NEW n \in Step
    PROVE  /\ KeyAgrees(n) /\ AbsAgrees(n) /\ (Elements[n].what \in sure => Filled(n))
           /\ Elements[n].key # "" => file[Elements[n].key] = map[Elements[n].key]
           /\ Elements[n].abs # "" => file[Elements[n].abs] = map[Elements[n].abs]
           /\ Elements[n].reverse \in Reversible =>
                file[Elements[n].reverse] = reverse[Elements[n].reverse] /\ reverse[Elements[n].reverse] \in BOOLEAN
<1>1. /\ file = [f \in CodeField \cup Reversible |-> IF f \in CodeField THEN map[f] ELSE reverse[f]]
      /\ step = 21 /\ pc = "saved" /\ spoilt = {}
  BY DEF Inv, Saved, SavedWell
<1>2. Past(n)
  BY <1>1, Steps DEF Past
<1>3. KeyAgrees(n) /\ AbsAgrees(n) /\ (Elements[n].what \in sure => Filled(n))
  BY <1>1, <1>2 DEF Inv, Kept
<1>4. /\ Elements[n].key # "" => file[Elements[n].key] = map[Elements[n].key]
      /\ Elements[n].abs # "" => file[Elements[n].abs] = map[Elements[n].abs]
  BY <1>1, Fields
<1>5. Elements[n].reverse \in Reversible =>
        file[Elements[n].reverse] = reverse[Elements[n].reverse] /\ reverse[Elements[n].reverse] \in BOOLEAN
  BY <1>1, Fields DEF Inv, TypeOK, Reversible
<1> QED
  BY <1>3, <1>4, <1>5

ReversedBy(field) == file[Elements[ReverseOf(field)].reverse]

LEMMA Meaning ==
    ASSUME NEW ev, NEW field, field = FieldOf(IF ev.type = "EV_KEY" THEN KeyOrder ELSE AbsOrder, ev.code),
           NEW parms, parms = pad.parms[ev.code]
    PROVE  /\ field = "" => MappedTo(ev) = Nothing
           /\ field # "" /\ ev.type = "EV_KEY" => MappedTo(ev) = <<field, 1>>
           /\ field # "" /\ ev.type = "EV_ABS" =>
                /\ field \in Triggers => MappedTo(ev) = <<field, Sign(ConvertByte(parms, ev.value))>>
                /\ field \in Hats => MappedTo(ev) = <<field, ConvertDirection(parms, ev.value, ReversedBy(field))>>
                /\ field \notin Triggers \cup Hats =>
                     MappedTo(ev) = <<field, Sign(ConvertValue(parms, ev.value, ReversedBy(field)))>>
<1> DEFINE f == FieldOf(IF ev.type = "EV_KEY" THEN KeyOrder ELSE AbsOrder, ev.code)
           r == ReversedBy(f)
           p == pad.parms[ev.code]
<1>1. MappedTo(ev) = CASE f = "" -> Nothing
         [] f # "" /\ ev.type = "EV_KEY" -> <<f, 1>>
         [] ev.type = "EV_ABS" /\ f \in {"abs_z", "abs_rz"} -> <<f, Sign(ConvertByte(p, ev.value))>>
         [] ev.type = "EV_ABS" /\ f \in {"abs_dpad_x", "abs_dpad_y"} -> <<f, ConvertDirection(p, ev.value, r)>>
         [] OTHER -> <<f, Sign(ConvertValue(p, ev.value, r))>>
  BY DEF MappedTo, ReversedBy
<1>2. f = field /\ r = ReversedBy(field) /\ p = parms
  OBVIOUS
<1> HIDE DEF f, r, p
<1>3. field \in Triggers <=> field \in {"abs_z", "abs_rz"}
  BY DEF Triggers
<1>4. field \in Hats <=> field \in {"abs_dpad_x", "abs_dpad_y"}
  BY DEF Hats
<1>5. CASE field = ""
  BY <1>1, <1>2, <1>5, <1>3, <1>4
<1>6. CASE field # "" /\ ev.type = "EV_KEY"
  BY <1>1, <1>2, <1>6
<1>7. CASE field # "" /\ ev.type = "EV_ABS" /\ field \in Triggers
  BY <1>1, <1>2, <1>7 DEF Triggers, Hats
<1>8. CASE field # "" /\ ev.type = "EV_ABS" /\ field \in Hats
  BY <1>1, <1>2, <1>8 DEF Triggers, Hats
<1>9. CASE field # "" /\ ev.type = "EV_ABS" /\ field \notin Triggers \cup Hats
  BY <1>1, <1>2, <1>9 DEF Triggers, Hats
<1> QED
  BY <1>5, <1>6, <1>7, <1>8, <1>9

(* A key is taken for the element it answered, or for none.                *)
LEMMA KeyMeans ==
    ASSUME Inv, SavedWell, NEW n \in Step, Told(pad, n).key # NoCode
    PROVE  LET ev == [type |-> "EV_KEY", code |-> Told(pad, n).key, value |-> 1]
           IN IF Elements[n].key # "" /\ map[Elements[n].key] = Told(pad, n).key
              THEN MappedTo(ev) = <<Elements[n].key, 1>>
              ELSE MappedTo(ev) = Nothing
<1> DEFINE code == Told(pad, n).key
           ev == [type |-> "EV_KEY", code |-> code, value |-> 1]
           field == FieldOf(KeyOrder, code)
<1>1. ASSUME NEW i \in DOMAIN KeyOrder, file[KeyOrder[i]] = code
      PROVE  KeyOrder[i] = Elements[n].key /\ Elements[n].key # "" /\ map[Elements[n].key] = code
  <2>1. PICK m \in Step : Elements[m].key = KeyOrder[i] /\ KeyOrder[i] # ""
    BY KeysOrdered DEF KeyAt
  <2>2. map[Elements[m].key] = code /\ Told(pad, m).key = code
    BY <1>1, <2>1, FileIs DEF KeyAgrees
  <2>3. m = n
    BY <2>2, PadIs DEF TellsApart, Inv
  <2> QED
    BY <2>1, <2>2, <2>3
<1>2. CASE Elements[n].key # "" /\ map[Elements[n].key] = code
  <2>1. PICK i \in DOMAIN KeyOrder : Elements[n].key = KeyOrder[i] /\ Turn(KeyOrder[i]) = i
    BY <1>2, KeysOrdered DEF Keyed, KeyAt
  <2>2. file[KeyOrder[i]] = code /\ i \in Int
    <3>1. file[Elements[n].key] = map[Elements[n].key]
      BY <1>2, FileIs
    <3>2. DOMAIN KeyOrder = 1 .. 17
      BY KeysOrdered
    <3>3. i \in Int
      BY <3>2
    <3> HIDE DEF code
    <3> QED
      BY <1>2, <2>1, <3>1, <3>3
  <2>3. ASSUME NEW j \in DOMAIN KeyOrder, file[KeyOrder[j]] = code PROVE j = i
    <3>1. KeyOrder[j] = Elements[n].key /\ Turn(KeyOrder[j]) = j
      BY <1>1, <2>3, KeysOrdered DEF KeyAt
    <3> QED
      BY <2>1, <3>1
  <2>4. field = Elements[n].key
    <3> HIDE DEF code
    <3> QED
      BY <2>1, <2>2, <2>3, FieldIs
  <2>5. ev.type = "EV_KEY" /\ ev.code = code
    OBVIOUS
  <2>6. MappedTo(ev) = <<Elements[n].key, 1>>
    <3> HIDE DEF code, ev
    <3> QED
      BY <1>2, <2>4, <2>5, Meaning
  <2> QED
    BY <1>2, <2>6
<1>3. CASE ~(Elements[n].key # "" /\ map[Elements[n].key] = code)
  <2>1. \A i \in DOMAIN KeyOrder : file[KeyOrder[i]] # code
    BY <1>1, <1>3
  <2>2. {i \in DOMAIN KeyOrder : file[KeyOrder[i]] = code} = {}
    BY <2>1
  <2>3. field = ""
    BY <2>2 DEF FieldOf
  <2> QED
    BY <1>3, <2>3, Meaning
<1> QED
  BY <1>2, <1>3

LEMMA Opposites ==
    ASSUME NEW n \in Step
    PROVE  /\ Opposite(n) \in Step
           /\ \/ Opposite(n) = n /\ n \notin {8, 10}
              \/ Opposite(n) # n /\ n \in {8, 10} /\ Opposite(n) \in {7, 9}
BY Steps DEF Opposite

(* An axis at its answer is taken for the element it answered, as far as   *)
(* it goes, or for none; at the opposite of that answer for the element of *)
(* the opposite direction.                                                 *)
LEMMA AxisMeans ==
    ASSUME Inv, SavedWell, NEW n \in Step, Told(pad, n).abs # NoCode, NEW o \in Step, o = Opposite(n),
           NEW ev, ev = [type |-> "EV_ABS", code |-> Told(pad, n).abs, value |-> Told(pad, n).to]
    PROVE  IF Elements[o].abs # "" /\ map[Elements[o].abs] = Told(pad, n).abs
           THEN MappedTo(ev) = <<Elements[o].abs, IF o = n THEN 1 ELSE -1>>
           ELSE MappedTo(ev) = Nothing
<1> DEFINE code == Told(pad, n).abs
           to == Told(pad, n).to
           field == FieldOf(AbsOrder, code)
           p == pad.parms[code]
           reversed == ReversedBy(field)
<1>1. /\ ev.type = "EV_ABS" /\ ev.code = code /\ ev.value = to
      /\ (o = n /\ n \notin {8, 10}) \/ (o # n /\ n \in {8, 10} /\ o \in {7, 9})
  BY Opposites
<1>2. /\ Gamepad(pad) /\ TellsApart(pad) /\ Moves(pad, o)
  BY PadIs DEF Inv
<1>3. ASSUME NEW i \in DOMAIN AbsOrder, file[AbsOrder[i]] = code
      PROVE  AbsOrder[i] = Elements[o].abs /\ Elements[o].abs # "" /\ map[Elements[o].abs] = code
  <2>1. PICK m \in Step : Elements[m].abs = AbsOrder[i] /\ AbsOrder[i] # ""
    BY AxesOrdered DEF AbsAt
  <2>2. map[Elements[m].abs] = code /\ Told(pad, m).abs = Told(pad, n).abs
    <3>1. map[Elements[m].abs] = code
      BY <1>3, <2>1, FileIs
    <3>2. AbsAgrees(m)
      BY FileIs
    <3> QED
      BY <2>1, <3>1, <3>2 DEF AbsAgrees
  <2>3. Opposite(m) = m
    BY <2>1, Kinds, Opposites DEF OfAKind
  <2>4. m = o
    BY <1>2, <2>2, <2>3 DEF TellsApart
  <2> QED
    BY <2>1, <2>2, <2>4
<1>4. CASE ~(Elements[o].abs # "" /\ map[Elements[o].abs] = code)
  <2>1. \A i \in DOMAIN AbsOrder : file[AbsOrder[i]] # code
    BY <1>3, <1>4
  <2>2. {i \in DOMAIN AbsOrder : file[AbsOrder[i]] = code} = {}
    BY <2>1
  <2>3. field = ""
    BY <2>2 DEF FieldOf
  <2>4. MappedTo(ev) = Nothing
    <3> HIDE DEF code
    <3> QED
      BY <1>1, <2>3, Meaning
  <2> QED
    BY <1>4, <2>4
<1>5. CASE Elements[o].abs # "" /\ map[Elements[o].abs] = code
  <2>1. field = Elements[o].abs
    <3>1. PICK i \in DOMAIN AbsOrder : Elements[o].abs = AbsOrder[i] /\ Turn(AbsOrder[i]) = i
      BY <1>5, AxesOrdered DEF Axed, AbsAt
    <3>2. file[AbsOrder[i]] = code
      BY <1>5, <3>1, FileIs
    <3>3. i \in Int
      <4>1. DOMAIN AbsOrder = 1 .. 8
        BY AxesOrdered
      <4> QED
        BY <4>1
    <3>4. ASSUME NEW j \in DOMAIN AbsOrder, file[AbsOrder[j]] = code PROVE j = i
      <4>1. AbsOrder[j] = Elements[o].abs /\ Turn(AbsOrder[j]) = j
        BY <1>3, <3>4, AxesOrdered DEF AbsAt
      <4> QED
        BY <3>1, <4>1
    <3> HIDE DEF code
    <3> QED
      BY <3>1, <3>2, <3>3, <3>4, FieldIs
  <2>2. reversed = file[Elements[o].reverse]
    BY <1>5, <2>1, Reversal DEF ReversedBy
  <2>3. AbsAgrees(o) /\ OfAKind(o) /\ Formed(o)
    BY FileIs, Kinds, AllFormed
  <2>4. Told(pad, o).abs = code /\ code # NoCode
    BY <1>5, <2>3 DEF AbsAgrees
  <2>5. /\ Calibrated(p) /\ pad.rest[code] \in p.min .. p.max
        /\ to \in {p.min, p.max} /\ Told(pad, o).to \in {p.min, p.max}
    <3>1. \A m \in Step : Told(pad, m).abs # NoCode =>
            /\ Told(pad, m).abs \in DOMAIN pad.parms
            /\ Told(pad, m).to \in {pad.parms[Told(pad, m).abs].min, pad.parms[Told(pad, m).abs].max}
      BY <1>2, Fields DEF Gamepad, Told
    <3> QED
      BY <1>2, <2>4, <3>1 DEF Gamepad
  <2>6. o # n => to # Told(pad, o).to /\ Elements[o].abs \in Hats
    <3>1. ASSUME o # n PROVE to # Told(pad, o).to
      BY <1>2, <2>4, <3>1 DEF TellsApart
    <3>2. o # n => Elements[o].abs \in Hats
      BY <1>1, <1>5, <2>3 DEF OfAKind
    <3> QED
      BY <3>1, <3>2
  <2>7. Elements[o].abs \notin Triggers =>
          /\ Elements[o].reverse \in Reversible
          /\ reversed \in BOOLEAN
          /\ IF reversed THEN Low(p, Told(pad, o).to) ELSE High(p, Told(pad, o).to)
          /\ p.max - p.min > 1
    <3> SUFFICES ASSUME Elements[o].abs \notin Triggers
                 PROVE  /\ Elements[o].reverse \in Reversible
                        /\ reversed \in BOOLEAN
                        /\ IF reversed THEN Low(p, Told(pad, o).to) ELSE High(p, Told(pad, o).to)
                        /\ p.max - p.min > 1
      OBVIOUS
    <3>1. Elements[o].reverse \in Reversible
      BY <1>5, <2>3, Fields DEF OfAKind, Formed
    <3>2. reversed = reverse[Elements[o].reverse] /\ reversed \in BOOLEAN
      BY <2>2, <3>1, FileIs
    <3>3. IF reverse[Elements[o].reverse] THEN Low(p, Told(pad, o).to) ELSE High(p, Told(pad, o).to)
      BY <1>5, <2>3, <2>4, <3>1 DEF AbsAgrees
    <3>4. p.min < pad.rest[code] /\ pad.rest[code] < p.max
      BY <1>2, <2>4, <3>1 DEF Moves, Reversible
    <3>5. p.max - p.min > 1
      BY <2>5, <3>4 DEF Calibrated
    <3> QED
      BY <3>1, <3>2, <3>3, <3>5
  <2>8. /\ field \in Triggers => MappedTo(ev) = <<field, Sign(ConvertByte(p, to))>>
        /\ field \in Hats => MappedTo(ev) = <<field, ConvertDirection(p, to, reversed)>>
        /\ field \notin Triggers \cup Hats => MappedTo(ev) = <<field, Sign(ConvertValue(p, to, reversed))>>
    <3>1. /\ field = FieldOf(IF ev.type = "EV_KEY" THEN KeyOrder ELSE AbsOrder, ev.code)
          /\ reversed = ReversedBy(field) /\ p = pad.parms[ev.code]
          /\ field # "" /\ ev.type = "EV_ABS" /\ ev.value = to
      BY <1>1, <1>5, <2>1
    <3> HIDE DEF field, reversed, p, code, to
    <3>2. field \in Triggers => MappedTo(ev) = <<field, Sign(ConvertByte(p, to))>>
      BY <3>1, Meaning
    <3>3. field \in Hats => MappedTo(ev) = <<field, ConvertDirection(p, to, reversed)>>
      BY <3>1, Meaning
    <3>4. field \notin Triggers \cup Hats => MappedTo(ev) = <<field, Sign(ConvertValue(p, to, reversed))>>
      BY <3>1, Meaning
    <3> QED
      BY <3>2, <3>3, <3>4
  <2>9. CASE Elements[o].abs \in Triggers
    <3>1. o = n /\ Elements[o].reverse = "ignored"
      BY <1>5, <2>3, <2>6, <2>9 DEF OfAKind, Triggers, Hats
    <3>2. to = p.max
      BY <1>2, <2>4, <3>1 DEF Moves, Reversible
    <3>3. MappedTo(ev) = <<Elements[o].abs, Sign(ConvertByte(p, to))>>
      <4> HIDE DEF field, reversed, p, code, to
      <4> QED
        BY <2>1, <2>9, <2>8
    <3>4. Sign(ConvertByte(p, to)) = 1
      BY <2>5, <3>2, TriggerAtTheEnd
    <3> QED
      BY <1>5, <3>1, <3>3, <3>4
  <2>10. CASE Elements[o].abs \in Hats
    <3>1. Elements[o].abs \notin Triggers
      BY <2>10 DEF Triggers, Hats
    <3>2. MappedTo(ev) = <<Elements[o].abs, ConvertDirection(p, to, reversed)>>
      <4> HIDE DEF field, reversed, p, code, to
      <4> QED
        BY <2>1, <2>10, <3>1, <2>8
    <3>3. ConvertDirection(p, to, reversed) = IF o = n THEN 1 ELSE -1
      <4> HIDE DEF reversed, p
      <4>1. o = n => to = Told(pad, o).to
        OBVIOUS
      <4> HIDE DEF to
      <4> QED
        BY <2>5, <2>6, <2>7, <3>1, <4>1, AtTheEnd
    <3> QED
      BY <1>5, <3>2, <3>3
  <2>11. CASE Elements[o].abs \notin Triggers \cup Hats
    <3>1. o = n /\ to = Told(pad, o).to
      BY <2>6, <2>11
    <3>2. MappedTo(ev) = <<Elements[o].abs, Sign(ConvertValue(p, to, reversed))>>
      <4> HIDE DEF field, reversed, p, code, to
      <4> QED
        BY <2>1, <2>11, <2>8
    <3>3. Sign(ConvertValue(p, to, reversed)) = 1
      <4> HIDE DEF reversed, p, to
      <4> QED
        BY <2>5, <2>7, <2>11, <3>1, AtTheEnd
    <3> QED
      BY <1>5, <3>1, <3>2, <3>3
  <2> QED
    BY <2>9, <2>10, <2>11
<1> QED
  BY <1>4, <1>5

LEMMA Unlike == \A n \in Step : {Elements[n].key, Elements[n].abs} \cap {"keyboard", "mouse"} = {}
<1>1. Place("keyboard") = 0 /\ Place("mouse") = 0
  BY DEF Place
<1>2. \A n \in Step : n # 0
  BY Steps
<1> SUFFICES ASSUME NEW n \in Step, NEW s \in {Elements[n].key, Elements[n].abs}, s # ""
             PROVE  s # "keyboard" /\ s # "mouse"
  OBVIOUS
<1>3. Place(s) = n
  BY AllPlaced DEF Placed
<1> QED
  BY <1>1, <1>2, <1>3

Others == {<<"keyboard", 1>>, <<"mouse", 1>>}
LEMMA MeansWhat ==
    ASSUME NEW ev
    PROVE  MeaningOf(ev) \in IF Diverted(ev) THEN Others ELSE {MappedTo(ev)}
BY DEF MeaningOf, Others

LEMMA SavedWorks == Inv => LoadedPadWorks
<1> SUFFICES ASSUME Inv, SavedWell, NEW n \in Step
             PROVE  LET e == Elements[n]
                        o == Opposite(n)
                        hat == o # n /\ file[Elements[o].abs] # NoCode
                        worked == {<<e.key, 1>>} \cup IF hat THEN {<<Elements[o].abs, -1>>} ELSE {<<e.abs, 1>>}
                        usurped == /\ ~hat /\ e.key # "" /\ file[e.key] \in KeyboardCodes \cup MouseButtons
                                   /\ e.abs # "" => file[e.abs] = NoCode
                        meanings == {MeaningOf(ev) : ev \in Events(n)}
                    IN /\ meanings \subseteq worked \cup {Nothing, <<"keyboard", 1>>, <<"mouse", 1>>}
                       /\ Elements[o].what \in sure /\ (hat \/ e.what \in sure) =>
                            (meanings \cap worked = {} <=> usurped)
  BY DEF LoadedPadWorks, SavedWell
<1> DEFINE o == Opposite(n)
           hat == o # n /\ file[Elements[o].abs] # NoCode
           worked == {<<Elements[n].key, 1>>}
                       \cup IF hat THEN {<<Elements[o].abs, -1>>} ELSE {<<Elements[n].abs, 1>>}
           taken == Elements[n].key # "" /\ file[Elements[n].key] \in KeyboardCodes \cup MouseButtons
           usurped == ~hat /\ taken /\ (Elements[n].abs # "" => file[Elements[n].abs] = NoCode)
           meanings == {MeaningOf(ev) : ev \in Events(n)}
           key == [type |-> "EV_KEY", code |-> Told(pad, n).key, value |-> 1]
           axis == [type |-> "EV_ABS", code |-> Told(pad, n).abs, value |-> Told(pad, n).to]
           diverted == Told(pad, n).key \in KeyboardCodes \cup MouseButtons
           byKey == Told(pad, n).key # NoCode /\ Elements[n].key # "" /\ map[Elements[n].key] = Told(pad, n).key
           byAxis == Told(pad, n).abs # NoCode /\ Elements[o].abs # "" /\ map[Elements[o].abs] = Told(pad, n).abs
<1>1. /\ \A ev \in Events(n) : \/ ev = key /\ Told(pad, n).key # NoCode
                               \/ ev = axis /\ Told(pad, n).abs # NoCode
      /\ Told(pad, n).key # NoCode => key \in Events(n)
      /\ Told(pad, n).abs # NoCode => axis \in Events(n)
  BY DEF Events, Told
<1>2. o \in Step /\ ((o = n /\ n \notin {8, 10}) \/ (o # n /\ n \in {8, 10}))
  BY Opposites
<1>3. Told(pad, n).key # NoCode =>
        MeaningOf(key) \in IF diverted THEN Others
                           ELSE {IF byKey THEN <<Elements[n].key, 1>> ELSE Nothing}
  <2> SUFFICES ASSUME Told(pad, n).key # NoCode
               PROVE  MeaningOf(key) \in IF diverted THEN Others
                                         ELSE {IF byKey THEN <<Elements[n].key, 1>> ELSE Nothing}
    OBVIOUS
  <2>1. MappedTo(key) = IF byKey THEN <<Elements[n].key, 1>> ELSE Nothing
    BY KeyMeans
  <2>2. Diverted(key) <=> diverted
    BY DEF Diverted
  <2>3. MeaningOf(key) \in IF Diverted(key) THEN Others ELSE {MappedTo(key)}
    BY MeansWhat
  <2> HIDE DEF key, diverted, byKey
  <2> QED
    BY <2>1, <2>2, <2>3
<1>4. Told(pad, n).abs # NoCode =>
        MeaningOf(axis) = IF byAxis THEN <<Elements[o].abs, IF o = n THEN 1 ELSE -1>> ELSE Nothing
  <2> SUFFICES ASSUME Told(pad, n).abs # NoCode
               PROVE  MeaningOf(axis) = IF byAxis THEN <<Elements[o].abs, IF o = n THEN 1 ELSE -1>> ELSE Nothing
    OBVIOUS
  <2>1. MappedTo(axis) = IF byAxis THEN <<Elements[o].abs, IF o = n THEN 1 ELSE -1>> ELSE Nothing
    BY <1>2, AxisMeans
  <2>2. ~Diverted(axis)
    BY DEF Diverted
  <2>3. MeaningOf(axis) \in IF Diverted(axis) THEN Others ELSE {MappedTo(axis)}
    BY MeansWhat
  <2> HIDE DEF axis, byAxis
  <2> QED
    BY <2>1, <2>2, <2>3
<1>5. byAxis /\ o # n => hat
  BY <1>2, FileIs
<1>6. hat => byAxis
  <2> SUFFICES ASSUME hat PROVE byAxis
    OBVIOUS
  <2>1. n \in {8, 10} /\ o # n
    BY <1>2
  <2>2. Elements[o].abs # ""
    <3>1. Elements[7].abs # "" /\ Elements[9].abs # ""
      BY DEF Elements
    <3>2. o = 7 \/ o = 9
      BY <2>1 DEF Opposite
    <3> QED
      BY <3>1, <3>2
  <2>3. map[Elements[o].abs] # NoCode /\ map[Elements[o].abs] = Told(pad, o).abs
    BY <1>2, <2>2, FileIs DEF AbsAgrees
  <2>4. Told(pad, n).abs = Told(pad, o).abs
    BY <2>3, PadIs DEF TellsApart, Inv
  <2> QED
    BY <2>2, <2>3, <2>4
<1>7. Elements[n].what \in sure => byKey \/ (o = n /\ byAxis)
  <2> SUFFICES ASSUME Elements[n].what \in sure PROVE byKey \/ (o = n /\ byAxis)
    OBVIOUS
  <2>1. Filled(n)
    BY FileIs
  <2>2. Elements[n].abs # "" => o = n
    BY <1>2, Kinds DEF OfAKind
  <2> QED
    BY <2>1, <2>2 DEF Filled
(* What was saved for the element is the key of the answer, or its axis.   *)
<1>11. byKey => (taken <=> diverted)
  <2>1. byKey => file[Elements[n].key] = map[Elements[n].key]
    BY FileIs
  <2> QED
    BY <2>1
<1>12. o = n /\ byAxis => Elements[n].abs # "" /\ file[Elements[n].abs] # NoCode
  BY FileIs
<1>13. Elements[n].abs # "" /\ file[Elements[n].abs] # NoCode => o = n /\ byAxis
  <2>1. Elements[n].abs # "" /\ file[Elements[n].abs] # NoCode =>
          map[Elements[n].abs] # NoCode /\ map[Elements[n].abs] = Told(pad, n).abs
    BY FileIs DEF AbsAgrees
  <2>2. Elements[n].abs # "" => o = n
    BY <1>2, Kinds DEF OfAKind
  <2> QED
    BY <2>1, <2>2
<1>14. {Elements[n].key, Elements[n].abs, Elements[o].abs} \cap {"keyboard", "mouse"} = {}
  BY <1>2, Unlike
<1> HIDE DEF key, axis, byKey, byAxis, taken, diverted
<1>8. byKey /\ ~diverted => <<Elements[n].key, 1>> \in meanings \cap worked
  <2>1. byKey => Told(pad, n).key # NoCode
    BY DEF byKey
  <2> QED
    BY <1>1, <1>3, <2>1
<1>9. byAxis => <<Elements[o].abs, IF o = n THEN 1 ELSE -1>> \in meanings \cap worked
  <2>1. byAxis => Told(pad, n).abs # NoCode
    BY DEF byAxis
  <2> QED
    BY <1>1, <1>4, <1>5, <2>1
<1>10. meanings \subseteq worked \cup {Nothing} \cup Others
  <2> SUFFICES ASSUME NEW ev \in Events(n) PROVE MeaningOf(ev) \in worked \cup {Nothing} \cup Others
    OBVIOUS
  <2>1. CASE ev = key /\ Told(pad, n).key # NoCode
    BY <1>3, <1>8, <2>1
  <2>2. CASE ev = axis /\ Told(pad, n).abs # NoCode
    BY <1>4, <1>9, <2>2
  <2> QED
    BY <1>1, <2>1, <2>2
<1>15. ASSUME diverted, ~byAxis
       PROVE  meanings \cap worked = {}
  <2>1. \A ev \in Events(n) : MeaningOf(ev) \in {Nothing} \cup Others
    BY <1>1, <1>3, <1>4, <1>15
  <2>2. worked \cap ({Nothing} \cup Others) = {}
    <3>1. worked \subseteq {<<Elements[n].key, 1>>, <<Elements[o].abs, -1>>, <<Elements[n].abs, 1>>}
      OBVIOUS
    <3>2. PICK k, a, b : k = Elements[n].key /\ a = Elements[o].abs /\ b = Elements[n].abs
      OBVIOUS
    <3>3. {k, a, b} \cap {"keyboard", "mouse"} = {}
      BY <1>14, <3>2
    <3>4. {<<k, 1>>, <<a, -1>>, <<b, 1>>} \cap {<<"", 0>>, <<"keyboard", 1>>, <<"mouse", 1>>} = {}
      BY <3>3
    <3>5. {Nothing} \cup Others = {<<"", 0>>, <<"keyboard", 1>>, <<"mouse", 1>>}
      BY DEF Nothing, Others
    <3> HIDE DEF worked
    <3> QED
      BY <3>1, <3>2, <3>4, <3>5
  <2> QED
    BY <2>1, <2>2
<1>16. ASSUME Elements[o].what \in sure, hat \/ Elements[n].what \in sure
       PROVE  meanings \cap worked = {} <=> usurped
  <2>1. CASE byAxis
    <3>1. ~usurped
      BY <1>5, <1>12, <2>1
    <3> QED
      BY <1>9, <2>1, <3>1
  <2>2. CASE ~byAxis
    <3>1. ~hat /\ byKey
      BY <1>6, <1>7, <1>16, <2>2
    <3>2. usurped <=> diverted
      BY <1>11, <1>13, <2>2, <3>1
    <3> QED
      BY <1>8, <1>15, <2>2, <3>1, <3>2
  <2> QED
    BY <2>1, <2>2
<1> QED
  BY <1>10, <1>16 DEF Others, taken

(* With the file that was saved loaded, if nothing was held or reported    *)
(* meanwhile that could be taken for an answer, every element works in the *)
(* direction it was asked for, and nothing else does what it does; but for *)
(* those, and no others, that only a key was saved for which is the        *)
(* keyboard's or the mouse's.                                              *)
THEOREM LoadedPadDoesWork == Spec => []LoadedPadWorks
BY SavedWorks, Invariance, PTL

==============================================================================
