------------------------------- MODULE MapWizard -------------------------------
(***************************************************************************)
(* The making of a mapping file and its use: evdev_map of                  *)
(* src/src/input/evdev.c asks for one element of a gamepad after another,  *)
(* and for each of them lets loop_main run until                           *)
(* evdev_handle_mapping_event has its answer or a signal comes, sleeps a   *)
(* quarter of a second and drops what was reported meanwhile.  What the    *)
(* file then makes of an event is the order of comparisons in              *)
(* evdev_handle_event, which come after those for keyboards and mice.      *)
(***************************************************************************)
EXTENDS AxisConvert, Sequences, SequencesExt

CONSTANTS
    Pads,           \* the gamepads that are tried, by a name
    KeyboardCodes,  \* the codes of keys that keyCodes has an entry for
    MaxQueue,       \* bound: events not yet read
    MaxOdd          \* bound: signals, reports of an axis at rest, and elements
                    \* asked for while something is held

(* The elements in the order of evdev_map, with what of struct mapping is  *)
(* filled in; "" stands for a pointer that is NULL.                        *)
Elements ==
    <<[what |-> "Left Stick Right", key |-> "", abs |-> "abs_x", reverse |-> "reverse_x"],
      [what |-> "Left Stick Up", key |-> "", abs |-> "abs_y", reverse |-> "reverse_y"],
      [what |-> "Left Stick Button", key |-> "btn_thumbl", abs |-> "", reverse |-> ""],
      [what |-> "Right Stick Right", key |-> "", abs |-> "abs_rx", reverse |-> "reverse_rx"],
      [what |-> "Right Stick Up", key |-> "", abs |-> "abs_ry", reverse |-> "reverse_ry"],
      [what |-> "Right Stick Button", key |-> "btn_thumbr", abs |-> "", reverse |-> ""],
      [what |-> "D-Pad Right", key |-> "btn_dpad_right", abs |-> "abs_dpad_x", reverse |-> "reverse_dpad_x"],
      [what |-> "D-Pad Left", key |-> "btn_dpad_left", abs |-> "", reverse |-> ""],
      [what |-> "D-Pad Down", key |-> "btn_dpad_down", abs |-> "abs_dpad_y", reverse |-> "reverse_dpad_y"],
      [what |-> "D-Pad Up", key |-> "btn_dpad_up", abs |-> "", reverse |-> ""],
      [what |-> "Button X (1)", key |-> "btn_west", abs |-> "", reverse |-> ""],
      [what |-> "Button A (2)", key |-> "btn_south", abs |-> "", reverse |-> ""],
      [what |-> "Button B (3)", key |-> "btn_east", abs |-> "", reverse |-> ""],
      [what |-> "Button Y (4)", key |-> "btn_north", abs |-> "", reverse |-> ""],
      [what |-> "Back Button", key |-> "btn_select", abs |-> "", reverse |-> ""],
      [what |-> "Start Button", key |-> "btn_start", abs |-> "", reverse |-> ""],
      [what |-> "Special Button", key |-> "btn_mode", abs |-> "", reverse |-> ""],
      [what |-> "Left Trigger", key |-> "btn_tl2", abs |-> "abs_z", reverse |-> "ignored"],
      [what |-> "Right Trigger", key |-> "btn_tr2", abs |-> "abs_rz", reverse |-> "ignored"],
      [what |-> "Left Bumper", key |-> "btn_tl", abs |-> "", reverse |-> ""],
      [what |-> "Right Bumper", key |-> "btn_tr", abs |-> "", reverse |-> ""]>>
Step == DOMAIN Elements
What == {Elements[n].what : n \in Step}
CodeField == ({Elements[n].key : n \in Step} \cup {Elements[n].abs : n \in Step}) \ {""}
ReverseField == {Elements[n].reverse : n \in Step} \ {""}
Reversible == ReverseField \ {"ignored"}

NoCode == "-1"

(* The tests of evdev_handle_mapping_event on an axis.                     *)
High(p, v) == v > p.avg + CDiv(p.range, 2)
Low(p, v) == v < p.avg - CDiv(p.range, 2)

(* A gamepad: the calibration of its axes, where each of them rests, and   *)
(* what answers an element: a key, an axis moved to an end, or both.       *)
Calibrated(p) ==
    /\ p.min \in Int /\ p.max \in Int /\ p.flat \in Nat
    /\ p = InitParms(p.min, p.max, p.flat)
    /\ p.min < p.max /\ StickSpan(p) > 0

Gamepad(g) ==
    /\ NoCode \notin DOMAIN g.parms
    /\ \A a \in DOMAIN g.parms : Calibrated(g.parms[a]) /\ g.rest[a] \in g.parms[a].min .. g.parms[a].max
    /\ \A w \in What :
         LET a == g.answer[w]
         IN a.to \in Int /\ (a.abs # NoCode => /\ a.abs \in DOMAIN g.parms
                                               /\ a.to \in {g.parms[a.abs].min, g.parms[a.abs].max})

(* No two elements have the same answer, but for the two directions of an  *)
(* axis for the d-pad, whose elements are 7 to 10.                         *)
Opposite(n) == IF n \in {8, 10} THEN n - 1 ELSE n

Told(g, n) == g.answer[Elements[n].what]
TellsApart(g) ==
    /\ \A m, n \in Step : Told(g, m).key = Told(g, n).key /\ Told(g, n).key # NoCode => m = n
    /\ \A m, n \in Step :
         Told(g, m).abs = Told(g, n).abs /\ Told(g, n).abs # NoCode /\ m # n =>
           Opposite(m) = Opposite(n) /\ Told(g, m).to # Told(g, n).to
    /\ \A n \in Step : Told(g, Opposite(n)).abs # NoCode => Told(g, n).abs = Told(g, Opposite(n)).abs

(* A trigger is moved to its maximum; a stick or d-pad rests between its   *)
(* ends, where the wizard does not take it for moved.                      *)
Moves(g, n) ==
    LET a == Told(g, n) p == g.parms[a.abs] r == g.rest[a.abs]
    IN a.abs # NoCode =>
         CASE Elements[n].reverse = "ignored" -> a.to = p.max
           [] Elements[n].reverse \in Reversible ->
                p.min < r /\ r < p.max /\ ~High(p, r) /\ ~Low(p, r)
           [] OTHER -> TRUE

ASSUME PadsAssumption ==
    /\ MaxQueue \in Nat /\ MaxOdd \in Nat
    /\ \A k \in DOMAIN Pads : /\ DOMAIN Pads[k].answer = What
                              /\ Pads[k].rest \in [DOMAIN Pads[k].parms -> Int]
                              /\ Gamepad(Pads[k]) /\ TellsApart(Pads[k])
                              /\ \A n \in Step : Moves(Pads[k], n)

VARIABLES
    kind,                   \* the name of the gamepad
    value, held,            \* of its axes; its keys that are down
    queue,                  \* events that libevdev has yet to give
    pc, step,
    map, reverse,           \* struct mapping of evdev_map
    file,                   \* what mapping_save wrote
    signal,                 \* one is pending
    odd,                    \* counts for MaxOdd
    fresh, noisy,           \* history: nothing was held when the element was asked
                            \* for; an axis at rest has been reported since
    sure, spoilt            \* history: elements answered, and asked for, without doubt

padVars == <<value, held>>
history == <<fresh, noisy, sure, spoilt>>
vars == <<kind, value, held, queue, pc, step, map, reverse, file, signal, odd,
          fresh, noisy, sure, spoilt>>

pad == Pads[kind]
Asked == Elements[step]
Answer == pad.answer[Asked.what]
Axis == DOMAIN pad.parms
Key == {pad.answer[w].key : w \in What} \ {NoCode}
Event == [type : {"EV_KEY"}, code : Key, value : {0, 1}] \cup [type : {"EV_ABS"}, code : Axis, value : Int]
AtRest == held = {} /\ value = pad.rest

TypeOK ==
    /\ kind \in DOMAIN Pads /\ pc \in {"ask", "loop", "sleep", "drain", "saved"} /\ step \in Step
    /\ value \in [Axis -> Int] /\ held \subseteq Key
    /\ queue \in Seq(Event) /\ Len(queue) <= MaxQueue
    /\ map \in [CodeField -> Axis \cup Key \cup {NoCode}] /\ reverse \in [ReverseField -> BOOLEAN]
    /\ signal \in BOOLEAN /\ odd \in 0 .. MaxOdd
    /\ fresh \in BOOLEAN /\ noisy \in BOOLEAN
    /\ sure \subseteq What /\ spoilt \subseteq What

Init ==
    /\ kind \in DOMAIN Pads
    /\ value = pad.rest /\ held = {} /\ queue = <<>>
    /\ pc = "ask" /\ step = 1
    /\ map = [f \in CodeField |-> NoCode]
    /\ \E garbage \in BOOLEAN : reverse = [f \in ReverseField |-> garbage]
    /\ file = <<>> /\ signal = FALSE
    /\ odd = 0
    /\ fresh = TRUE /\ noisy = FALSE /\ sure = {} /\ spoilt = {}

----------------------------------------------------------------------------
(* External: the user, who answers what is asked, at any time and in steps, *)
(* and lets go of it, maybe only after the next element is asked for.      *)

Reports(ev) ==
    /\ pc # "saved" /\ Len(queue) < MaxQueue /\ queue' = Append(queue, ev)
    /\ UNCHANGED <<kind, pc, step, map, reverse, file, signal, history>>

Move(axis) ==
    /\ \E v \in {pad.parms[axis].avg, pad.rest[axis], Answer.to} :
         /\ v # value[axis]
         /\ IF pc = "loop" /\ axis = Answer.abs THEN TRUE
            ELSE Dist(v, pad.rest[axis]) < Dist(value[axis], pad.rest[axis])
         /\ value' = [value EXCEPT ![axis] = v]
         /\ Reports([type |-> "EV_ABS", code |-> axis, value |-> v])
    /\ UNCHANGED <<held, odd>>

Press(key) ==
    /\ pc = "loop" /\ key \notin held /\ held' = held \cup {key}
    /\ Reports([type |-> "EV_KEY", code |-> key, value |-> 1])
    /\ UNCHANGED <<value, odd>>

Release(key) ==
    /\ held' = held \ {key}
    /\ Reports([type |-> "EV_KEY", code |-> key, value |-> 0])
    /\ UNCHANGED <<value, odd>>

Trembles(axis) ==
    /\ odd < MaxOdd /\ odd' = odd + 1
    /\ value[axis] = pad.rest[axis]
    /\ Reports([type |-> "EV_ABS", code |-> axis, value |-> value[axis]])
    /\ UNCHANGED padVars

User ==
    \/ \E axis \in Axis : Move(axis) \/ Trembles(axis)
    \/ Answer.key # NoCode /\ Press(Answer.key)
    \/ \E key \in held : Release(key)

(* SIGINT and others are blocked from the first loop_main on.              *)
Signal ==
    /\ pc # "saved" /\ (pc = "ask" => step > 1) /\ ~signal /\ odd < MaxOdd
    /\ signal' = TRUE /\ odd' = odd + 1
    /\ UNCHANGED <<kind, padVars, queue, pc, step, map, reverse, file, history>>

----------------------------------------------------------------------------
(* evdev_map_key, evdev_map_abs, evdev_map_abskey: the part before         *)
(* loop_main.                                                              *)

Ask ==
    /\ pc = "ask" /\ pc' = "loop"
    /\ map' = [f \in CodeField |-> IF f \in {Asked.key, Asked.abs} THEN NoCode ELSE map[f]]
    /\ reverse' = IF Asked.key # "" /\ Asked.abs # "" THEN [reverse EXCEPT ![Asked.reverse] = FALSE]
                                                      ELSE reverse
    /\ UNCHANGED <<kind, padVars, queue, step, file, signal, odd, history>>

(* loop_main returns; answered tells whether the handler made it return.   *)
Returns(answered) ==
    LET keyOrAxis == Asked.key # "" /\ Asked.abs # ""
        sound == fresh /\ ~(noisy /\ (keyOrAxis \/ ~answered))
    IN /\ pc' = "sleep"
       /\ sure' = IF answered /\ sound THEN sure \cup {Asked.what} ELSE sure
       /\ spoilt' = IF sound THEN spoilt ELSE spoilt \cup {Asked.what}
       /\ UNCHANGED <<fresh, noisy>>

GoesOn(ev) ==
    /\ noisy' = (noisy \/ (ev.type = "EV_ABS" /\ ev.code # Answer.abs))
    /\ UNCHANGED <<pc, fresh, sure, spoilt>>

(* evdev_handle_mapping_event.                                             *)
MapKey(ev) ==
    /\ ev.type = "EV_KEY"
    /\ map' = IF Asked.key # "" /\ ev.value # 0 THEN [map EXCEPT ![Asked.key] = ev.code] ELSE map
    /\ IF Asked.key # "" /\ ev.value = 0 /\ ev.code = map[Asked.key] THEN Returns(TRUE) ELSE GoesOn(ev)
    /\ UNCHANGED reverse

(* Mutant: *currentReverse is only ever set, never reset.                  *)
MapAbsOnlyTrue(ev) ==
    /\ ev.type = "EV_ABS"
    /\ LET high == Asked.abs # "" /\ High(pad.parms[ev.code], ev.value)
           low == Asked.abs # "" /\ Low(pad.parms[ev.code], ev.value)
       IN /\ map' = IF high \/ low THEN [map EXCEPT ![Asked.abs] = ev.code] ELSE map
          /\ reverse' = IF low THEN [reverse EXCEPT ![Asked.reverse] = TRUE] ELSE reverse
          /\ IF Asked.abs # "" /\ ~high /\ ~low /\ ev.code = map[Asked.abs] THEN Returns(TRUE)
                                                                           ELSE GoesOn(ev)

MapAbs(ev) ==
    /\ ev.type = "EV_ABS"
    /\ LET high == Asked.abs # "" /\ High(pad.parms[ev.code], ev.value)
           low == Asked.abs # "" /\ Low(pad.parms[ev.code], ev.value)
       IN /\ map' = IF high \/ low THEN [map EXCEPT ![Asked.abs] = ev.code] ELSE map
          /\ reverse' = IF high \/ low THEN [reverse EXCEPT ![Asked.reverse] = low] ELSE reverse
          /\ IF Asked.abs # "" /\ ~high /\ ~low /\ ev.code = map[Asked.abs] THEN Returns(TRUE)
                                                                           ELSE GoesOn(ev)

(* evdev_handle, for the one device; what it leaves in the queue when the  *)
(* handler makes the loop return stays there.                              *)
EvdevHandle ==
    /\ pc = "loop" /\ queue # <<>>
    /\ MapKey(Head(queue)) \/ MapAbs(Head(queue))
    /\ queue' = Tail(queue)
    /\ UNCHANGED <<kind, padVars, step, file, signal, odd>>

LoopSigHandler ==
    /\ pc = "loop" /\ signal /\ signal' = FALSE
    /\ Returns(FALSE)
    /\ UNCHANGED <<kind, padVars, queue, step, map, reverse, file, odd>>

(* usleep: what is held now is let go of before its end, or late.          *)
Sleep ==
    /\ pc = "sleep" /\ pc' = "drain"
    /\ AtRest \/ odd < MaxOdd
    /\ odd' = IF AtRest THEN odd ELSE odd + 1
    /\ UNCHANGED <<kind, padVars, queue, step, map, reverse, file, signal, history>>

(* An axis for a d-pad: its opposite direction is not asked for.           *)
DPadDone == Asked.what \in {"D-Pad Right", "D-Pad Down"} /\ map[Asked.key] = NoCode

NextStep ==
    CASE DPadDone -> step + 2
      [] step + 1 \in Step /\ ~DPadDone -> step + 1
      [] OTHER -> step

(* Mutant: the events of the pause are left for the next element.          *)
DrainedNot == queue

Drained == <<>>

(* evdev_drain, and what follows up to the next question or to the end of  *)
(* evdev_map with mapping_save.                                            *)
Drain ==
    /\ pc = "drain"
    /\ queue' = Drained
    /\ step' = NextStep
    /\ map' = IF DPadDone THEN [map EXCEPT ![Elements[step + 1].key] = NoCode] ELSE map
    /\ IF NextStep = step
       THEN /\ pc' = "saved"
            /\ file' = [f \in CodeField \cup Reversible |->
                          IF f \in CodeField THEN map[f] ELSE reverse[f]]
       ELSE pc' = "ask" /\ UNCHANGED file
    /\ fresh' = AtRest /\ noisy' = FALSE
    /\ UNCHANGED <<kind, padVars, reverse, signal, odd, sure, spoilt>>

Next == User \/ Signal \/ Ask \/ EvdevHandle \/ LoopSigHandler \/ Sleep \/ Drain

Spec == Init /\ [][Next]_vars

----------------------------------------------------------------------------
(* evdev_handle_event with the mapping that mapping_load reads: the first  *)
(* field that has the code counts.                                         *)

KeyOrder == <<"btn_south", "btn_west", "btn_north", "btn_east", "btn_dpad_up", "btn_dpad_down",
              "btn_dpad_right", "btn_dpad_left", "btn_thumbl", "btn_thumbr", "btn_tl", "btn_tr",
              "btn_start", "btn_select", "btn_mode", "btn_tl2", "btn_tr2">>
AbsOrder == <<"abs_x", "abs_y", "abs_rx", "abs_ry", "abs_z", "abs_rz", "abs_dpad_x", "abs_dpad_y">>

ReverseOf(field) == (CHOOSE n \in Step : Elements[n].abs = field)
Nothing == <<"", 0>>

(* The field that an event of a code is taken for.                         *)
FieldOf(order, code) ==
    LET fits == {i \in DOMAIN order : file[order[i]] = code}
    IN IF fits = {} THEN "" ELSE order[CHOOSE i \in fits : \A j \in fits : i <= j]

Sign(n) == IF n > 0 THEN 1 ELSE IF n < 0 THEN -1 ELSE 0

(* What it does to the controller: which part, and in which direction.     *)
MappedTo(ev) ==
    LET field == FieldOf(IF ev.type = "EV_KEY" THEN KeyOrder ELSE AbsOrder, ev.code)
        reversed == file[Elements[ReverseOf(field)].reverse]
        parms == pad.parms[ev.code]
    IN CASE field = "" -> Nothing
         [] field # "" /\ ev.type = "EV_KEY" -> <<field, 1>>
         [] ev.type = "EV_ABS" /\ field \in {"abs_z", "abs_rz"} ->
              <<field, Sign(ConvertByte(parms, ev.value))>>
         [] ev.type = "EV_ABS" /\ field \in {"abs_dpad_x", "abs_dpad_y"} ->
              <<field, ConvertDirection(parms, ev.value, reversed)>>
         [] OTHER -> <<field, Sign(ConvertValue(parms, ev.value, reversed))>>

MouseButtons == {"BTN_LEFT", "BTN_MIDDLE", "BTN_RIGHT"}
Diverted(ev) == ev.type = "EV_KEY" /\ ev.code \in KeyboardCodes \cup MouseButtons

(* A key that a keyboard or a mouse may have is never one of a gamepad.    *)
MeaningOf(ev) ==
    CASE Diverted(ev) /\ ev.code \in KeyboardCodes -> <<"keyboard", 1>>
      [] Diverted(ev) /\ ev.code \notin KeyboardCodes -> <<"mouse", 1>>
      [] OTHER -> MappedTo(ev)

(* The event that is the answer to an element, at its furthest.            *)
Events(n) ==
    LET a == pad.answer[Elements[n].what]
    IN {[type |-> "EV_KEY", code |-> a.key, value |-> 1] : k \in {a.key} \ {NoCode}}
       \cup {[type |-> "EV_ABS", code |-> a.abs, value |-> a.to] : k \in {a.abs} \ {NoCode}}

----------------------------------------------------------------------------
(* Properties.                                                             *)

(* An element that was asked for when nothing was held is filled in with   *)
(* what the user moved for it, whatever an axis at rest reports meanwhile  *)
(* (but where a key or an axis may be the answer) and however much of the  *)
(* movement before it came in the pause.                                   *)
AnswersKept ==
    \A n \in Step :
      LET e == Elements[n] a == pad.answer[e.what]
      IN e.what \in sure =>
           /\ e.key # "" => map[e.key] \in {a.key, NoCode}
           /\ e.abs # "" => map[e.abs] \in {a.abs, NoCode}
           /\ \/ e.key # "" /\ a.key # NoCode /\ map[e.key] = a.key
              \/ e.abs # "" /\ a.abs # NoCode /\ map[e.abs] = a.abs

(* With the file loaded, every element works as it was answered and in the *)
(* direction it was asked for, the directions of a d-pad that were not     *)
(* asked for included; one passed over by a signal does nothing, or works. *)
(* But evdev_handle_mapping_event takes any key for an answer: an element  *)
(* that only a key of a keyboard or a mouse was saved for does not work    *)
(* (evdev.c:164-207), and no other answer is without effect.               *)
LoadedPadWorks ==
    (pc = "saved" /\ spoilt = {}) =>
      \A n \in Step :
        LET e == Elements[n]
            o == Opposite(n)
            hat == o # n /\ file[Elements[o].abs] # NoCode
            worked == {<<e.key, 1>>} \cup IF hat THEN {<<Elements[o].abs, -1>>} ELSE {<<e.abs, 1>>}
            usurped == /\ ~hat /\ e.key # "" /\ file[e.key] \in KeyboardCodes \cup MouseButtons
                       /\ e.abs # "" => file[e.abs] = NoCode
            meanings == {MeaningOf(ev) : ev \in Events(n)}
        IN /\ meanings \subseteq worked \cup {Nothing, <<"keyboard", 1>>, <<"mouse", 1>>}
           /\ Elements[o].what \in sure /\ (hat \/ e.what \in sure) =>
                (meanings \cap worked = {} <=> usurped)
==============================================================================
