--------------------------- MODULE EvdevEventsProofs ---------------------------
(***************************************************************************)
(* Proofs about EvdevEvents for any keys, buttons, axes, devices, lengths  *)
(* of frames and of the kernel's buffer: a device whose frames were all    *)
(* read is shown as it is by the host.                                     *)
(***************************************************************************)
EXTENDS EvdevAxes, TLAPS

(* No order of reports makes a difference to the types.                    *)
LEMMA ByteType ==
    ASSUME NEW p \in InputAbsParms, p.flat < p.diff, NEW v \in Int
    PROVE  ConvertByte(p, v) \in 0 .. UCHAR_MAX
<1> DEFINE n == (v - p.flat - p.min) * UCHAR_MAX
           d == p.diff - p.flat
<1>1. n \in Int /\ d \in Nat \ {0}
  BY DEF InputAbsParms, UCHAR_MAX
<1> HIDE DEF n, d
<1>2. CDiv(n, d) \in Int
  BY <1>1 DEF CDiv
<1>3. CDiv(n, d) % 256 \in 0 .. UCHAR_MAX
  BY <1>2 DEF UCHAR_MAX
<1> QED
  BY <1>3 DEF ConvertByte, UCHAR_MAX, n, d

LEMMA PressedType ==
    ASSUME NEW S, NEW set \in SUBSET S, NEW x \in S, NEW value
    PROVE  Pressed(set, x, value) \in SUBSET S
BY DEF Pressed

LEMMA WithHatType ==
    ASSUME NEW flags \in SUBSET (Button \cup Hat), NEW dir
    PROVE  WithHat(flags, dir) \in SUBSET (Button \cup Hat)
BY DEF WithHat, HatFlags, Hat

LEMMA EventType ==
    /\ Syn \in Event
    /\ \A k \in Key, v \in 0 .. 2 : Ev("key", k, v) \in Event
    /\ \A b \in MouseButton, v \in 0 .. 1 : Ev("mouse", b, v) \in Event
    /\ \A b \in Button \cup {"tl2", "unmapped"}, v \in 0 .. 1 : Ev("btn", b, v) \in Event
    /\ \A a \in PointerAxis, v \in {-1, 1} : Ev("rel", a, v) \in Event
    /\ \A v \in ZValues : Ev("abs", "z", v) \in Event
    /\ \A v \in HatValues : Ev("abs", "hat", v) \in Event
    /\ Ev("abs", "unmapped", 0) \in Event
BY DEF Event, Syn

LEMMA ZType == \A v \in ZValues : ConvertByte(ZParms, v) \in 0 .. UCHAR_MAX
BY ByteType, EventsAssumption DEF ZValues

LEMMA InitType == Init => TypeOK
<1> SUFFICES ASSUME Init PROVE TypeOK
  OBVIOUS
<1>1. lost \in BOOLEAN /\ gamepadModified \in BOOLEAN /\ quit \in BOOLEAN
  BY Zenon DEF Init
<1>2. frame \in Seq(Event) /\ queue \in Seq(Event \cup Dropped)
  BY DEF Init
<1> QED
  BY <1>1, <1>2 DEF Init, TypeOK, UCHAR_MAX

LEMMA DeviceType == TypeOK /\ Device /\ UNCHANGED kind => TypeOK'
<1> SUFFICES ASSUME TypeOK, Device, UNCHANGED kind PROVE TypeOK'
  OBVIOUS
<1>1. kind \in Kind
  BY EventsAssumption DEF TypeOK
<1>2. ASSUME NEW ev \in Event, Reports(ev)
      PROVE  /\ frame' \in Seq(Event)
             /\ UNCHANGED <<queue, lost, modifiers, buttonFlags, leftTrigger, delta,
                   gamepadModified, hostKeys, hostMouse, hostPad, hostPointer,
                   quit, keysRead>>
  BY <1>2 DEF Reports, TypeOK
<1>3. CASE \E k \in kind.keys : ReportKey(k)
  <2>1. PICK k \in kind.keys : ReportKey(k)
    BY <1>3
  <2>2. k \in Key
    BY <1>1 DEF Kind
  <2>3. PICK v \in 0 .. 2 : keyDown' \in SUBSET Key /\ Reports(Ev("key", k, v))
    BY <2>1, <2>2 DEF ReportKey, TypeOK
  <2> QED
    BY <1>2, <2>1, <2>2, <2>3, EventType DEF ReportKey, TypeOK, hostPad
<1>4. CASE \E b \in kind.mouse : ReportMouse(b)
  <2>1. PICK b \in kind.mouse : ReportMouse(b)
    BY <1>4
  <2>2. b \in MouseButton
    BY <1>1 DEF Kind
  <2>3. PICK v \in 0 .. 1 : mouseDown' = Pressed(mouseDown, b, v) /\ Reports(Ev("mouse", b, v))
    BY <2>1 DEF ReportMouse
  <2>4. mouseDown' \in SUBSET MouseButton
    BY <2>2, <2>3, PressedType DEF TypeOK
  <2> QED
    BY <1>2, <2>1, <2>2, <2>3, <2>4, EventType DEF ReportMouse, TypeOK, hostPad
<1>5. CASE \E b \in kind.buttons : ReportButton(b)
  <2>1. PICK b \in kind.buttons : ReportButton(b)
    BY <1>5
  <2>2. b \in Button
    BY <1>1 DEF Kind
  <2>3. PICK v \in 0 .. 1 : padDown' = Pressed(padDown, b, v) /\ Reports(Ev("btn", b, v))
    BY <2>1 DEF ReportButton
  <2>4. padDown' \in SUBSET (Button \cup Hat)
    BY <2>2, <2>3 DEF TypeOK, Pressed
  <2> QED
    BY <1>2, <2>1, <2>2, <2>3, <2>4, EventType DEF ReportButton, TypeOK, hostPad
<1>6. CASE ReportTrigger
  <2>1. PICK ev \in Event : Reports(ev) /\ trigger' \in 0 .. UCHAR_MAX
    BY <1>6, EventType, ZType DEF ReportTrigger, UCHAR_MAX
  <2> QED
    BY <1>2, <1>6, <2>1 DEF ReportTrigger, TypeOK, hostPad
<1>7. CASE ReportHat
  <2>1. PICK v \in HatValues :
          /\ padDown' = WithHat(padDown, ConvertDirection(HatParms, v, FALSE))
          /\ Reports(Ev("abs", "hat", v))
    BY <1>7 DEF ReportHat, WithHat
  <2>2. padDown' \in SUBSET (Button \cup Hat)
    BY <2>1, WithHatType DEF TypeOK
  <2> QED
    BY <1>2, <1>7, <2>1, <2>2, EventType DEF ReportHat, TypeOK, hostPad
<1>8. CASE \E a \in kind.axes : ReportMove(a)
  <2>1. PICK a \in kind.axes : ReportMove(a)
    BY <1>8
  <2>2. a \in PointerAxis
    BY <1>1 DEF Kind
  <2>3. PICK v \in {-1, 1} : pointer' = [pointer EXCEPT ![a] = @ + v] /\ Reports(Ev("rel", a, v))
    BY <2>1 DEF ReportMove
  <2>4. pointer' \in [PointerAxis -> Int]
    BY <2>2, <2>3 DEF TypeOK
  <2> QED
    BY <1>2, <2>1, <2>2, <2>3, <2>4, EventType DEF ReportMove, TypeOK, hostPad
<1>9. CASE ReportUnmapped
  <2>1. PICK ev \in Event : Reports(ev)
    BY <1>9, EventType DEF ReportUnmapped
  <2> QED
    BY <1>2, <1>9, <2>1 DEF ReportUnmapped, TypeOK, hostPad, deviceVars
<1>10. CASE CloseFrame
  <2>0. lost' \in BOOLEAN
    BY <1>10, Zenon DEF CloseFrame, TypeOK
  <2>1. frame' \in Seq(Event)
    BY <1>10 DEF CloseFrame
  <2>2. queue' \in Seq(Event \cup Dropped)
    <3>1. Append(frame, Syn) \in Seq(Event \cup Dropped)
      BY EventType DEF TypeOK
    <3>2. <<Ev("dropped", keyDown, 0)>> \in Seq(Event \cup Dropped)
      <4>1. Ev("dropped", keyDown, 0) \in Dropped
        BY DEF Dropped, TypeOK
      <4> QED
        BY <4>1
    <3>3. queue \o Append(frame, Syn) \in Seq(Event \cup Dropped)
      BY <3>1 DEF TypeOK
    <3>4. queue' \in {queue \o Append(frame, Syn), <<Ev("dropped", keyDown, 0)>>}
      BY <1>10 DEF CloseFrame
    <3> QED
      BY <3>2, <3>3, <3>4
  <2> QED
    BY <1>10, <2>0, <2>1, <2>2 DEF CloseFrame, TypeOK, hostPad, deviceVars
<1> QED
  BY <1>3, <1>4, <1>5, <1>6, <1>7, <1>8, <1>9, <1>10 DEF Device

LEMMA HandleType == TypeOK /\ Handle /\ UNCHANGED kind => TypeOK'
<1> SUFFICES ASSUME TypeOK, Handle, UNCHANGED kind PROVE TypeOK'
  OBVIOUS
<1>1. ASSUME NEW ev, Reads(ev)
      PROVE  /\ queue' \in Seq(Event \cup Dropped) /\ ev \in Event \cup Dropped
             /\ UNCHANGED <<keyDown, mouseDown, padDown, trigger, pointer, frame, lost>>
  BY <1>1 DEF Reads, TypeOK, deviceVars
<1>2. CASE OnDropped
  <2>1. PICK ev \in Dropped : Reads(ev) /\ keysRead' = ev.code
    BY <1>2 DEF OnDropped
  <2>2. keysRead' \in SUBSET Key
    BY <2>1 DEF Dropped, Ev
  <2> QED
    BY <1>1, <1>2, <2>1, <2>2 DEF OnDropped, TypeOK, hostPad
<1>3. CASE OnSyn
  <2>1. hostPointer' \in [PointerAxis -> Int] /\ delta' \in [PointerAxis -> {-1, 0, 1}]
    <3>1. \A a \in PointerAxis : hostPointer[a] \in Int /\ delta[a] \in {-1, 0, 1}
                                 /\ hostPointer[a] + delta[a] \in Int
      BY DEF TypeOK
    <3>2. hostPointer' \in [PointerAxis -> Int]
      BY <1>3, <3>1, Zenon DEF OnSyn
    <3>3. delta' \in [PointerAxis -> {-1, 0, 1}]
      BY <1>3, <3>1, Zenon DEF OnSyn
    <3> QED
      BY <3>2, <3>3
  <2>2. /\ hostButtons' \in SUBSET (Button \cup Hat) /\ hostTrigger' \in 0 .. UCHAR_MAX
    BY <1>3 DEF OnSyn, TypeOK
  <2>3. gamepadModified' \in BOOLEAN
    BY <1>3, Zenon DEF OnSyn
  <2> QED
    BY <1>1, <1>3, <2>1, <2>2, <2>3 DEF OnSyn, TypeOK
<1>4. CASE OnKey
  <2>1. PICK k \in Key, v \in 0 .. 2 :
          /\ Reads(Ev("key", k, v))
          /\ modifiers' = NewModifiers(k, v)
          /\ keysRead' = Pressed(keysRead, k, v)
          /\ quit' = QuitChord(NewModifiers(k, v), k, v)
          /\ hostKeys' = IF quit' THEN hostKeys ELSE Pressed(hostKeys, k, v)
    BY <1>4 DEF OnKey
  <2>2. modifiers' \in SUBSET Modifier
    BY <2>1, EventsAssumption DEF NewModifiers, Pressed, TypeOK
  <2>3. keysRead' \in SUBSET Key /\ hostKeys' \in SUBSET Key
    BY <2>1, PressedType DEF TypeOK
  <2>4. quit' \in BOOLEAN
    BY <2>1, Zenon DEF QuitChord
  <2> QED
    BY <1>1, <1>4, <2>1, <2>2, <2>3, <2>4 DEF OnKey, TypeOK, hostPad
<1>5. CASE OnMouse
  <2>1. PICK b \in MouseButton, v \in 0 .. 1 :
          Reads(Ev("mouse", b, v)) /\ hostMouse' = Pressed(hostMouse, b, v)
    BY <1>5 DEF OnMouse
  <2>2. hostMouse' \in SUBSET MouseButton
    BY <2>1, PressedType DEF TypeOK
  <2> QED
    BY <1>1, <1>5, <2>1, <2>2 DEF OnMouse, TypeOK, hostPad
<1>6. ASSUME NEW modified, Mark(modified) PROVE gamepadModified' \in BOOLEAN
  BY <1>6, Zenon DEF Mark
<1>7. CASE OnButton
  <2>1. PICK b \in Button \cup {"tl2", "unmapped"}, v \in 0 .. 1 :
          /\ Reads(Ev("btn", b, v)) /\ Mark(b # "unmapped")
          /\ buttonFlags' = IF b \in Button THEN Pressed(buttonFlags, b, v) ELSE buttonFlags
          /\ leftTrigger' = IF b = "tl2" THEN v * UCHAR_MAX ELSE leftTrigger
    BY <1>7 DEF OnButton
  <2>2. buttonFlags' \in SUBSET (Button \cup Hat)
    BY <2>1 DEF Pressed, TypeOK
  <2>3. leftTrigger' \in 0 .. UCHAR_MAX
    BY <2>1 DEF TypeOK, UCHAR_MAX
  <2> QED
    BY <1>1, <1>6, <1>7, <2>1, <2>2, <2>3 DEF OnButton, TypeOK, hostPad
<1>8. CASE OnRel
  <2>1. PICK a \in PointerAxis, v \in {-1, 1} :
          Reads(Ev("rel", a, v)) /\ delta' = [delta EXCEPT ![a] = v]
    BY <1>8 DEF OnRel
  <2>2. delta' \in [PointerAxis -> {-1, 0, 1}]
    BY <2>1 DEF TypeOK
  <2> QED
    BY <1>1, <1>8, <2>1, <2>2 DEF OnRel, TypeOK, hostPad
<1>9. CASE OnAbs
  <2>1. PICK ev : Reads(ev)
    BY <1>9 DEF OnAbs
  <2>2. gamepadModified' \in BOOLEAN
    BY <1>6, <1>9, Zenon DEF OnAbs
  <2>3. buttonFlags' \in SUBSET (Button \cup Hat)
    BY <1>9, WithHatType DEF OnAbs, TypeOK
  <2>4. leftTrigger' \in 0 .. UCHAR_MAX
    BY <1>9, ZType DEF OnAbs, TypeOK
  <2> QED
    BY <1>1, <1>9, <2>1, <2>2, <2>3, <2>4 DEF OnAbs, TypeOK, hostPad
<1> QED
  BY <1>2, <1>3, <1>4, <1>5, <1>7, <1>8, <1>9 DEF Handle

(* Whatever is reported and read, in whatever order, the program and the   *)
(* host keep values of their kinds; the trigger stays an unsigned char.    *)
THEOREM EventsTyped == Spec => []TypeOK
<1>1. TypeOK /\ UNCHANGED vars => TypeOK'
  BY DEF TypeOK, vars
<1>2. TypeOK /\ [Next]_vars => TypeOK'
  BY <1>1, DeviceType, HandleType DEF Next
<1> QED
  BY <1>2, InitType, PTL DEF Spec

----------------------------------------------------------------------------
(* The gamepad: between frames, the host knows what the program knows.     *)

LEMMA FlushedNext == PadFlushed /\ [Next]_vars => PadFlushed'
<1> SUFFICES ASSUME PadFlushed, [Next]_vars, ~gamepadModified'
             PROVE  hostButtons' = buttonFlags' /\ hostTrigger' = leftTrigger'
  BY DEF PadFlushed
<1>1. CASE UNCHANGED <<gamepadModified, hostPad, buttonFlags, leftTrigger>>
  BY <1>1 DEF PadFlushed, hostPad
<1>2. CASE Device
  BY <1>1, <1>2 DEF Device, ReportKey, ReportMouse, ReportButton, ReportTrigger, ReportHat,
       ReportMove, ReportUnmapped, CloseFrame, Reports
<1>3. CASE OnSyn
  BY <1>3 DEF OnSyn, PadFlushed
<1>4. CASE OnButton
  <2>1. PICK b \in Button \cup {"tl2", "unmapped"}, v \in 0 .. 1 :
          /\ Mark(b # "unmapped")
          /\ buttonFlags' = IF b \in Button THEN Pressed(buttonFlags, b, v) ELSE buttonFlags
          /\ leftTrigger' = IF b = "tl2" THEN v * UCHAR_MAX ELSE leftTrigger
    BY <1>4 DEF OnButton
  <2>2. b = "unmapped" /\ ~gamepadModified
    BY <2>1, Zenon DEF Mark
  <2>3. "unmapped" \notin Button
    BY EventsAssumption
  <2> QED
    BY <1>1, <1>4, <2>1, <2>2, <2>3 DEF OnButton, PadFlushed, hostPad
<1>5. CASE OnAbs
  <2>1. ~Mark(TRUE)
    BY Zenon DEF Mark
  <2>2. ~gamepadModified /\ UNCHANGED <<buttonFlags, leftTrigger>>
    BY <1>5, <2>1, Zenon DEF OnAbs, Mark
  <2> QED
    BY <1>5, <2>2 DEF OnAbs, PadFlushed, hostPad
<1>6. CASE OnDropped \/ OnKey \/ OnMouse \/ OnRel \/ UNCHANGED vars
  BY <1>1, <1>6 DEF OnDropped, OnKey, OnMouse, OnRel, vars, hostPad
<1> QED
  BY <1>2, <1>3, <1>4, <1>5, <1>6 DEF Next, Handle

(* dev->gamepadModified |= ...: no frame is closed with a change that the  *)
(* host was not told, for any buttons and even after events were lost.     *)
THEOREM PadIsFlushed == Spec => []PadFlushed
<1>1. Init => PadFlushed
  BY DEF Init, PadFlushed
<1> QED
  BY <1>1, FlushedNext, PTL DEF Spec

----------------------------------------------------------------------------
(* The modifiers.  As long as nothing is lost, the queue has no gap.       *)

NoGap == ~lost => queue \in Seq(Event)

LEMMA NoGapNext == TypeOK /\ NoGap /\ [Next]_vars => NoGap'
<1> SUFFICES ASSUME TypeOK, NoGap, [Next]_vars, ~lost'
             PROVE  queue' \in Seq(Event)
  BY DEF NoGap
<1>1. CASE UNCHANGED <<queue, lost>>
  BY <1>1 DEF NoGap
<1>2. CASE CloseFrame
  <2>1. UNCHANGED lost /\ queue' = queue \o Append(frame, Syn)
    BY <1>2, Zenon DEF CloseFrame
  <2>2. Append(frame, Syn) \in Seq(Event)
    BY EventType DEF TypeOK
  <2> QED
    BY <2>1, <2>2 DEF NoGap
<1>3. CASE Device /\ ~CloseFrame
  BY <1>1, <1>3 DEF Device, ReportKey, ReportMouse, ReportButton, ReportTrigger, ReportHat,
       ReportMove, ReportUnmapped, Reports
<1>4. CASE Handle
  <2>1. PICK ev : Reads(ev)
    BY <1>4 DEF Handle, OnDropped, OnSyn, OnKey, OnMouse, OnButton, OnRel, OnAbs
  <2>2. UNCHANGED lost /\ queue # <<>> /\ queue' = Tail(queue)
    BY <2>1 DEF Reads
  <2> QED
    BY <2>2 DEF NoGap
<1> QED
  BY <1>1, <1>2, <1>3, <1>4 DEF Next, vars

(* What is read is no sign of a loss.                                      *)
LEMMA NoneDropped == TypeOK /\ NoGap /\ ~lost => ~OnDropped
<1>1. \A ev \in Dropped : ev \notin Event
  BY DEF Dropped, Event, Ev, Syn
<1>2. TypeOK /\ NoGap /\ ~lost /\ queue # <<>> => Head(queue) \in Event
  BY DEF NoGap
<1> QED
  BY <1>1, <1>2 DEF OnDropped, Reads

HeldKeys(ks) == {ModOf[k] : k \in ks}

LEMMA HeldNext == TypeOK /\ NoGap /\ ModifiersHeld /\ [Next]_vars => ModifiersHeld'
<1> SUFFICES ASSUME TypeOK, NoGap, ModifiersHeld, [Next]_vars, ~lost'
             PROVE  /\ modifiers' \subseteq HeldKeys(keysRead')
                    /\ quit' => QUIT_MODIFIERS \subseteq HeldKeys(keysRead')
  BY DEF ModifiersHeld, HeldKeys
<1>1. CASE UNCHANGED <<lost, modifiers, keysRead, quit>>
  BY <1>1 DEF ModifiersHeld, HeldKeys
<1>2. CASE CloseFrame
  <2>1. UNCHANGED lost
    BY <1>2, Zenon DEF CloseFrame
  <2> QED
    BY <1>1, <1>2, <2>1 DEF CloseFrame
<1>3. CASE Device /\ ~CloseFrame
  BY <1>1, <1>3 DEF Device, ReportKey, ReportMouse, ReportButton, ReportTrigger, ReportHat,
       ReportMove, ReportUnmapped, Reports
<1>4. CASE OnKey
  <2>1. PICK k \in Key, v \in 0 .. 2 :
          /\ Reads(Ev("key", k, v))
          /\ modifiers' = NewModifiers(k, v)
          /\ keysRead' = Pressed(keysRead, k, v)
          /\ quit' = QuitChord(NewModifiers(k, v), k, v)
    BY <1>4 DEF OnKey
  <2>2. ~lost /\ modifiers \subseteq HeldKeys(keysRead)
    BY <2>1 DEF Reads, ModifiersHeld, HeldKeys
  <2>3. modifiers' \subseteq HeldKeys(keysRead')
    <3>1. SUFFICES ASSUME NEW m \in modifiers' PROVE \E j \in keysRead' : ModOf[j] = m
      BY DEF HeldKeys
    <3>2. m \in modifiers => \E j \in keysRead : ModOf[j] = m
      BY <2>2 DEF HeldKeys
    <3>3. CASE m = ModOf[k] /\ v # 0
      BY <2>1, <3>3 DEF Pressed
    <3>4. CASE ~(m = ModOf[k] /\ v # 0)
      <4>1. m \in modifiers /\ (v = 0 => m # ModOf[k] \/ ModOf[k] = "none")
        BY <2>1, <3>1, <3>4 DEF NewModifiers, Pressed
      <4>2. m # "none"
        BY <4>1 DEF TypeOK, Modifier
      <4> QED
        BY <2>1, <3>2, <4>1, <4>2 DEF Pressed
    <3> QED
      BY <3>3, <3>4
  <2>4. quit' => QUIT_MODIFIERS = modifiers'
    BY <2>1, Zenon DEF QuitChord
  <2> QED
    BY <2>3, <2>4
<1>5. CASE OnSyn \/ OnMouse \/ OnButton \/ OnRel \/ OnAbs
  BY <1>1, <1>5 DEF OnSyn, OnMouse, OnButton, OnRel, OnAbs, Reads
<1>6. CASE OnDropped
  <2>1. ~lost
    BY <1>6 DEF OnDropped, Reads
  <2> QED
    BY <1>6, <2>1, NoneDropped
<1> QED
  BY <1>1, <1>2, <1>3, <1>4, <1>5, <1>6 DEF Next, Handle, vars

LEMMA NeverGap == Spec => []NoGap
<1>1. Init => NoGap
  BY DEF Init, NoGap
<1> QED
  BY <1>1, NoGapNext, EventsTyped, PTL DEF Spec

(* As long as no event is lost, each modifier the host is told is that of  *)
(* a key that is down, and the stream ends only with one of each down,     *)
(* however many keys share a modifier.                                     *)
THEOREM ModifiersAreHeld == Spec => []ModifiersHeld
<1>1. Init => ModifiersHeld
  BY DEF Init, ModifiersHeld
<1> QED
  BY <1>1, HeldNext, NeverGap, EventsTyped, PTL DEF Spec

----------------------------------------------------------------------------
(* In step: what is still to be read takes the host, with what the program *)
(* has yet to send, to where the device is.                                *)

(* What an event makes of what is shown of a device.                       *)
After(s, ev) ==
    [keys |-> IF ev.type = "key" THEN Pressed(s.keys, ev.code, ev.value) ELSE s.keys,
     mouse |-> IF ev.type = "mouse" THEN Pressed(s.mouse, ev.code, ev.value) ELSE s.mouse,
     flags |-> CASE ev.type = "btn" /\ ev.code \in Button -> Pressed(s.flags, ev.code, ev.value)
                 [] ev.type = "abs" /\ ev.code = "hat" ->
                      WithHat(s.flags, ConvertDirection(HatParms, ev.value, FALSE))
                 [] OTHER -> s.flags,
     trigger |-> CASE ev.type = "btn" /\ ev.code = "tl2" -> ev.value * UCHAR_MAX
                   [] ev.type = "abs" /\ ev.code = "z" -> ConvertByte(ZParms, ev.value)
                   [] OTHER -> s.trigger,
     at |-> [a \in PointerAxis |-> IF ev.type = "rel" /\ ev.code = a THEN s.at[a] + ev.value
                                                                    ELSE s.at[a]]]

Told == [keys |-> hostKeys, mouse |-> hostMouse, flags |-> buttonFlags,
         trigger |-> leftTrigger, at |-> [a \in PointerAxis |-> hostPointer[a] + delta[a]]]

Shown == [keys |-> keyDown, mouse |-> mouseDown, flags |-> padDown, trigger |-> trigger,
          at |-> pointer]

(* One event after the other leads from one to the other.                  *)
Leads(from, evs, to) ==
    \E tr : /\ tr[0] = from /\ tr[Len(evs)] = to
            /\ \A i \in 1 .. Len(evs) : tr[i] = After(tr[i - 1], evs[i])

LEMMA LeadsNowhere == ASSUME NEW from, NEW to, Leads(from, <<>>, to) PROVE from = to
BY DEF Leads

LEMMA LeadsOn ==
    ASSUME NEW evs \in Seq(Event), NEW ev \in Event, NEW from, NEW to, Leads(from, evs, to)
    PROVE  Leads(from, Append(evs, ev), After(to, ev))
<1>1. PICK tr : /\ tr[0] = from /\ tr[Len(evs)] = to
                /\ \A i \in 1 .. Len(evs) : tr[i] = After(tr[i - 1], evs[i])
  BY DEF Leads
<1> DEFINE n == Len(evs)
           tr2 == [i \in 0 .. n + 1 |-> IF i = n + 1 THEN After(to, ev) ELSE tr[i]]
<1>2. /\ n \in Nat /\ Len(Append(evs, ev)) = n + 1 /\ Append(evs, ev)[n + 1] = ev
      /\ \A i \in 1 .. n : Append(evs, ev)[i] = evs[i]
  OBVIOUS
<1>3. tr2[0] = from /\ tr2[n + 1] = After(to, ev)
  BY <1>1, <1>2
<1>4. ASSUME NEW i \in 1 .. n + 1 PROVE tr2[i] = After(tr2[i - 1], Append(evs, ev)[i])
  <2>1. CASE i = n + 1
    <3>1. tr2[i] = After(to, ev) /\ tr2[i - 1] = tr[n]
      BY <1>2, <2>1
    <3> QED
      BY <1>1, <1>2, <2>1, <3>1
  <2>2. CASE i # n + 1
    <3>1. i \in 1 .. n /\ tr2[i] = tr[i] /\ tr2[i - 1] = tr[i - 1]
      BY <1>2, <2>2
    <3> QED
      BY <1>1, <1>2, <3>1
  <2> QED
    BY <2>1, <2>2
<1> HIDE DEF n, tr2
<1> QED
  BY <1>2, <1>3, <1>4 DEF Leads

LEMMA LeadsFromNext ==
    ASSUME NEW evs \in Seq(Event), evs # <<>>, NEW from, NEW to, Leads(from, evs, to)
    PROVE  Leads(After(from, Head(evs)), Tail(evs), to)
<1>1. PICK tr : /\ tr[0] = from /\ tr[Len(evs)] = to
                /\ \A i \in 1 .. Len(evs) : tr[i] = After(tr[i - 1], evs[i])
  BY DEF Leads
<1> DEFINE n == Len(evs) - 1
           tr2 == [i \in 0 .. n |-> tr[i + 1]]
<1>2. /\ n \in Nat /\ Len(Tail(evs)) = n /\ Head(evs) = evs[1]
      /\ \A i \in 1 .. n : Tail(evs)[i] = evs[i + 1]
  OBVIOUS
<1>3. tr2[0] = After(from, Head(evs)) /\ tr2[n] = to
  <2>1. 0 + 1 = 1 /\ 1 - 1 = 0 /\ 1 \in 1 .. Len(evs) /\ n + 1 = Len(evs) /\ 0 \in 0 .. n /\ n \in 0 .. n
    BY <1>2
  <2>2. tr[1] = After(tr[0], evs[1])
    BY <1>1, <2>1
  <2> QED
    BY <1>1, <1>2, <2>1, <2>2
<1>4. ASSUME NEW i \in 1 .. n PROVE tr2[i] = After(tr2[i - 1], Tail(evs)[i])
  <2>1. i \in 0 .. n /\ i - 1 \in 0 .. n /\ i + 1 \in 1 .. Len(evs) /\ (i + 1) - 1 = i /\ (i - 1) + 1 = i
    BY <1>2
  <2>2. tr[i + 1] = After(tr[i], evs[i + 1])
    BY <1>1, <2>1
  <2> QED
    BY <1>2, <2>1, <2>2
<1> QED
  BY <1>2, <1>3, <1>4 DEF Leads

(* A frame moves an axis once, so that `delta' need not add up.            *)
Unread == queue \o frame

MovesOnce ==
    \A i \in 1 .. Len(Unread) :
      Unread[i].type = "rel" =>
        /\ delta[Unread[i].code] # 0 => \E k \in 1 .. i - 1 : Unread[k] = Syn
        /\ \A j \in 1 .. i - 1 :
             Unread[j].type = "rel" /\ Unread[j].code = Unread[i].code =>
               \E k \in j .. i - 1 : Unread[k] = Syn

Whole == /\ queue # <<>> => queue[Len(queue)] = Syn
         /\ queue = <<>> => ~gamepadModified /\ \A a \in PointerAxis : delta[a] = 0

Catching == ~lost /\ ~quit => Leads(Told, Unread, Shown) /\ MovesOnce /\ Whole

LEMMA CatchingInit == Init => Catching
<1> SUFFICES ASSUME Init PROVE Catching
  OBVIOUS
<1>1. Unread = <<>> /\ Len(Unread) = 0
  BY DEF Init, Unread
<1>2. Told = Shown
  <2>1. \A a \in PointerAxis : hostPointer[a] + delta[a] = 0
    BY DEF Init
  <2>2. [a \in PointerAxis |-> hostPointer[a] + delta[a]] = pointer
    BY <2>1, Zenon DEF Init
  <2> QED
    BY <2>2 DEF Init, Told, Shown
<1>3. Leads(Told, Unread, Shown)
  <2> DEFINE tr == [i \in {0} |-> Told]
  <2>1. tr[0] = Told
    OBVIOUS
  <2> HIDE DEF tr
  <2> QED
    BY <1>1, <1>2, <2>1 DEF Leads
<1>4. MovesOnce
  BY <1>1 DEF MovesOnce
<1>5. Whole
  BY DEF Init, Whole
<1> QED
  BY <1>3, <1>4, <1>5 DEF Catching

(* The device reports: one more event, of a kind that its frame has not    *)
(* got yet, makes of it what it makes of the host.                         *)
LEMMA Reported ==
    ASSUME TypeOK, Device, ~CloseFrame, UNCHANGED kind
    PROVE  \E ev \in Event : Reports(ev) /\ ev # Syn /\ Shown' = After(Shown, ev)
<1>1. kind \in Kind
  BY EventsAssumption DEF TypeOK
<1>2. CASE \E k \in kind.keys : ReportKey(k)
  <2>1. PICK k \in kind.keys : ReportKey(k)
    BY <1>2
  <2>2. PICK v \in 0 .. 2 : keyDown' = Pressed(keyDown, k, v) /\ Reports(Ev("key", k, v))
    BY <2>1 DEF ReportKey, Pressed
  <2>3. Ev("key", k, v) \in Event /\ Ev("key", k, v) # Syn
    BY <1>1, EventType DEF Kind, Ev, Syn
  <2>4. Shown' = After(Shown, Ev("key", k, v))
    BY <2>1, <2>2 DEF ReportKey, Shown, After, Ev, TypeOK
  <2> QED
    BY <2>2, <2>3, <2>4
<1>3. CASE \E b \in kind.mouse : ReportMouse(b)
  <2>1. PICK b \in kind.mouse : ReportMouse(b)
    BY <1>3
  <2>2. PICK v \in 0 .. 1 : mouseDown' = Pressed(mouseDown, b, v) /\ Reports(Ev("mouse", b, v))
    BY <2>1 DEF ReportMouse
  <2>3. Ev("mouse", b, v) \in Event /\ Ev("mouse", b, v) # Syn
    BY <1>1, EventType DEF Kind, Ev, Syn
  <2>4. Shown' = After(Shown, Ev("mouse", b, v))
    BY <2>1, <2>2 DEF ReportMouse, Shown, After, Ev, TypeOK
  <2> QED
    BY <2>2, <2>3, <2>4
<1>4. CASE \E b \in kind.buttons : ReportButton(b)
  <2>1. PICK b \in kind.buttons : ReportButton(b)
    BY <1>4
  <2>2. PICK v \in 0 .. 1 : padDown' = Pressed(padDown, b, v) /\ Reports(Ev("btn", b, v))
    BY <2>1 DEF ReportButton
  <2>3. b \in Button /\ b # "tl2"
    BY <1>1, EventsAssumption DEF Kind
  <2>4. Ev("btn", b, v) \in Event /\ Ev("btn", b, v) # Syn
    BY <2>3, EventType DEF Ev, Syn
  <2>5. Shown' = After(Shown, Ev("btn", b, v))
    BY <2>1, <2>2, <2>3 DEF ReportButton, Shown, After, Ev, TypeOK
  <2> QED
    BY <2>2, <2>4, <2>5
<1>5. CASE ReportTrigger
  <2>1. CASE \E v \in 0 .. 1 : trigger' = v * UCHAR_MAX /\ Reports(Ev("btn", "tl2", v))
    <3>1. PICK v \in 0 .. 1 : trigger' = v * UCHAR_MAX /\ Reports(Ev("btn", "tl2", v))
      BY <2>1
    <3>2. Ev("btn", "tl2", v) \in Event /\ Ev("btn", "tl2", v) # Syn /\ "tl2" \notin Button
      BY EventType, EventsAssumption DEF Ev, Syn
    <3>3. Shown' = After(Shown, Ev("btn", "tl2", v))
      BY <1>5, <3>1, <3>2 DEF ReportTrigger, Shown, After, Ev, TypeOK
    <3> QED
      BY <3>1, <3>2, <3>3
  <2>2. CASE \E v \in ZValues : trigger' = ConvertByte(ZParms, v) /\ Reports(Ev("abs", "z", v))
    <3>1. PICK v \in ZValues : trigger' = ConvertByte(ZParms, v) /\ Reports(Ev("abs", "z", v))
      BY <2>2
    <3>2. Ev("abs", "z", v) \in Event /\ Ev("abs", "z", v) # Syn
      BY EventType DEF Ev, Syn
    <3>3. Shown' = After(Shown, Ev("abs", "z", v))
      BY <1>5, <3>1 DEF ReportTrigger, Shown, After, Ev, TypeOK
    <3> QED
      BY <3>1, <3>2, <3>3
  <2> QED
    BY <1>5, <2>1, <2>2 DEF ReportTrigger
<1>6. CASE ReportHat
  <2>1. PICK v \in HatValues :
          /\ padDown' = WithHat(padDown, ConvertDirection(HatParms, v, FALSE))
          /\ Reports(Ev("abs", "hat", v))
    BY <1>6 DEF ReportHat, WithHat
  <2>2. Ev("abs", "hat", v) \in Event /\ Ev("abs", "hat", v) # Syn
    BY <2>1, EventType DEF Ev, Syn
  <2>3. Shown' = After(Shown, Ev("abs", "hat", v))
    BY <1>6, <2>1 DEF ReportHat, Shown, After, Ev, TypeOK
  <2> QED
    BY <2>1, <2>2, <2>3
<1>7. CASE \E a \in kind.axes : ReportMove(a)
  <2>1. PICK a \in kind.axes : ReportMove(a)
    BY <1>7
  <2>2. PICK v \in {-1, 1} : pointer' = [pointer EXCEPT ![a] = @ + v] /\ Reports(Ev("rel", a, v))
    BY <2>1 DEF ReportMove
  <2>3. a \in PointerAxis /\ Ev("rel", a, v) \in Event /\ Ev("rel", a, v) # Syn
    BY <1>1, EventType DEF Kind, Ev, Syn
  <2>4. pointer' = [b \in PointerAxis |-> IF a = b THEN pointer[b] + v ELSE pointer[b]]
    BY <2>2 DEF TypeOK
  <2>5. Shown' = After(Shown, Ev("rel", a, v))
    BY <2>1, <2>4 DEF ReportMove, Shown, After, Ev
  <2> QED
    BY <2>2, <2>3, <2>5
<1>8. CASE ReportUnmapped
  <2>1. PICK ev \in {Ev("btn", "unmapped", 0), Ev("btn", "unmapped", 1), Ev("abs", "unmapped", 0)} :
          Reports(ev)
    BY <1>8 DEF ReportUnmapped
  <2>2. ev \in Event /\ ev # Syn
    <3>1. 0 \in 0 .. 1 /\ 1 \in 0 .. 1
      OBVIOUS
    <3>2. ev \in Event
      BY <2>1, <3>1, EventType
    <3> QED
      BY <2>1, <3>2 DEF Ev, Syn
  <2>3. Shown' = After(Shown, ev)
    <3>1. ev.type \in {"btn", "abs"} /\ ev.code = "unmapped"
      BY <2>1 DEF Ev
    <3>2. "unmapped" \notin Button
      BY EventsAssumption
    <3>3. After(Shown, ev) = Shown
      BY <3>1, <3>2 DEF After, Shown, TypeOK
    <3> QED
      BY <1>8, <3>3 DEF ReportUnmapped, deviceVars, Shown
  <2> QED
    BY <2>1, <2>2, <2>3
<1> QED
  BY <1>2, <1>3, <1>4, <1>5, <1>6, <1>7, <1>8 DEF Device

(* Only one event is read by a step.                                       *)
LEMMA ReadOnce == ASSUME NEW e1, NEW e2, Reads(e1), Reads(e2) PROVE e1 = e2
BY DEF Reads

(* The handler makes of an event what the device meant by it.              *)
LEMMA Handled ==
    ASSUME TypeOK, Handle, NEW ev \in Event, Reads(ev), ~quit',
           ev.type = "rel" => delta[ev.code] = 0
    PROVE  Told' = After(Told, ev)
<1>1. ASSUME UNCHANGED <<hostPointer, delta>>, ev.type # "rel"
      PROVE  Told'.at = After(Told, ev).at
  BY <1>1 DEF Told, After
<1>2. ~OnDropped
  <2>1. \A e \in Dropped : e \notin Event
    BY DEF Dropped, Event, Ev, Syn
  <2> QED
    BY <2>1 DEF OnDropped, Reads
<1>3. CASE OnSyn
  <2>1. ev = Syn
    BY <1>3 DEF OnSyn, Reads
  <2>2. \A a \in PointerAxis : hostPointer'[a] + delta'[a] = hostPointer[a] + delta[a]
    <3>1. SUFFICES ASSUME NEW a \in PointerAxis
                   PROVE  hostPointer'[a] + delta'[a] = hostPointer[a] + delta[a]
      OBVIOUS
    <3>2. hostPointer[a] \in Int /\ delta[a] \in {-1, 0, 1}
      BY DEF TypeOK
    <3>3. /\ hostPointer'[a] = IF Moved(a) THEN hostPointer[a] + delta[a] ELSE hostPointer[a]
          /\ delta'[a] = IF Moved(a) THEN 0 ELSE delta[a]
      BY <1>3, Zenon DEF OnSyn
    <3>4. CASE Moved(a)
      BY <3>2, <3>3, <3>4
    <3>5. CASE ~Moved(a)
      BY <3>3, <3>5
    <3> QED
      BY <3>4, <3>5
  <2>3. Told'.at = Told.at
    BY <2>2 DEF Told
  <2>4. After(Told, ev) = Told
    BY <2>1 DEF After, Told, Syn, Ev
  <2> QED
    BY <1>3, <2>3, <2>4 DEF OnSyn, Told
<1>4. CASE OnKey
  <2>1. PICK k \in Key, v \in 0 .. 2 :
          /\ Reads(Ev("key", k, v))
          /\ hostKeys' = IF quit' THEN hostKeys ELSE Pressed(hostKeys, k, v)
    BY <1>4 DEF OnKey
  <2>2. ev = Ev("key", k, v)
    BY <2>1, ReadOnce
  <2>3. hostKeys' = Pressed(hostKeys, k, v)
    BY <2>1
  <2> QED
    BY <1>1, <1>4, <2>2, <2>3 DEF OnKey, Told, After, Ev, hostPad
<1>5. CASE OnMouse
  <2>1. PICK b \in MouseButton, v \in 0 .. 1 :
          Reads(Ev("mouse", b, v)) /\ hostMouse' = Pressed(hostMouse, b, v)
    BY <1>5 DEF OnMouse
  <2>2. ev = Ev("mouse", b, v)
    BY <2>1, ReadOnce
  <2> QED
    BY <1>1, <1>5, <2>1, <2>2 DEF OnMouse, Told, After, Ev, hostPad
<1>6. CASE OnButton
  <2>1. PICK b \in Button \cup {"tl2", "unmapped"}, v \in 0 .. 1 :
          /\ Reads(Ev("btn", b, v))
          /\ buttonFlags' = IF b \in Button THEN Pressed(buttonFlags, b, v) ELSE buttonFlags
          /\ leftTrigger' = IF b = "tl2" THEN v * UCHAR_MAX ELSE leftTrigger
    BY <1>6 DEF OnButton
  <2>2. ev = Ev("btn", b, v)
    BY <2>1, ReadOnce
  <2> QED
    BY <1>1, <1>6, <2>1, <2>2 DEF OnButton, Told, After, Ev, hostPad
<1>7. CASE OnRel
  <2>1. PICK a \in PointerAxis, v \in {-1, 1} :
          Reads(Ev("rel", a, v)) /\ delta' = [delta EXCEPT ![a] = v]
    BY <1>7 DEF OnRel
  <2>2. ev = Ev("rel", a, v)
    BY <2>1, ReadOnce
  <2>3. delta[a] = 0
    BY <2>2 DEF Ev
  <2>4. \A b \in PointerAxis :
          hostPointer[b] + delta'[b] = IF a = b THEN hostPointer[b] + delta[b] + v
                                               ELSE hostPointer[b] + delta[b]
    BY <2>1, <2>3 DEF TypeOK
  <2>5. Told'.at = After(Told, ev).at
    BY <1>7, <2>2, <2>4 DEF OnRel, Told, After, Ev
  <2> QED
    BY <1>7, <2>2, <2>5 DEF OnRel, Told, After, Ev, hostPad
<1>8. CASE OnAbs
  <2>1. CASE \E v \in ZValues : /\ Reads(Ev("abs", "z", v))
                                /\ leftTrigger' = ConvertByte(ZParms, v)
                                /\ UNCHANGED buttonFlags
    <3>1. PICK v \in ZValues : /\ Reads(Ev("abs", "z", v))
                               /\ leftTrigger' = ConvertByte(ZParms, v)
                               /\ UNCHANGED buttonFlags
      BY <2>1
    <3>2. ev = Ev("abs", "z", v)
      BY <3>1, ReadOnce
    <3> QED
      BY <1>1, <1>8, <3>1, <3>2 DEF OnAbs, Told, After, Ev, hostPad
  <2>2. CASE \E v \in HatValues :
               /\ Reads(Ev("abs", "hat", v))
               /\ buttonFlags' = WithHat(buttonFlags, ConvertDirection(HatParms, v, FALSE))
               /\ UNCHANGED leftTrigger
    <3>1. PICK v \in HatValues :
               /\ Reads(Ev("abs", "hat", v))
               /\ buttonFlags' = WithHat(buttonFlags, ConvertDirection(HatParms, v, FALSE))
               /\ UNCHANGED leftTrigger
      BY <2>2
    <3>2. ev = Ev("abs", "hat", v)
      BY <3>1, ReadOnce
    <3> QED
      BY <1>1, <1>8, <3>1, <3>2 DEF OnAbs, Told, After, Ev, hostPad
  <2>3. CASE Reads(Ev("abs", "unmapped", 0)) /\ UNCHANGED <<buttonFlags, leftTrigger>>
    <3>1. ev = Ev("abs", "unmapped", 0)
      BY <2>3, ReadOnce
    <3> QED
      BY <1>1, <1>8, <2>3, <3>1 DEF OnAbs, Told, After, Ev, hostPad
  <2> QED
    BY <1>8, <2>1, <2>2, <2>3 DEF OnAbs
<1> QED
  BY <1>2, <1>3, <1>4, <1>5, <1>6, <1>7, <1>8 DEF Handle

----------------------------------------------------------------------------
(* The sequence of what is unread, when an event is added or taken.        *)
LEMMA UnreadType == TypeOK /\ NoGap /\ ~lost => Unread \in Seq(Event)
BY DEF TypeOK, NoGap, Unread

LEMMA UnreadGrows ==
    ASSUME TypeOK, NoGap, ~lost, NEW ev \in Event,
           \/ queue' = queue /\ frame' = Append(frame, ev)
           \/ queue' = queue \o Append(frame, ev) /\ frame' = <<>>
    PROVE  Unread' = Append(Unread, ev)
<1>1. queue \in Seq(Event) /\ frame \in Seq(Event)
  BY DEF TypeOK, NoGap
<1>2. queue \o Append(frame, ev) = Append(queue \o frame, ev)
  BY <1>1
<1>3. \A s \in Seq(Event) : s \o <<>> = s
  OBVIOUS
<1>4. queue \o Append(frame, ev) \in Seq(Event)
  BY <1>1
<1>5. CASE queue' = queue /\ frame' = Append(frame, ev)
  BY <1>2, <1>5 DEF Unread
<1>6. CASE queue' = queue \o Append(frame, ev) /\ frame' = <<>>
  <2>1. Unread' = (queue \o Append(frame, ev)) \o <<>>
    BY <1>6 DEF Unread
  <2> QED
    BY <1>2, <1>3, <1>4, <2>1 DEF Unread
<1> QED
  BY <1>5, <1>6

LEMMA UnreadShrinks ==
    ASSUME TypeOK, NoGap, ~lost, queue # <<>>, queue' = Tail(queue), UNCHANGED frame
    PROVE  Unread # <<>> /\ Unread' = Tail(Unread) /\ Head(Unread) = Head(queue)
<1>1. queue \in Seq(Event) /\ frame \in Seq(Event)
  BY DEF TypeOK, NoGap
<1> QED
  BY <1>1 DEF Unread

LEMMA OnceReported ==
    ASSUME TypeOK, NoGap, ~lost, MovesOnce, Whole, NEW ev \in Event, Reports(ev)
    PROVE  MovesOnce'
<1>1. /\ queue' = queue /\ frame' = Append(frame, ev) /\ UNCHANGED delta
      /\ \A n \in DOMAIN frame : <<frame[n].type, frame[n].code>> # <<ev.type, ev.code>>
  BY DEF Reports
<1>2. Unread' = Append(Unread, ev)
  BY <1>1, UnreadGrows
<1>3. /\ queue \in Seq(Event) /\ frame \in Seq(Event) /\ Unread \in Seq(Event)
      /\ Len(Unread) = Len(queue) + Len(frame)
      /\ \A i \in 1 .. Len(queue) : Unread[i] = queue[i]
      /\ \A i \in 1 .. Len(frame) : Unread[Len(queue) + i] = frame[i]
  BY UnreadType DEF TypeOK, NoGap, Unread
<1> DEFINE n == Len(Unread)
<1>4. /\ n \in Nat /\ Len(Unread') = n + 1 /\ Unread'[n + 1] = ev
      /\ \A i \in 1 .. n : Unread'[i] = Unread[i]
  BY <1>2, <1>3
<1>5. ASSUME queue # <<>> PROVE Len(queue) \in 1 .. n /\ Unread[Len(queue)] = Syn
  BY <1>3, <1>5 DEF Whole
<1>6. ASSUME ev.type = "rel", delta[ev.code] # 0 PROVE \E k \in 1 .. n : Unread[k] = Syn
  <2>1. ev.code \in PointerAxis
    BY <1>6 DEF Event, Ev, Syn
  <2> QED
    BY <1>5, <1>6, <2>1 DEF Whole
<1>7. ASSUME ev.type = "rel", NEW j \in 1 .. n, Unread[j].type = "rel", Unread[j].code = ev.code
      PROVE  \E k \in j .. n : Unread[k] = Syn
  <2>1. j <= Len(queue)
    <3>1. SUFFICES ASSUME j > Len(queue) PROVE FALSE
      BY <1>3
    <3>2. j - Len(queue) \in 1 .. Len(frame) /\ Len(queue) + (j - Len(queue)) = j
      BY <1>3, <3>1
    <3>3. Unread[j] = frame[j - Len(queue)] /\ j - Len(queue) \in DOMAIN frame
      BY <1>3, <3>2
    <3> QED
      BY <1>1, <1>7, <3>3
  <2>2. Unread[Len(queue)] = Syn /\ Len(queue) \in j .. n
    BY <1>3, <1>5, <2>1
  <2> QED
    BY <2>2
<1> HIDE DEF n
<1>8. SUFFICES ASSUME NEW i \in 1 .. n + 1, Unread'[i].type = "rel"
      PROVE  /\ delta[Unread'[i].code] # 0 => \E k \in 1 .. i - 1 : Unread'[k] = Syn
             /\ \A j \in 1 .. i - 1 :
                  Unread'[j].type = "rel" /\ Unread'[j].code = Unread'[i].code =>
                    \E k \in j .. i - 1 : Unread'[k] = Syn
  BY <1>1, <1>4, Syn' = Syn DEF MovesOnce
<1>9. CASE i = n + 1
  <2>1. Unread'[i] = ev /\ i - 1 = n
    BY <1>4, <1>9
  <2>2. \A k \in 1 .. n : Unread'[k] = Unread[k]
    BY <1>4
  <2>3. delta[ev.code] # 0 => \E k \in 1 .. n : Unread'[k] = Syn
    BY <1>6, <1>8, <2>1, <2>2
  <2>4. ASSUME NEW j \in 1 .. n, Unread'[j].type = "rel", Unread'[j].code = ev.code
        PROVE  \E k \in j .. n : Unread'[k] = Syn
    <3>1. PICK k \in j .. n : Unread[k] = Syn
      BY <1>7, <1>8, <2>1, <2>2, <2>4
    <3>2. k \in 1 .. n
      BY <1>4
    <3> QED
      BY <2>2, <3>1, <3>2
  <2> QED
    BY <2>1, <2>3, <2>4
<1>10. CASE i # n + 1
  <2>1. i \in 1 .. n /\ \A k \in 1 .. i : Unread'[k] = Unread[k] /\ k \in 1 .. n
    BY <1>4, <1>10
  <2>2. i \in 1 .. i /\ \A k \in 1 .. i - 1 : k \in 1 .. i
    BY <2>1, <1>4
  <2>3. \A j \in 1 .. i - 1 : \A k \in j .. i - 1 : k \in 1 .. i
    BY <2>1, <1>4
  <2> QED
    BY <1>8, <2>1, <2>2, <2>3 DEF MovesOnce, n
<1> QED
  BY <1>9, <1>10

LEMMA OnceClosed ==
    ASSUME TypeOK, NoGap, ~lost, MovesOnce, UNCHANGED delta,
           queue' = queue \o Append(frame, Syn), frame' = <<>>
    PROVE  MovesOnce'
<1>1. Unread' = Append(Unread, Syn) /\ Unread \in Seq(Event)
  BY EventType, UnreadGrows, UnreadType
<1> DEFINE n == Len(Unread)
<1>2. /\ n \in Nat /\ Len(Unread') = n + 1 /\ Unread'[n + 1] = Syn
      /\ \A i \in 1 .. n : Unread'[i] = Unread[i]
  BY <1>1
<1> HIDE DEF n
<1>3. SUFFICES ASSUME NEW i \in 1 .. n + 1, Unread'[i].type = "rel"
      PROVE  /\ delta[Unread'[i].code] # 0 => \E k \in 1 .. i - 1 : Unread'[k] = Syn
             /\ \A j \in 1 .. i - 1 :
                  Unread'[j].type = "rel" /\ Unread'[j].code = Unread'[i].code =>
                    \E k \in j .. i - 1 : Unread'[k] = Syn
  BY <1>2 DEF MovesOnce
<1>4. i # n + 1
  BY <1>2, <1>3 DEF Syn, Ev
<1>5. i \in 1 .. n /\ \A k \in 1 .. i : Unread'[k] = Unread[k] /\ k \in 1 .. n
  BY <1>2, <1>4
<1>6. i \in 1 .. i /\ \A k \in 1 .. i - 1 : k \in 1 .. i
  BY <1>2, <1>5
<1>7. \A j \in 1 .. i - 1 : \A k \in j .. i - 1 : k \in 1 .. i
  BY <1>2, <1>5
<1> QED
  BY <1>3, <1>5, <1>6, <1>7 DEF MovesOnce, n

(* What a step of the handler does to `delta', and to the pad's flag.      *)
LEMMA DeltaEffect ==
    ASSUME TypeOK, Handle, NEW ev \in Event, Reads(ev)
    PROVE  /\ ev = Syn => ~gamepadModified' /\ \A a \in PointerAxis : delta'[a] = 0
           /\ \A a \in PointerAxis : delta'[a] # 0 =>
                delta[a] # 0 \/ (ev.type = "rel" /\ ev.code = a)
<1>1. ASSUME UNCHANGED delta, ev # Syn
      PROVE  /\ ev = Syn => ~gamepadModified' /\ \A a \in PointerAxis : delta'[a] = 0
             /\ \A a \in PointerAxis : delta'[a] # 0 =>
                  delta[a] # 0 \/ (ev.type = "rel" /\ ev.code = a)
  BY <1>1
<1>2. CASE OnSyn
  <2>1. ASSUME NEW a \in PointerAxis PROVE delta'[a] = 0
    <3>1. delta'[a] = IF Moved(a) THEN 0 ELSE delta[a]
      BY <1>2, Zenon DEF OnSyn
    <3>2. ~Moved(a) => delta[a] = 0
      BY Zenon DEF Moved
    <3> QED
      BY <3>1, <3>2
  <2>2. ~gamepadModified'
    BY <1>2, Zenon DEF OnSyn
  <2> QED
    BY <2>1, <2>2
<1>3. CASE OnRel
  <2>1. PICK a \in PointerAxis, v \in {-1, 1} :
          Reads(Ev("rel", a, v)) /\ delta' = [delta EXCEPT ![a] = v]
    BY <1>3 DEF OnRel
  <2>2. ev = Ev("rel", a, v)
    BY <2>1, ReadOnce
  <2> QED
    BY <2>1, <2>2 DEF Ev, Syn, TypeOK
<1>4. CASE ~OnSyn /\ ~OnRel
  <2>1. UNCHANGED delta
    BY <1>4 DEF Handle, OnDropped, OnKey, OnMouse, OnButton, OnAbs
  <2>2. PICK e : Reads(e) /\ e.type # "syn"
    <3>1. CASE OnDropped
      BY <3>1 DEF OnDropped, Dropped, Ev
    <3>2. CASE OnKey
      <4>1. PICK k \in Key, v \in 0 .. 2 : Reads(Ev("key", k, v))
        BY <3>2 DEF OnKey
      <4> QED
        BY <4>1 DEF Ev
    <3>3. CASE OnMouse
      <4>1. PICK b \in MouseButton, v \in 0 .. 1 : Reads(Ev("mouse", b, v))
        BY <3>3 DEF OnMouse
      <4> QED
        BY <4>1 DEF Ev
    <3>4. CASE OnButton
      <4>1. PICK b \in Button \cup {"tl2", "unmapped"}, v \in 0 .. 1 : Reads(Ev("btn", b, v))
        BY <3>4 DEF OnButton
      <4> QED
        BY <4>1 DEF Ev
    <3>5. CASE OnAbs
      <4>1. PICK code \in {"z", "hat", "unmapped"}, v \in ZValues \cup HatValues \cup {0} :
              Reads(Ev("abs", code, v))
        BY <3>5 DEF OnAbs
      <4> QED
        BY <4>1 DEF Ev
    <3> QED
      BY <1>4, <3>1, <3>2, <3>3, <3>4, <3>5 DEF Handle
  <2>3. ev # Syn
    BY <2>2, ReadOnce DEF Syn, Ev
  <2> QED
    BY <1>1, <2>1, <2>3
<1> QED
  BY <1>2, <1>3, <1>4

LEMMA OnceRead ==
    ASSUME TypeOK, NoGap, ~lost, MovesOnce, Handle, NEW ev \in Event, Reads(ev)
    PROVE  MovesOnce'
<1>1. /\ Unread # <<>> /\ Unread' = Tail(Unread) /\ Head(Unread) = ev /\ Unread \in Seq(Event)
  BY UnreadShrinks, UnreadType DEF Reads
<1> DEFINE n == Len(Unread)
<1>2. /\ n \in Nat \ {0} /\ Len(Unread') = n - 1 /\ Unread[1] = ev
      /\ \A i \in 1 .. n - 1 : Unread'[i] = Unread[i + 1]
      /\ \A i \in 1 .. n : Unread[i] \in Event
  BY <1>1
<1> HIDE DEF n
<1>3. SUFFICES ASSUME NEW i \in 1 .. n - 1, Unread'[i].type = "rel"
      PROVE  /\ delta'[Unread'[i].code] # 0 => \E k \in 1 .. i - 1 : Unread'[k] = Syn
             /\ \A j \in 1 .. i - 1 :
                  Unread'[j].type = "rel" /\ Unread'[j].code = Unread'[i].code =>
                    \E k \in j .. i - 1 : Unread'[k] = Syn
  BY <1>2 DEF MovesOnce
<1> DEFINE a == Unread[i + 1].code
<1>4. i + 1 \in 1 .. n /\ Unread'[i] = Unread[i + 1] /\ Unread[i + 1].type = "rel"
  BY <1>2, <1>3
<1>5. a \in PointerAxis
  BY <1>2, <1>4 DEF Event, Ev, Syn
<1>6. /\ delta[a] # 0 => \E k \in 1 .. i : Unread[k] = Syn
      /\ \A j \in 1 .. i : Unread[j].type = "rel" /\ Unread[j].code = a =>
           \E k \in j .. i : Unread[k] = Syn
  <2>1. (i + 1) - 1 = i
    BY <1>2
  <2> QED
    BY <1>4, <2>1 DEF MovesOnce, n
<1> HIDE DEF a
<1>7. ASSUME NEW k \in 2 .. i, Unread[k] = Syn PROVE Unread'[k - 1] = Syn /\ k - 1 \in 1 .. i - 1
  BY <1>2, <1>7
<1>8. ASSUME delta'[a] # 0 PROVE \E k \in 1 .. i - 1 : Unread'[k] = Syn
  <2>1. ev # Syn
    BY <1>5, <1>8, DeltaEffect
  <2>2. PICK k \in 1 .. i : Unread[k] = Syn
    <3>1. CASE delta[a] # 0
      BY <1>6, <3>1
    <3>2. CASE delta[a] = 0
      <4>1. ev.type = "rel" /\ ev.code = a
        BY <1>5, <1>8, <3>2, DeltaEffect
      <4>2. 1 \in 1 .. i
        BY <1>2
      <4> QED
        BY <1>2, <1>6, <4>1, <4>2
    <3> QED
      BY <3>1, <3>2
  <2>3. k \in 2 .. i
    BY <1>2, <2>1, <2>2
  <2> QED
    BY <1>7, <2>2, <2>3
<1>9. ASSUME NEW j \in 1 .. i - 1, Unread'[j].type = "rel", Unread'[j].code = a
      PROVE  \E k \in j .. i - 1 : Unread'[k] = Syn
  <2>1. j + 1 \in 1 .. i /\ Unread'[j] = Unread[j + 1]
    BY <1>2
  <2>2. PICK k \in j + 1 .. i : Unread[k] = Syn
    BY <1>6, <1>9, <2>1
  <2>3. k \in 2 .. i /\ k - 1 \in j .. i - 1
    BY <1>2
  <2> QED
    BY <1>7, <2>2, <2>3
<1> QED
  BY <1>4, <1>8, <1>9 DEF a

LEMMA WholeNext ==
    ASSUME TypeOK, NoGap, ~lost, Whole, Handle, NEW ev \in Event, Reads(ev)
    PROVE  Whole'
<1>1. queue \in Seq(Event) /\ queue # <<>> /\ ev = queue[1] /\ queue' = Tail(queue)
  BY DEF NoGap, Reads
<1>2. CASE queue' # <<>>
  <2>1. Len(queue) > 1 /\ Len(queue') = Len(queue) - 1 /\ queue'[Len(queue')] = queue[Len(queue)]
    BY <1>1, <1>2
  <2> QED
    BY <1>2, <2>1 DEF Whole
<1>3. CASE queue' = <<>>
  <2>1. Len(queue) = 1
    <3>1. Len(queue) \in Nat /\ Len(Tail(queue)) = Len(queue) - 1
      BY <1>1
    <3>2. Len(queue') = 0
      BY <1>3
    <3> QED
      BY <1>1, <3>1, <3>2
  <2>2. ev = Syn
    BY <1>1, <2>1 DEF Whole
  <2>3. ~gamepadModified' /\ \A a \in PointerAxis : delta'[a] = 0
    BY <2>2, DeltaEffect
  <2> QED
    BY <1>3, <2>3, Zenon DEF Whole
<1> QED
  BY <1>2, <1>3

LEMMA CatchingNext == TypeOK /\ NoGap /\ Catching /\ [Next]_vars => Catching'
<1> SUFFICES ASSUME TypeOK, NoGap, Catching, [Next]_vars, ~lost', ~quit'
             PROVE  Leads(Told', Unread', Shown') /\ MovesOnce' /\ Whole'
  BY DEF Catching, Leads, After
<1>1. CASE UNCHANGED vars
  <2>1. Told' = Told /\ Shown' = Shown /\ Unread' = Unread /\ UNCHANGED <<queue, delta, gamepadModified>>
    BY <1>1 DEF vars, Told, Shown, Unread
  <2>2. Leads(Told, Unread, Shown) /\ MovesOnce /\ Whole
    BY <1>1 DEF vars, Catching
  <2>3. MovesOnce' /\ Whole'
    BY <2>1, <2>2 DEF MovesOnce, Whole, Syn, Ev
  <2> QED
    BY <2>1, <2>2, <2>3
<1>2. CASE Device /\ ~CloseFrame /\ UNCHANGED kind
  <2>1. PICK ev \in Event : Reports(ev) /\ ev # Syn /\ Shown' = After(Shown, ev)
    BY <1>2, Reported
  <2>2. /\ ~lost /\ ~quit /\ queue' = queue /\ frame' = Append(frame, ev)
        /\ UNCHANGED <<delta, gamepadModified>>
    BY <2>1 DEF Reports
  <2>3. Leads(Told, Unread, Shown) /\ MovesOnce /\ Whole
    BY <2>2 DEF Catching
  <2>4. Told' = Told
    BY <2>1 DEF Reports, Told, hostPad
  <2>5. Leads(Told', Unread', Shown')
    <3>1. Leads(Told, Append(Unread, ev), After(Shown, ev))
      BY <2>2, <2>3, LeadsOn, UnreadType
    <3>2. Unread' = Append(Unread, ev)
      BY <2>2, UnreadGrows
    <3> QED
      BY <2>1, <2>4, <3>1, <3>2
  <2>6. MovesOnce'
    BY <2>1, <2>2, <2>3, OnceReported
  <2>7. Whole'
    BY <2>2, <2>3 DEF Whole, Syn, Ev
  <2> QED
    BY <2>5, <2>6, <2>7
<1>3. CASE CloseFrame
  <2>0. UNCHANGED lost /\ queue' = queue \o Append(frame, Syn)
    BY <1>3, Zenon DEF CloseFrame
  <2>1. /\ ~lost /\ ~quit /\ queue' = queue \o Append(frame, Syn) /\ frame' = <<>>
        /\ UNCHANGED <<delta, gamepadModified>>
    BY <1>3, <2>0 DEF CloseFrame
  <2>2. Leads(Told, Unread, Shown) /\ MovesOnce /\ Whole
    BY <2>1 DEF Catching
  <2>3. Told' = Told /\ Shown' = Shown
    BY <1>3 DEF CloseFrame, deviceVars, hostPad, Told, Shown
  <2>4. After(Shown, Syn) = Shown
    BY DEF After, Shown, Syn, Ev, TypeOK
  <2>5. Leads(Told', Unread', Shown')
    <3>1. Leads(Told, Append(Unread, Syn), After(Shown, Syn))
      BY <2>1, <2>2, EventType, LeadsOn, UnreadType
    <3>2. Unread' = Append(Unread, Syn)
      BY <2>1, EventType, UnreadGrows
    <3> QED
      BY <2>3, <2>4, <3>1, <3>2
  <2>6. MovesOnce'
    BY <2>1, <2>2, OnceClosed
  <2>7. Whole'
    <3>1. queue \in Seq(Event) /\ Append(frame, Syn) \in Seq(Event)
      BY <2>1, EventType DEF TypeOK, NoGap
    <3>2. /\ Len(Append(frame, Syn)) = Len(frame) + 1 /\ Len(frame) \in Nat
          /\ Append(frame, Syn)[Len(frame) + 1] = Syn
      BY DEF TypeOK
    <3>3. queue' # <<>> /\ queue'[Len(queue')] = Syn
      BY <2>1, <3>1, <3>2
    <3> QED
      BY <3>3 DEF Whole, Syn, Ev
  <2> QED
    BY <2>5, <2>6, <2>7
<1>4. CASE Handle
  <2>1. PICK ev : Reads(ev)
    BY <1>4 DEF Handle, OnDropped, OnSyn, OnKey, OnMouse, OnButton, OnRel, OnAbs
  <2>2. /\ ~lost /\ ~quit /\ queue # <<>> /\ ev = Head(queue) /\ queue' = Tail(queue)
        /\ UNCHANGED frame /\ Shown' = Shown
    BY <2>1 DEF Reads, deviceVars, Shown
  <2>3. ev \in Event
    BY <2>2 DEF NoGap
  <2>4. Leads(Told, Unread, Shown) /\ MovesOnce /\ Whole
    BY <2>2 DEF Catching
  <2>5. Unread # <<>> /\ Unread' = Tail(Unread) /\ Head(Unread) = ev /\ Unread \in Seq(Event)
    BY <2>2, UnreadShrinks, UnreadType
  <2>6. ev.type = "rel" => delta[ev.code] = 0
    <3>1. Len(Unread) \in Nat \ {0} /\ Unread[1] = ev /\ 1 \in 1 .. Len(Unread) /\ 1 .. 1 - 1 = {}
      BY <2>5
    <3> QED
      BY <2>4, <3>1 DEF MovesOnce
  <2>7. Leads(Told', Unread', Shown')
    <3>1. Leads(After(Told, ev), Tail(Unread), Shown)
      BY <2>4, <2>5, LeadsFromNext
    <3>2. Told' = After(Told, ev)
      BY <1>4, <2>1, <2>3, <2>6, Handled
    <3> QED
      BY <2>2, <2>5, <3>1, <3>2
  <2>8. MovesOnce'
    BY <1>4, <2>1, <2>2, <2>3, <2>4, OnceRead
  <2>9. Whole'
    BY <1>4, <2>1, <2>2, <2>3, <2>4, WholeNext
  <2> QED
    BY <2>7, <2>8, <2>9
<1> QED
  BY <1>1, <1>2, <1>3, <1>4 DEF Next

LEMMA AlwaysCatching == Spec => []Catching
BY CatchingInit, CatchingNext, EventsTyped, NeverGap, PTL DEF Spec

(* evdev_handle_event: a host that has read every frame of a device shows  *)
(* its keys, buttons, axes and how far it has moved, whatever the frames   *)
(* held and however far behind they were read.                             *)
THEOREM HostInStep == Spec => []InStep
<1>1. TypeOK /\ PadFlushed /\ Catching => InStep
  <2> SUFFICES ASSUME TypeOK, PadFlushed, Catching, CaughtUp
               PROVE  KeysInStep /\ PadInStep /\ PointerInStep
    BY DEF InStep
  <2>1. Unread = <<>> /\ Leads(Told, Unread, Shown) /\ Whole
    BY DEF CaughtUp, Catching, Unread
  <2>2. Told = Shown
    BY <2>1, LeadsNowhere
  <2>3. ~gamepadModified /\ \A a \in PointerAxis : delta[a] = 0
    BY <2>1 DEF CaughtUp, Whole
  <2>4. KeysInStep
    BY <2>2 DEF Told, Shown, KeysInStep
  <2>5. PadInStep
    BY <2>2, <2>3 DEF Told, Shown, PadFlushed, PadInStep
  <2>6. PointerInStep
    <3>1. pointer = [a \in PointerAxis |-> hostPointer[a] + delta[a]]
      BY <2>2 DEF Told, Shown
    <3>2. \A a \in PointerAxis : hostPointer[a] + delta[a] = hostPointer[a]
      BY <2>3 DEF TypeOK
    <3> QED
      BY <3>1, <3>2 DEF TypeOK, PointerInStep
  <2> QED
    BY <2>4, <2>5, <2>6
<1> QED
  BY <1>1, AlwaysCatching, EventsTyped, PadIsFlushed, PTL

----------------------------------------------------------------------------
(* The axes of EvdevAxes, whatever MaxRange and MaxFlat are.               *)

(* Division of a natural number in C.                                      *)
LEMMA Division ==
    ASSUME NEW a \in Nat, NEW s \in Nat, s > 0
    PROVE  /\ CDiv(a, s) \in Nat
           /\ s * CDiv(a, s) <= a /\ a < s * CDiv(a, s) + s
<1>1. a \div s \in Nat /\ s * (a \div s) <= a /\ a < s * (a \div s) + s
  BY SMT
<1>2. QED
  BY <1>1 DEF CDiv

(* Multiplying keeps the order, and dividing what is almost the same does. *)
LEMMA TimesMore ==
    ASSUME NEW s \in Nat, NEW a \in Int, NEW b \in Int, a <= b
    PROVE  s * a <= s * b
<1>1. PICK d \in Nat : b = a + d
  BY b - a \in Nat
<1>2. s * b = s * a + s * d /\ s * d \in Nat
  BY <1>1
<1>3. QED
  BY <1>2

LEMMA Cancel ==
    ASSUME NEW s \in Nat, s > 0, NEW a \in Int, NEW b \in Int, s * a < s * b + s
    PROVE  a <= b
<1>1. SUFFICES ASSUME b + 1 <= a PROVE FALSE  OBVIOUS
<1>2. s * (b + 1) <= s * a
  BY <1>1, TimesMore
<1>3. s * (b + 1) = s * b + s /\ s * a \in Int /\ s * b \in Int  OBVIOUS
<1>4. QED
  BY <1>2, <1>3

(* An offset of 0..s scaled to 0..m, as evdev_convert_value and            *)
(* evdev_convert_value_byte scale it: it stays in 0..m, ends meet ends.    *)
LEMMA Scale ==
    ASSUME NEW m \in Nat, NEW s \in Nat, s > 0, NEW o \in 0 .. s
    PROVE  /\ CDiv(o * m, s) \in 0 .. m
           /\ o = 0 => CDiv(o * m, s) = 0
           /\ o = s => CDiv(o * m, s) = m
<1> DEFINE q == CDiv(o * m, s)
<1>1. o * m \in Nat  OBVIOUS
<1>2. q \in Nat /\ s * q <= o * m /\ o * m < s * q + s
  BY <1>1, Division
<1>3. m * o <= m * s
  BY TimesMore
<1>4. m * o = o * m /\ m * s = s * m  OBVIOUS
<1>5. q <= m
  <2>1. s * q < s * m + s
    BY <1>1, <1>2, <1>3, <1>4
  <2>2. QED
    BY <1>2, <2>1, Cancel
<1>6. ASSUME o = 0 PROVE q = 0
  <2>1. s * q < s * 0 + s
    BY <1>2, <1>6
  <2>2. QED
    BY <1>2, <2>1, Cancel
<1>7. ASSUME o = s PROVE m <= q
  <2>1. s * m < s * q + s
    BY <1>2, <1>7
  <2>2. QED
    BY <1>2, <2>1, Cancel
<1> HIDE DEF q
<1>8. QED
  BY <1>2, <1>5, <1>6, <1>7 DEF q

(* A larger offset is not scaled to less.                                  *)
LEMMA ScaleFollows ==
    ASSUME NEW m \in Nat, NEW s \in Nat, s > 0, NEW a \in Nat, NEW b \in Nat, a <= b
    PROVE  CDiv(a * m, s) <= CDiv(b * m, s)
<1> DEFINE p == CDiv(a * m, s)
           q == CDiv(b * m, s)
<1>1. a * m \in Nat /\ b * m \in Nat  OBVIOUS
<1>2. p \in Nat /\ s * p <= a * m /\ q \in Nat /\ b * m < s * q + s
  BY <1>1, Division
<1>3. m * a <= m * b /\ m * a = a * m /\ m * b = b * m
  BY TimesMore
<1> HIDE DEF p, q
<1>4. s * p < s * q + s
  BY <1>1, <1>2, <1>3
<1>5. p <= q
  BY <1>2, <1>4, Cancel
<1>6. QED
  BY <1>5 DEF p, q

(* What lies in the upper half, but for half a unit, is scaled to the      *)
(* upper half, but for what that half unit is worth.                       *)
LEMMA HighHalf ==
    ASSUME NEW m \in Nat, NEW s \in Nat, s > 0, NEW o \in Nat
    PROVE  /\ 2 * o >= s => 2 * CDiv(o * m, s) + 1 >= m
           /\ 2 * o >= s - 1 => 2 * CDiv(o * m, s) + 2 + CDiv(m, s) >= m
<1> DEFINE q == CDiv(o * m, s)
           k == CDiv(m, s)
<1>1. o * m \in Nat  OBVIOUS
<1>2. q \in Nat /\ o * m < s * q + s
  BY <1>1, Division
<1>3. k \in Nat /\ m < s * k + s
  BY Division
<1> HIDE DEF q, k
<1>4. m * (2 * o) = 2 * (o * m) /\ m * s = s * m /\ m * (s - 1) = s * m - m  OBVIOUS
<1>5. ASSUME 2 * o >= s PROVE 2 * q + 1 >= m
  <2>1. m * s <= m * (2 * o)
    BY <1>5, TimesMore
  <2>2. s * (2 * q + 1) = 2 * (s * q) + s
    BY <1>2
  <2>3. s * m < s * (2 * q + 1) + s
    BY <1>1, <1>2, <1>4, <2>1, <2>2
  <2>4. QED
    BY <1>2, <2>3, Cancel
<1>6. ASSUME 2 * o >= s - 1 PROVE 2 * q + 2 + k >= m
  <2>1. m * (s - 1) <= m * (2 * o)
    BY <1>6, TimesMore
  <2>2. s * (2 * q + 2 + k) = 2 * (s * q) + 2 * s + s * k
    BY <1>2, <1>3
  <2>3. s * m < s * (2 * q + 2 + k) + s
    BY <1>1, <1>2, <1>3, <1>4, <2>1, <2>2
  <2>4. QED
    BY <1>2, <1>3, <2>3, Cancel
<1>7. QED
  BY <1>5, <1>6 DEF q, k

LEMMA LowHalf ==
    ASSUME NEW m \in Nat, NEW s \in Nat, s > 0, NEW o \in Nat
    PROVE  /\ 2 * o <= s => 2 * CDiv(o * m, s) <= m
           /\ 2 * o <= s + 1 => 2 * CDiv(o * m, s) <= m + CDiv(m, s)
<1> DEFINE q == CDiv(o * m, s)
           k == CDiv(m, s)
<1>1. o * m \in Nat  OBVIOUS
<1>2. q \in Nat /\ s * q <= o * m
  BY <1>1, Division
<1>3. k \in Nat /\ m < s * k + s
  BY Division
<1> HIDE DEF q, k
<1>4. m * (2 * o) = 2 * (o * m) /\ m * s = s * m /\ m * (s + 1) = s * m + m
      /\ s * (2 * q) = 2 * (s * q)  BY <1>2
<1>5. ASSUME 2 * o <= s PROVE 2 * q <= m
  <2>1. m * (2 * o) <= m * s
    BY <1>5, TimesMore
  <2>2. s * (2 * q) < s * m + s
    BY <1>1, <1>2, <1>4, <2>1
  <2>3. QED
    BY <1>2, <2>2, Cancel
<1>6. ASSUME 2 * o <= s + 1 PROVE 2 * q <= m + k
  <2>1. m * (2 * o) <= m * (s + 1)
    BY <1>6, TimesMore
  <2>2. s * (m + k) = s * m + s * k
    BY <1>3
  <2>3. s * (2 * q) < s * (m + k) + s
    BY <1>1, <1>2, <1>3, <1>4, <2>1, <2>2
  <2>4. QED
    BY <1>2, <1>3, <2>3, Cancel
<1>7. QED
  BY <1>5, <1>6 DEF q, k

AxisInv == travels => /\ parms \in Axes /\ reverse \in BOOLEAN
                      /\ position \in parms.min .. parms.max + 1

(* avg of input_abs_parms is the middle, rounded.                          *)
LEMMA Average ==
    ASSUME NEW s \in Int
    PROVE  /\ CDiv(s, 2) \in Int
           /\ s % 2 = 0 => 2 * CDiv(s, 2) = s
           /\ s <= 2 * CDiv(s, 2) + 1 /\ 2 * CDiv(s, 2) <= s + 1
<1>1. CASE s >= 0
  BY <1>1, SMT DEF CDiv
<1>2. CASE s < 0
  <2>1. CDiv(s, 2) = -((-s) \div 2) /\ -s \in Nat
    BY <1>2 DEF CDiv
  <2>2. s % 2 = 0 => 2 * ((-s) \div 2) = -s
    BY <2>1
  <2>3. 2 * ((-s) \div 2) <= -s /\ -s <= 2 * ((-s) \div 2) + 1 /\ (-s) \div 2 \in Int BY <2>1
  <2>4. QED
    BY <2>1, <2>2, <2>3
<1>3. QED
  BY <1>1, <1>2

(* The parameters of an axis that is tried.                                *)
LEMMA AxisParms ==
    ASSUME NEW p \in Axes
    PROVE  /\ p.min \in Int /\ p.max \in Int /\ p.avg \in Int /\ p.flat \in Nat
           /\ p.range = p.max - p.avg /\ p.diff = p.max - p.min
           /\ p.min <= 0 /\ p.max > 0
           /\ StickSpan(p) \in Nat /\ StickSpan(p) > 0 /\ p.max - p.min >= 2
           /\ 2 * p.avg <= p.min + p.max + 1 /\ p.min + p.max <= 2 * p.avg + 1
           /\ (p.max - p.min) % 2 = 0 => 2 * p.avg = p.min + p.max
<1>1. PICK min \in -MaxRange .. 0, max \in 1 .. MaxRange, flat \in 0 .. MaxFlat :
        p = InitParms(min, max, flat)
  BY DEF Axes
<1>2. min \in Int /\ max \in Int /\ flat \in Nat /\ min <= 0 /\ max > 0
  BY AxesAssumption
<1>3. p.flat = flat /\ p.min = min /\ p.max = max /\ p.avg = CDiv(min + max, 2)
      /\ p.range = max - CDiv(min + max, 2) /\ p.diff = max - min
  BY <1>1 DEF InitParms
<1>4. p.max - p.min >= 2 /\ StickSpan(p) > 0
  BY DEF Axes
<1>5. StickSpan(p) = max - min - flat * 2
  BY <1>3 DEF StickSpan
<1>6. (max - min) % 2 = 0 => (min + max) % 2 = 0
  BY <1>2
<1> QED
  BY <1>2, <1>3, <1>4, <1>5, <1>6, Average

(* Where StickOffset puts a position outside the dead zone.                *)
LEMMA Offset ==
    ASSUME NEW p \in Axes, NEW v \in p.min .. p.max, NEW r \in BOOLEAN,
           Dist(v, p.avg) >= p.flat
    PROVE  /\ StickOffset(p, v, r) \in 0 .. StickSpan(p)
           /\ ConvertValue(p, v, r)
                = CDiv(StickOffset(p, v, r) * (SHRT_MAX - SHRT_MIN), StickSpan(p)) + SHRT_MIN
           /\ v = p.min => StickOffset(p, v, r) = IF r THEN StickSpan(p) ELSE 0
           /\ v = p.max => StickOffset(p, v, r) = IF r THEN 0 ELSE StickSpan(p)
<1> USE AxisParms
<1>1. ConvertValue(p, v, r)
        = CDiv(StickOffset(p, v, r) * (SHRT_MAX - SHRT_MIN), StickSpan(p)) + SHRT_MIN
  <2>1. ~(Dist(v, p.avg) < p.flat) /\ ~(v > p.max) /\ ~(v < p.min)
    BY DEF Dist
  <2> QED
    BY <2>1, Zenon DEF ConvertValue
<1>2. p.flat * 2 = 2 * p.flat
  OBVIOUS
<1>3. CASE r
  BY <1>1, <1>2, <1>3 DEF StickOffset, StickSpan, Dist
<1>4. CASE ~r
  BY <1>1, <1>2, <1>4 DEF StickOffset, StickSpan, Dist
<1> QED
  BY <1>3, <1>4

(* The ends of an axis are outside its dead zone.                          *)
LEMMA Ends ==
    ASSUME NEW p \in Axes, NEW v \in {p.min, p.max}
    PROVE  v \in p.min .. p.max /\ Dist(v, p.avg) >= p.flat
BY AxisParms DEF StickSpan, Dist

(* A position on one side of the middle is converted to that side, but for *)
(* the slack.                                                              *)
LEMMA Halves ==
    ASSUME NEW p \in Axes, NEW v \in p.min .. p.max, NEW r \in BOOLEAN,
           Dist(v, p.avg) >= p.flat
    PROVE  /\ (IF r THEN v < p.avg ELSE v > p.avg) => ConvertValue(p, v, r) >= -Slack(p)
           /\ (IF r THEN v > p.avg ELSE v < p.avg) => ConvertValue(p, v, r) <= Slack(p)
<1> DEFINE o == StickOffset(p, v, r)
           s == StickSpan(p)
           D == SHRT_MAX - SHRT_MIN
           q == CDiv(o * D, s)
           k == CDiv(D, s)
           up == IF r THEN v < p.avg ELSE v > p.avg
           down == IF r THEN v > p.avg ELSE v < p.avg
<1>1. s \in Nat /\ s > 0 /\ o \in 0 .. s /\ ConvertValue(p, v, r) = q + SHRT_MIN
  BY AxisParms, Offset
<1>2. D \in Nat /\ D = 65535 /\ SHRT_MIN = -32768
  BY DEF SHRT_MAX, SHRT_MIN
<1>3. k \in Nat
  BY <1>1, <1>2, Division
<1>4. q \in Int
  BY <1>1, <1>2, Scale
<1>5. up => 2 * o >= s - 1 /\ (Even(p) => 2 * o >= s)
  <2>1. CASE r
    BY <2>1, AxisParms DEF StickOffset, StickSpan, Dist, Even
  <2>2. CASE ~r
    BY <2>2, AxisParms DEF StickOffset, StickSpan, Dist, Even
  <2> QED
    BY <2>1, <2>2
<1>6. down => 2 * o <= s + 1 /\ (Even(p) => 2 * o <= s)
  <2>1. CASE r
    BY <2>1, AxisParms DEF StickOffset, StickSpan, Dist, Even
  <2>2. CASE ~r
    BY <2>2, AxisParms DEF StickOffset, StickSpan, Dist, Even
  <2> QED
    BY <2>1, <2>2
<1>7. Slack(p) = IF Even(p) THEN 1 ELSE k + 1
  BY DEF Slack
<1> HIDE DEF s, o, D
<1>8. /\ 2 * o >= s => 2 * q + 1 >= D
      /\ 2 * o >= s - 1 => 2 * q + 2 + k >= D
      /\ 2 * o <= s => 2 * q <= D
      /\ 2 * o <= s + 1 => 2 * q <= D + k
  BY <1>1, <1>2, HighHalf, LowHalf
<1> HIDE DEF q, k, up, down
<1>9. up => q + SHRT_MIN >= -Slack(p)
  BY <1>2, <1>3, <1>4, <1>5, <1>7, <1>8
<1>10. down => q + SHRT_MIN <= Slack(p)
  BY <1>2, <1>3, <1>4, <1>6, <1>7, <1>8
<1> QED
  BY <1>1, <1>9, <1>10 DEF up, down

(* An axis keeps its parameters and never travels past one above its       *)
(* maximum.                                                                *)
LEMMA AxisInvariant == AxesSpec => []AxisInv
<1>1. AxesInit => AxisInv
  <2> SUFFICES ASSUME AxesInit, travels PROVE parms \in Axes /\ reverse \in BOOLEAN
                                             /\ position \in parms.min .. parms.max + 1
    BY DEF AxisInv
  <2>1. parms \in Axes /\ reverse \in BOOLEAN /\ position = parms.min
    BY DEF AxesInit
  <2> QED
    BY <2>1, AxisParms
<1>2. AxisInv /\ [AxesNext]_<<vars, axisVars>> => AxisInv'
  <2> SUFFICES ASSUME AxisInv, [AxesNext]_<<vars, axisVars>> PROVE AxisInv'
    OBVIOUS
  <2>1. CASE UNCHANGED axisVars
    BY <2>1 DEF AxisInv, axisVars
  <2>2. CASE Travel
    <3>1. /\ parms \in Axes /\ reverse \in BOOLEAN
          /\ position \in parms.min .. parms.max + 1 /\ position <= parms.max
      BY <2>2 DEF AxisInv, Travel
    <3>2. parms.min \in Int /\ parms.max \in Int
      BY <3>1, AxisParms
    <3>3. parms' = parms /\ reverse' = reverse /\ position' = position + 1
      BY <2>2 DEF Travel
    <3>4. position + 1 \in parms.min .. parms.max + 1
      BY <3>1, <3>2
    <3> QED
      BY <3>1, <3>3, <3>4, Zenon DEF AxisInv
  <2> QED
    BY <2>1, <2>2 DEF AxesNext, axisVars
<1> QED
  BY <1>1, <1>2, PTL DEF AxesSpec

(* evdev_convert_value: for an axis of any range and dead zone the stick   *)
(* fits a short, the ends are the ends, the dead zone the centre, and the  *)
(* d-pad agrees with it.                                                   *)
THEOREM StickAlwaysFits == AxesSpec => []StickFits
<1>1. AxisInv => StickFits
  <2> SUFFICES ASSUME AxisInv, travels
               PROVE  StickFits
    BY DEF StickFits
  <2>1. parms \in Axes /\ reverse \in BOOLEAN /\ position \in parms.min .. parms.max + 1
    BY DEF AxisInv
  <2>2. /\ parms.min \in Int /\ parms.max \in Int /\ parms.avg \in Int /\ parms.flat \in Nat
        /\ StickSpan(parms) \in Nat /\ StickSpan(parms) > 0 /\ position \in Int
    BY <2>1, AxisParms
  <2>3. SHRT_MIN = -32768 /\ SHRT_MAX = 32767 /\ SHRT_MAX - SHRT_MIN \in Nat
    BY DEF SHRT_MIN, SHRT_MAX
  <2>4. Slack(parms) \in Nat
    <3>1. CDiv(SHRT_MAX - SHRT_MIN, StickSpan(parms)) \in Nat
      BY <2>2, <2>3, Division
    <3> QED
      BY <3>1 DEF Slack
  <2>5. /\ Direction = 1 => IF reverse THEN position < parms.avg ELSE position > parms.avg
        /\ Direction = -1 => IF reverse THEN position > parms.avg ELSE position < parms.avg
    <3>1. CDiv(parms.range, 4) \in Nat
      <4>1. parms.range \in Nat
        BY <2>1, AxisParms
      <4> QED
        BY <4>1, Division
    <3>2. CASE position > parms.avg + CDiv(parms.range, 4)
      <4>1. Direction = IF reverse THEN -1 ELSE 1
        <5>1. ~(position < parms.avg - CDiv(parms.range, 4))
          BY <2>2, <3>1, <3>2
        <5> QED
          BY <3>2, <5>1, Zenon DEF Direction, ConvertDirection
      <4> QED
        BY <2>1, <2>2, <3>1, <3>2, <4>1
    <3>3. CASE position < parms.avg - CDiv(parms.range, 4)
      <4>1. Direction = IF reverse THEN 1 ELSE -1
        BY <2>2, <3>1, <3>3 DEF Direction, ConvertDirection
      <4> QED
        BY <2>1, <2>2, <3>1, <3>3, <4>1
    <3>4. CASE ~(position > parms.avg + CDiv(parms.range, 4))
               /\ ~(position < parms.avg - CDiv(parms.range, 4))
      BY <3>4 DEF Direction, ConvertDirection
    <3> QED
      BY <3>2, <3>3, <3>4
  <2>6. CASE Dist(position, parms.avg) < parms.flat
    <3>1. Stick = 0
      <4>1. ~(Dist(position, parms.avg) >= parms.flat)
        BY <2>2, <2>6 DEF Dist
      <4> QED
        BY <2>6, <4>1, Zenon DEF Stick, ConvertValue
    <3>2. position # parms.min /\ position # parms.max
      BY <2>1, <2>2, <2>6, Ends DEF Dist
    <3> QED
      BY <2>3, <2>4, <3>1, <3>2 DEF StickFits
  <2>7. CASE Dist(position, parms.avg) >= parms.flat /\ position > parms.max
    <3>1. Stick = IF reverse THEN SHRT_MIN ELSE SHRT_MAX
      <4>1. ~(Dist(position, parms.avg) < parms.flat) /\ ~(position < parms.min)
        BY <2>1, <2>2, <2>7 DEF Dist
      <4> QED
        BY <2>7, <4>1, Zenon DEF Stick, ConvertValue
    <3>2. position > parms.avg /\ parms.min < parms.max /\ parms.avg <= parms.max
      BY <2>1, <2>7, AxisParms
    <3>3. position # parms.avg /\ position # parms.min /\ position # parms.max
      BY <2>2, <2>7, <3>2
    <3>4. (Direction = 1 => ~reverse) /\ (Direction = -1 => reverse)
      BY <2>1, <2>2, <2>5, <3>2
    <3> QED
      BY <2>3, <2>4, <3>1, <3>3, <3>4 DEF StickFits
  <2>8. CASE Dist(position, parms.avg) >= parms.flat /\ position <= parms.max
    <3> DEFINE o == StickOffset(parms, position, reverse)
               s == StickSpan(parms)
               D == SHRT_MAX - SHRT_MIN
               q == CDiv(o * D, s)
    <3>6. D \in Nat /\ s \in Nat /\ s > 0
      BY <2>2, <2>3
    <3>1. position \in parms.min .. parms.max
      BY <2>1, <2>2, <2>8
    <3>2. /\ o \in 0 .. StickSpan(parms) /\ Stick = q + SHRT_MIN
          /\ position = parms.min => o = IF reverse THEN StickSpan(parms) ELSE 0
          /\ position = parms.max => o = IF reverse THEN 0 ELSE StickSpan(parms)
      BY <2>1, <2>8, <3>1, Offset DEF Stick
    <3>3. /\ q \in 0 .. D
          /\ o = 0 => q = 0
          /\ o = s => q = D
      <4>1. o \in 0 .. s
        BY <3>2
      <4> HIDE DEF D, s, o
      <4> QED
        BY <3>6, <4>1, Scale
    <3>4. position = parms.avg => ~(parms.flat > 0)
      BY <2>2, <2>8 DEF Dist
    <3>5. (Direction = 1 => Stick >= -Slack(parms)) /\ (Direction = -1 => Stick <= Slack(parms))
      BY <2>1, <2>4, <2>5, <2>8, <3>1, Halves DEF Stick
    <3> HIDE DEF o, q, s
    <3>7. Stick \in SHRT_MIN .. SHRT_MAX
      <4>1. q \in Int /\ 0 <= q /\ q <= 65535 /\ Stick = q - 32768
        BY <2>3, <3>2, <3>3
      <4>2. Stick \in Int /\ -32768 <= Stick /\ Stick <= 32767
        BY <4>1
      <4>3. SHRT_MIN \in Int /\ SHRT_MAX \in Int /\ SHRT_MIN <= Stick /\ Stick <= SHRT_MAX
        BY <2>3, <4>2
      <4> QED
        BY <4>2, <4>3
    <3>8. /\ position = parms.min => Stick = IF reverse THEN SHRT_MAX ELSE SHRT_MIN
          /\ position = parms.max => Stick = IF reverse THEN SHRT_MIN ELSE SHRT_MAX
      BY <2>1, <2>3, <3>2, <3>3 DEF s
    <3> QED
      BY <3>4, <3>5, <3>7, <3>8 DEF StickFits
  <2> QED
    BY <2>2, <2>6, <2>7, <2>8 DEF Dist
<1> QED
  BY <1>1, AxisInvariant, PTL

(* One position further the stick does not fall back by more than slack.   *)
LEMMA StickMoves ==
    ASSUME NEW p \in Axes, NEW v \in p.min .. p.max, NEW r \in BOOLEAN
    PROVE  IF r THEN ConvertValue(p, v + 1, r) <= ConvertValue(p, v, r) + Slack(p)
                ELSE ConvertValue(p, v + 1, r) >= ConvertValue(p, v, r) - Slack(p)
<1>1. /\ p.min \in Int /\ p.max \in Int /\ p.avg \in Int /\ p.flat \in Nat
      /\ StickSpan(p) \in Nat /\ StickSpan(p) > 0 /\ v \in Int
      /\ SHRT_MIN = -32768 /\ SHRT_MAX = 32767 /\ SHRT_MAX - SHRT_MIN \in Nat
  BY AxisParms DEF SHRT_MIN, SHRT_MAX
<1>2. Slack(p) \in Nat
  BY <1>1, Division DEF Slack
<1>3. ASSUME NEW w \in Int, Dist(w, p.avg) < p.flat
      PROVE  ConvertValue(p, w, r) = 0
  <2>1. ~(Dist(w, p.avg) >= p.flat)
    BY <1>1, <1>3 DEF Dist
  <2> QED
    BY <1>3, <2>1, Zenon DEF ConvertValue
<1>4. ASSUME NEW w \in p.min .. p.max, Dist(w, p.avg) >= p.flat
      PROVE  ConvertValue(p, w, r) \in Int
  <2> DEFINE s == StickSpan(p)
             o == StickOffset(p, w, r)
             D == SHRT_MAX - SHRT_MIN
  <2>1. o \in 0 .. s /\ s \in Nat /\ s > 0 /\ D \in Nat
        /\ ConvertValue(p, w, r) = CDiv(o * D, s) + SHRT_MIN
    BY <1>1, <1>4, Offset
  <2> HIDE DEF s, o, D
  <2>2. CDiv(o * D, s) \in 0 .. D
    BY <2>1, Scale
  <2> QED
    BY <1>1, <2>1, <2>2
<1>5. CASE Dist(v, p.avg) < p.flat
  <2>1. ConvertValue(p, v, r) = 0 /\ v # p.max
    BY <1>1, <1>3, <1>5, Ends DEF Dist
  <2>2. CASE Dist(v + 1, p.avg) < p.flat
    BY <1>1, <1>2, <1>3, <2>1, <2>2
  <2>3. CASE ~(Dist(v + 1, p.avg) < p.flat)
    <3>1. v + 1 \in p.min .. p.max /\ v + 1 > p.avg /\ Dist(v + 1, p.avg) >= p.flat
      BY <1>1, <1>5, <2>1, <2>3 DEF Dist
    <3>2. /\ r => ConvertValue(p, v + 1, r) <= Slack(p)
          /\ ~r => ConvertValue(p, v + 1, r) >= -Slack(p)
      BY <3>1, Halves
    <3> QED
      BY <1>2, <1>4, <2>1, <3>1, <3>2
  <2> QED
    BY <2>2, <2>3
<1>6. CASE ~(Dist(v, p.avg) < p.flat) /\ Dist(v + 1, p.avg) < p.flat
  <2>1. ConvertValue(p, v + 1, r) = 0 /\ v < p.avg /\ Dist(v, p.avg) >= p.flat
    BY <1>1, <1>3, <1>6 DEF Dist
  <2>2. /\ r => ConvertValue(p, v, r) >= -Slack(p)
        /\ ~r => ConvertValue(p, v, r) <= Slack(p)
    BY <2>1, Halves
  <2> QED
    BY <1>2, <1>4, <2>1, <2>2
<1>7. CASE ~(Dist(v, p.avg) < p.flat) /\ ~(Dist(v + 1, p.avg) < p.flat)
  <2> DEFINE s == StickSpan(p)
             o == StickOffset(p, v, r)
             D == SHRT_MAX - SHRT_MIN
  <2>1. Dist(v, p.avg) >= p.flat /\ Dist(v + 1, p.avg) >= p.flat
    BY <1>1, <1>7 DEF Dist
  <2>2. o \in 0 .. s /\ s \in Nat /\ s > 0 /\ D \in Nat
        /\ ConvertValue(p, v, r) = CDiv(o * D, s) + SHRT_MIN
    BY <1>1, <2>1, Offset
  <2>3. CASE v = p.max
    <3>1. ConvertValue(p, v + 1, r) = IF r THEN SHRT_MIN ELSE SHRT_MAX
      <4>1. v + 1 > p.max /\ ~(v + 1 < p.min) /\ ~(Dist(v + 1, p.avg) < p.flat)
        BY <1>1, <1>7, <2>3
      <4> QED
        BY <2>1, <4>1, Zenon DEF ConvertValue
    <3>2. o = IF r THEN 0 ELSE s
      BY <1>1, <2>1, <2>3, Offset
    <3> HIDE DEF s, o
    <3>3. CDiv(o * D, s) = IF r THEN 0 ELSE D
      <4> HIDE DEF D
      <4> QED
        BY <2>2, <3>2, Scale
    <3> QED
      BY <1>1, <1>2, <2>2, <3>1, <3>3
  <2>4. CASE v # p.max
    <3> DEFINE t == StickOffset(p, v + 1, r)
    <3>1. v + 1 \in p.min .. p.max
      BY <1>1, <2>4
    <3>2. t \in 0 .. s /\ ConvertValue(p, v + 1, r) = CDiv(t * D, s) + SHRT_MIN
      BY <2>1, <3>1, Offset
    <3>3. IF r THEN t <= o ELSE o <= t
      <4>1. CASE r
        BY <1>1, <2>1, <2>4, <4>1 DEF StickOffset, Dist
      <4>2. CASE ~r
        BY <1>1, <2>1, <2>4, <4>2 DEF StickOffset, Dist
      <4> QED
        BY <4>1, <4>2
    <3> HIDE DEF s, o, t, D
    <3>4. CDiv(t * D, s) \in 0 .. D /\ CDiv(o * D, s) \in 0 .. D
      BY <2>2, <3>2, Scale
    <3>5. IF r THEN CDiv(t * D, s) <= CDiv(o * D, s) ELSE CDiv(o * D, s) <= CDiv(t * D, s)
      <4>1. o \in Nat /\ t \in Nat
        BY <2>2, <3>2
      <4>2. o <= t => CDiv(o * D, s) <= CDiv(t * D, s)
        BY <2>2, <4>1, ScaleFollows
      <4>3. t <= o => CDiv(t * D, s) <= CDiv(o * D, s)
        BY <2>2, <4>1, ScaleFollows
      <4> QED
        BY <3>3, <4>2, <4>3
    <3> QED
      BY <1>1, <1>2, <2>2, <3>2, <3>4, <3>5
  <2> QED
    BY <2>3, <2>4
<1> QED
  BY <1>5, <1>6, <1>7

(* One position further the trigger does not fall, and the maximum is 255. *)
LEMMA TriggerMoves ==
    ASSUME NEW p \in Axes, NEW v \in p.min .. p.max
    PROVE  /\ ConvertByte(p, v + 1) >= ConvertByte(p, v)
           /\ v + 1 >= p.max => ConvertByte(p, v + 1) = UCHAR_MAX
<1> DEFINE d == p.diff - p.flat
           o(w) == w - p.flat - p.min
           q(w) == CDiv(o(w) * UCHAR_MAX, d)
<1>1. /\ p.min \in Int /\ p.max \in Int /\ p.flat \in Nat /\ v \in Int
      /\ d \in Nat /\ d > 0 /\ p.min + p.flat < p.max /\ d = p.max - p.min - p.flat
      /\ UCHAR_MAX = 255 /\ UCHAR_MAX \in Nat /\ p.min <= v /\ v <= p.max
  BY AxisParms DEF StickSpan, UCHAR_MAX
<1>7. ASSUME NEW e \in 0 .. d
      PROVE  CDiv(e * UCHAR_MAX, d) \in 0 .. UCHAR_MAX
             /\ (e = d => CDiv(e * UCHAR_MAX, d) = UCHAR_MAX)
  <2>1. d \in Nat /\ d > 0 /\ UCHAR_MAX \in Nat
    BY <1>1
  <2> HIDE DEF d
  <2> QED
    BY <1>7, <2>1, Scale
<1>2. ASSUME NEW w \in p.min .. p.max + 1, w < p.min + p.flat
      PROVE  ConvertByte(p, w) = 0
  <2>1. Dist(w, p.min) < p.flat /\ ~(Dist(w, p.min) >= p.flat)
    BY <1>1, <1>2 DEF Dist
  <2> QED
    BY <2>1, Zenon DEF ConvertByte
<1>3. ASSUME NEW w \in p.min .. p.max, w >= p.min + p.flat
      PROVE  /\ o(w) \in 0 .. d /\ q(w) \in 0 .. UCHAR_MAX /\ ConvertByte(p, w) = q(w)
             /\ w = p.max => q(w) = UCHAR_MAX
  <2>1. ~(Dist(w, p.min) < p.flat) /\ ~(w > p.max)
    BY <1>1, <1>3 DEF Dist
  <2>2. ConvertByte(p, w) = q(w) % 256
    BY <2>1, Zenon DEF ConvertByte
  <2>3. o(w) \in 0 .. d /\ (w = p.max => o(w) = d)
    BY <1>1, <1>3
  <2> HIDE DEF d, o
  <2>4. q(w) \in 0 .. UCHAR_MAX /\ (w = p.max => q(w) = UCHAR_MAX)
    BY <1>7, <2>3
  <2> HIDE DEF q
  <2> QED
    BY <1>1, <2>2, <2>3, <2>4
<1>4. CASE v = p.max
  <2>1. ConvertByte(p, v + 1) = UCHAR_MAX
    <3>1. v + 1 > p.max /\ Dist(v + 1, p.min) >= p.flat /\ ~(Dist(v + 1, p.min) < p.flat)
      BY <1>1, <1>4 DEF Dist
    <3> QED
      BY <3>1, Zenon DEF ConvertByte
  <2>2. ConvertByte(p, v) = UCHAR_MAX
    BY <1>1, <1>3, <1>4
  <2> QED
    BY <1>1, <2>1, <2>2
<1>5. CASE v # p.max /\ v + 1 < p.min + p.flat
  BY <1>1, <1>2, <1>5
<1>6. CASE v # p.max /\ ~(v + 1 < p.min + p.flat)
  <2>1. v + 1 \in p.min .. p.max /\ v + 1 >= p.min + p.flat
    <3> HIDE DEF d, o, q
    <3> QED
      BY <1>1, <1>6
  <2>2. /\ o(v + 1) \in 0 .. d /\ q(v + 1) \in 0 .. UCHAR_MAX /\ ConvertByte(p, v + 1) = q(v + 1)
        /\ v + 1 = p.max => q(v + 1) = UCHAR_MAX
    BY <1>3, <2>1
  <2>3. CASE v < p.min + p.flat
    BY <1>1, <1>2, <2>1, <2>2, <2>3
  <2>4. CASE ~(v < p.min + p.flat)
    <3>1. /\ o(v) \in 0 .. d /\ q(v) \in 0 .. UCHAR_MAX /\ ConvertByte(p, v) = q(v)
      BY <1>1, <1>3, <2>4
    <3>2. o(v) <= o(v + 1)
      BY <1>1
    <3>3. q(v) <= q(v + 1)
      <4> HIDE DEF o, d
      <4>1. o(v) \in Nat /\ o(v + 1) \in Nat
        BY <1>1, <2>2, <3>1
      <4>2. \A a, b \in Nat : a <= b => CDiv(a * UCHAR_MAX, d) <= CDiv(b * UCHAR_MAX, d)
        BY <1>1, ScaleFollows
      <4> QED
        BY <3>2, <4>1, <4>2
    <3> HIDE DEF q, o, d
    <3> QED
      BY <1>1, <2>1, <2>2, <3>1, <3>3
  <2> QED
    BY <2>3, <2>4
<1> QED
  BY <1>4, <1>5, <1>6

(* evdev_convert_value, evdev_convert_value_byte: for an axis of any range *)
(* and dead zone, the stick and the trigger follow it.                     *)
THEOREM StickFollowsAxis == AxesSpec => AxisFollows
<1>1. AxisInv /\ [AxesNext]_<<vars, axisVars>>
        => [travels =>
             /\ IF reverse THEN Stick' <= Stick + Slack(parms) ELSE Stick' >= Stick - Slack(parms)
             /\ Trigger' >= Trigger /\ (position' >= parms.max => Trigger' = UCHAR_MAX)]_axisVars
  <2> SUFFICES ASSUME AxisInv, [AxesNext]_<<vars, axisVars>>, travels, axisVars' # axisVars
               PROVE  /\ IF reverse THEN Stick' <= Stick + Slack(parms) ELSE Stick' >= Stick - Slack(parms)
                      /\ Trigger' >= Trigger
                      /\ position' >= parms.max => Trigger' = UCHAR_MAX
    OBVIOUS
  <2>1. Travel
    BY DEF AxesNext, axisVars
  <2>2. /\ parms' = parms /\ reverse' = reverse /\ position' = position + 1
        /\ position <= parms.max
        /\ parms \in Axes /\ reverse \in BOOLEAN /\ position \in parms.min .. parms.max + 1
    BY <2>1 DEF Travel, AxisInv
  <2>3. position \in parms.min .. parms.max
    BY <2>2, AxisParms
  <2>4. /\ Stick = ConvertValue(parms, position, reverse)
        /\ Stick' = ConvertValue(parms, position + 1, reverse)
        /\ Trigger = ConvertByte(parms, position) /\ Trigger' = ConvertByte(parms, position + 1)
    BY <2>2 DEF Stick, Trigger
  <2> QED
    BY <2>2, <2>3, <2>4, StickMoves, TriggerMoves
<1> QED
  BY <1>1, AxisInvariant, PTL DEF AxesSpec, AxisFollows
==============================================================================
