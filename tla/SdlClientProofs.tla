---------------------------- MODULE SdlClientProofs ----------------------------
(***************************************************************************)
(* Proofs about SdlClient for any keys, controllers, users and any length  *)
(* of the queue that input and video share: no key sticks at the host, no  *)
(* two controllers are taken for one, and no half decoded picture is shown. *)
(***************************************************************************)
EXTENDS SdlClient, TLAPS, WellFoundedInduction

----------------------------------------------------------------------------
(* The queue.  What is still to come of a key or a pad is told by its last *)
(* event, if it has any.                                                   *)
About(ev, type, x) == ev.type = type /\ ev.what = x

NoneOf(q, type, x) == \A n \in DOMAIN q : ~About(q[n], type, x)

LastSays(q, type, x, set) ==
    \E n \in DOMAIN q :
      /\ About(q[n], type, x) /\ (q[n].down <=> x \in set)
      /\ \A m \in DOMAIN q : m > n => ~About(q[m], type, x)

(* An event of its own comes to a key or a pad, or one of another.         *)
LEMMA AppendLast ==
    ASSUME NEW S, NEW q \in Seq(S), NEW ev \in S, NEW type, NEW x, NEW set
    PROVE  /\ (About(ev, type, x) /\ (ev.down <=> x \in set))
                => LastSays(Append(q, ev), type, x, set)
           /\ ~About(ev, type, x) =>
                /\ NoneOf(q, type, x) => NoneOf(Append(q, ev), type, x)
                /\ LastSays(q, type, x, set) => LastSays(Append(q, ev), type, x, set)
<1> DEFINE q2 == Append(q, ev)
<1>1. /\ Len(q) \in Nat /\ DOMAIN q = 1 .. Len(q) /\ DOMAIN q2 = 1 .. Len(q) + 1
      /\ q2[Len(q) + 1] = ev /\ \A n \in DOMAIN q : q2[n] = q[n]
  OBVIOUS
<1> HIDE DEF q2
<1>2. ASSUME About(ev, type, x), ev.down <=> x \in set
      PROVE  LastSays(q2, type, x, set)
  <2>1. Len(q) + 1 \in DOMAIN q2 /\ \A m \in DOMAIN q2 : ~(m > Len(q) + 1)
    BY <1>1
  <2>2. About(q2[Len(q) + 1], type, x) /\ (q2[Len(q) + 1].down <=> x \in set)
    BY <1>1, <1>2
  <2> QED
    BY <2>1, <2>2 DEF LastSays
<1>3. ASSUME ~About(ev, type, x), NoneOf(q, type, x)
      PROVE  NoneOf(q2, type, x)
  BY <1>1, <1>3 DEF NoneOf
<1>4. ASSUME ~About(ev, type, x), LastSays(q, type, x, set)
      PROVE  LastSays(q2, type, x, set)
  <2>1. PICK n \in DOMAIN q :
          /\ About(q[n], type, x) /\ (q[n].down <=> x \in set)
          /\ \A m \in DOMAIN q : m > n => ~About(q[m], type, x)
    BY <1>4 DEF LastSays
  <2>2. \A m \in DOMAIN q2 : m > n => ~About(q2[m], type, x)
    BY <1>1, <1>4, <2>1
  <2> QED
    BY <1>1, <2>1, <2>2 DEF LastSays
<1> QED
  BY <1>2, <1>3, <1>4 DEF q2

(* The first event is taken: one of another, or of its own, perhaps the    *)
(* last of these.                                                          *)
LEMMA TailLast ==
    ASSUME NEW S, NEW q \in Seq(S), q # <<>>, NEW type, NEW x, NEW set
    PROVE  /\ ~About(Head(q), type, x) =>
                /\ NoneOf(q, type, x) => NoneOf(Tail(q), type, x)
                /\ LastSays(q, type, x, set) => LastSays(Tail(q), type, x, set)
           /\ (About(Head(q), type, x) /\ LastSays(q, type, x, set)) =>
                \/ LastSays(Tail(q), type, x, set)
                \/ NoneOf(Tail(q), type, x) /\ (Head(q).down <=> x \in set)
<1> DEFINE q2 == Tail(q)
<1>1. /\ Len(q) \in Nat \ {0} /\ DOMAIN q = 1 .. Len(q) /\ DOMAIN q2 = 1 .. Len(q) - 1
      /\ Head(q) = q[1] /\ \A n \in DOMAIN q2 : q2[n] = q[n + 1]
  OBVIOUS
<1> HIDE DEF q2
<1>2. ASSUME NoneOf(q, type, x) PROVE NoneOf(q2, type, x)
  BY <1>1, <1>2 DEF NoneOf
<1>3. ASSUME LastSays(q, type, x, set)
      PROVE  \/ LastSays(q2, type, x, set)
             \/ /\ About(Head(q), type, x) /\ (Head(q).down <=> x \in set)
                /\ NoneOf(q2, type, x)
  <2>1. PICK n \in DOMAIN q :
          /\ About(q[n], type, x) /\ (q[n].down <=> x \in set)
          /\ \A m \in DOMAIN q : m > n => ~About(q[m], type, x)
    BY <1>3 DEF LastSays
  <2>2. CASE n = 1
    <3>1. NoneOf(q2, type, x)
      BY <1>1, <2>1, <2>2 DEF NoneOf
    <3> QED
      BY <1>1, <2>1, <2>2, <3>1
  <2>3. CASE n # 1
    <3>1. n - 1 \in DOMAIN q2 /\ q2[n - 1] = q[n]
      BY <1>1, <2>3
    <3>2. \A m \in DOMAIN q2 : m > n - 1 => ~About(q2[m], type, x)
      BY <1>1, <2>1
    <3> QED
      BY <2>1, <3>1, <3>2 DEF LastSays
  <2> QED
    BY <2>2, <2>3
<1> QED
  BY <1>2, <1>3 DEF q2

----------------------------------------------------------------------------
(* What the decoder and the loop do to the queue: frames and the close of  *)
(* the window come and go, and once the loop is done it is dropped.        *)
VideoQueue ==
    \/ queue' = queue
    \/ \E type \in {"frame", "close"} : queue' = Append(queue, [type |-> type])
    \/ queue # <<>> /\ Head(queue).type \in {"frame", "close"} /\ queue' = Tail(queue)
    \/ done /\ queue' = <<>>

LEMMA VideoEffect ==
    ASSUME VideoStep
    PROVE  VideoQueue /\ (done' = done \/ done' = TRUE) /\ UNCHANGED inputOnly
<1>1. Video!Next /\ UNCHANGED inputOnly
  BY DEF VideoStep
<1>2. CASE Video!SubmitUnit \/ Video!DecoderLock \/ Video!Decode \/ Video!DecoderUnlock
           \/ Video!LoopLock \/ Video!LoopShow \/ Video!StopConnection
  BY <1>1, <1>2 DEF VideoQueue, Video!SubmitUnit, Video!DecoderLock, Video!Decode,
       Video!DecoderUnlock, Video!LoopLock, Video!LoopShow, Video!StopConnection
<1>3. CASE Video!PushFrame
  BY <1>1, <1>3 DEF VideoQueue, Video!PushFrame, Video!Pushed
<1>4. CASE Video!UserQuits
  BY <1>1, <1>4 DEF VideoQueue, Video!UserQuits
<1>5. CASE Video!LoopFrame \/ Video!LoopClosed
  BY <1>1, <1>5 DEF VideoQueue, Video!LoopFrame, Video!LoopClosed, Video!LoopWaits
<1>6. CASE Video!LoopDestroy
  BY <1>1, <1>6 DEF VideoQueue, Video!LoopDestroy
<1> QED
  BY <1>1, <1>2, <1>3, <1>4, <1>5, <1>6 DEF Video!Next, Video!Decoder, Video!Loop

----------------------------------------------------------------------------
(* The mutex: who shows and who decodes holds it.                          *)
Holds ==
    /\ loop = "show" => mutex = "loop"
    /\ decoder \in {"decode", "push", "unlock"} => mutex = "decoder"

LEMMA HoldsNext == Holds /\ [ClientNext]_clientVars => Holds'
<1> SUFFICES ASSUME Holds, [ClientNext]_clientVars PROVE Holds'
  OBVIOUS
<1>1. CASE UserStep \/ InputStep
  BY <1>1 DEF UserStep, InputStep, videoOnly, Holds
<1>2. CASE VideoStep
  <2>1. CASE Video!SubmitUnit
    BY <2>1 DEF Holds, Video!SubmitUnit
  <2>2. CASE Video!Decoder
    BY <2>2 DEF Holds, Video!Decoder, Video!DecoderLock, Video!Decode, Video!PushFrame,
         Video!DecoderUnlock
  <2>3. CASE Video!UserQuits
    BY <2>3 DEF Holds, Video!UserQuits
  <2>4. CASE Video!Loop
    BY <2>4 DEF Holds, Video!Loop, Video!LoopFrame, Video!LoopClosed, Video!LoopWaits,
         Video!LoopLock, Video!LoopShow, Video!LoopDestroy, Video!StopConnection
  <2> QED
    BY <1>2, <2>1, <2>2, <2>3, <2>4 DEF VideoStep, Video!Next
<1>3. CASE UNCHANGED clientVars
  BY <1>3 DEF clientVars, videoOnly, Holds
<1> QED
  BY <1>1, <1>2, <1>3 DEF ClientNext

(* sdl_loop and sdl_submit_decode_unit: no picture is shown while it is    *)
(* being decoded, whatever else the loop takes from the queue.             *)
THEOREM NeverTorn == ClientSpec => []NoTearing
<1>1. ClientInit => Holds
  BY DEF ClientInit, Video!Init, Holds
<1>2. Holds => NoTearing
  BY DEF Holds, NoTearing, Video!NoTearing
<1> QED
  BY <1>1, <1>2, HoldsNext, PTL DEF ClientSpec


----------------------------------------------------------------------------
(* The types of the input.                                                 *)

LEMMA TypeVideo ==
    ASSUME TypeOK, VideoStep
    PROVE  TypeOK'
<1>1. VideoQueue /\ UNCHANGED inputOnly /\ done' \in BOOLEAN
  BY VideoEffect DEF TypeOK
<1>2. queue \in Seq(Event) /\ \A type \in {"frame", "close"} : [type |-> type] \in Event
  BY DEF TypeOK, Event
<1>3. queue' \in Seq(Event)
  <2>1. CASE queue' = queue \/ queue' = <<>>
    <3>1. <<>> \in Seq(Event)
      OBVIOUS
    <3> QED
      BY <1>2, <2>1, <3>1, Zenon
  <2>2. ASSUME NEW type \in {"frame", "close"}, queue' = Append(queue, [type |-> type])
        PROVE  queue' \in Seq(Event)
    <3> DEFINE ev == [type |-> type]
    <3>1. ev \in Event /\ queue' = Append(queue, ev)
      BY <1>2, <2>2
    <3> HIDE DEF ev
    <3> QED
      BY <1>2, <3>1
  <2>3. CASE queue # <<>> /\ queue' = Tail(queue)
    BY <1>2, <2>3
  <2> QED
    BY <1>1, <2>1, <2>2, <2>3 DEF VideoQueue
<1> QED
  BY <1>1, <1>3 DEF TypeOK, inputOnly

LEMMA TypeUser ==
    ASSUME TypeOK, User
    PROVE  TypeOK'
<1>1. /\ kind.keys \in SUBSET Key /\ kind.pads \in SUBSET Pad
      /\ kind.buttons \in SUBSET MouseButton
  BY SdlAssumption DEF TypeOK, Kind
<1>2. ASSUME NEW ev \in Event, Push(ev)
      PROVE  /\ queue' \in Seq(Event)
             /\ UNCHANGED <<kind, keyboard_modifiers, gamepads, sdlVars, hostVars>>
  BY <1>2 DEF TypeOK, Push
<1>3. ASSUME NEW k \in kind.keys, UserKey(k) PROVE TypeOK'
  <2>1. PICK down \in BOOLEAN :
          /\ keyDown' = Toggled(keyDown, k, down)
          /\ Push([type |-> "key", what |-> k, down |-> down])
          /\ UNCHANGED <<padDown, mouseDown>>
    BY <1>3 DEF UserKey
  <2>2. k \in Key /\ [type |-> "key", what |-> k, down |-> down] \in Event
    BY <1>1 DEF Event
  <2>3. keyDown' \subseteq Key
    BY <2>1, <2>2 DEF Toggled, TypeOK
  <2> QED
    BY <1>2, <2>1, <2>2, <2>3 DEF TypeOK, sdlVars, hostVars
<1>4. ASSUME NEW p \in kind.pads, UserPad(p) PROVE TypeOK'
  <2> DEFINE down == p \notin padDown
  <2>1. /\ padDown' = Toggled(padDown, p, down)
        /\ Push([type |-> "pad", what |-> p, down |-> down])
        /\ UNCHANGED <<keyDown, mouseDown>>
    BY <1>4 DEF UserPad
  <2>2. p \in Pad /\ down \in BOOLEAN
    BY <1>1
  <2> HIDE DEF down
  <2>3. [type |-> "pad", what |-> p, down |-> down] \in Event
    BY <2>2 DEF Event
  <2>4. padDown' \subseteq Pad
    BY <2>1, <2>2 DEF Toggled, TypeOK
  <2> QED
    BY <1>2, <2>1, <2>3, <2>4 DEF TypeOK, sdlVars, hostVars
<1>5. ASSUME NEW b \in kind.buttons, UserMouse(b) PROVE TypeOK'
  <2> DEFINE down == b \notin mouseDown
  <2>1. /\ mouseDown' = Toggled(mouseDown, b, down)
        /\ Push([type |-> "mouse", what |-> b, down |-> down])
        /\ UNCHANGED <<keyDown, padDown>>
    BY <1>5 DEF UserMouse
  <2>2. b \in MouseButton /\ down \in BOOLEAN
    BY <1>1
  <2> HIDE DEF down
  <2>3. [type |-> "mouse", what |-> b, down |-> down] \in Event
    BY <2>2 DEF Event
  <2>4. mouseDown' \subseteq MouseButton
    BY <2>1, <2>2 DEF Toggled, TypeOK
  <2> QED
    BY <1>2, <2>1, <2>3, <2>4 DEF TypeOK, sdlVars, hostVars
<1> QED
  BY <1>3, <1>4, <1>5 DEF User

(* Any entry of gamepads[] is within it.                                   *)
LEMMA FirstSlot ==
    ASSUME NEW S \in SUBSET Slot, S # {}
    PROVE  First(S) \in S /\ \A k \in S : First(S) <= k
<1>1. S \in SUBSET Nat
  BY SdlAssumption DEF Slot
<1>2. PICK i \in S : \A y \in S : ~ (<<y, i>> \in OpToRel(<, Nat))
  BY <1>1, WFMin, NatLessThanWellFounded
<1>3. ASSUME NEW k \in S PROVE i <= k
  <2>1. ~ (<<k, i>> \in OpToRel(<, Nat))
    BY <1>2
  <2>2. ~ (k < i)
    BY <1>1, <2>1 DEF OpToRel
  <2> QED
    BY <1>1, <2>2
<1>4. \E m \in S : \A k \in S : m <= k
  BY <1>3
<1> QED
  BY <1>4 DEF First

LEMMA PadSlot ==
    ASSUME TypeOK, NEW p \in Pad
    PROVE  GetGamepad(p) \in Slot
<1> DEFINE fits == Free \cup {i \in Slot : gamepads[i].sdl_id = p}
<1>1. 0 \in Slot
  BY SdlAssumption DEF Slot
<1>2. fits \in SUBSET Slot
  BY DEF Free
<1> HIDE DEF fits
<1>3. fits # {} => First(fits) \in Slot
  BY <1>2, FirstSlot
<1>4. GetGamepad(p) = IF fits # {} THEN First(fits) ELSE 0
  BY DEF GetGamepad, fits
<1> QED
  BY <1>1, <1>3, <1>4


LEMMA TypeHandle ==
    ASSUME TypeOK, Handle
    PROVE  TypeOK'
<1>1. ASSUME NEW ev, Waits(ev)
      PROVE  queue' \in Seq(Event) /\ UNCHANGED devices
  BY <1>1 DEF Waits, TypeOK
<1>2. CASE OnPad
  <2>1. PICK p \in Pad, down \in BOOLEAN :
          LET i == GetGamepad(p) IN
            /\ Waits([type |-> "pad", what |-> p, down |-> down])
            /\ gamepads' = [gamepads EXCEPT
                 ![i].button = down,
                 ![i].sdl_id = IF gamepads[i].initialized THEN @ ELSE p,
                 ![i].initialized = TRUE]
            /\ hostPads' = [hostPads EXCEPT ![i] = down]
            /\ UNCHANGED <<keyboard_modifiers, sdlVars, hostKeys, hostMouse>>
    BY <1>2 DEF OnPad
  <2>2. queue' \in Seq(Event) /\ UNCHANGED devices
    BY <1>1, <2>1
  <2>3. GetGamepad(p) \in Slot /\ p \in Nat
    BY PadSlot, SdlAssumption
  <2> DEFINE i == GetGamepad(p)
             pressed == [gamepads EXCEPT ![i].button = down]
             named == [pressed EXCEPT ![i].sdl_id =
                         IF gamepads[i].initialized THEN @ ELSE p]
  <2>4. gamepads \in [Slot -> Gamepad] /\ hostPads \in [Slot -> BOOLEAN] /\ i \in Slot
    BY <2>3 DEF TypeOK
  <2>5. pressed \in [Slot -> Gamepad]
    BY <2>4 DEF Gamepad
  <2>6. named \in [Slot -> Gamepad]
    <3> HIDE DEF pressed, i
    <3> QED
      BY <2>3, <2>4, <2>5 DEF Gamepad
  <2>7. gamepads' = [named EXCEPT ![i].initialized = TRUE]
    BY <2>1
  <2>8. hostPads' = [hostPads EXCEPT ![i] = down]
    BY <2>1
  <2> HIDE DEF i, named
  <2>9. gamepads' \in [Slot -> Gamepad] /\ hostPads' \in [Slot -> BOOLEAN]
    BY <2>4, <2>6, <2>7, <2>8 DEF Gamepad
  <2> QED
    BY <2>1, <2>2, <2>9 DEF TypeOK, devices, sdlVars
<1>3. CASE OnMouse
  <2>1. PICK b \in MouseButton, down \in BOOLEAN :
          /\ Waits([type |-> "mouse", what |-> b, down |-> down])
          /\ hostMouse' = IF b = "left" THEN Toggled(hostMouse, b, down) ELSE hostMouse
          /\ grabbed' = TRUE
          /\ UNCHANGED <<keyboard_modifiers, gamepads, fullscreen, done, hostKeys, hostPads>>
    BY <1>3 DEF OnMouse
  <2>2. queue' \in Seq(Event) /\ UNCHANGED devices
    BY <1>1, <2>1
  <2>3. hostMouse' \subseteq {"left"} /\ grabbed' \in BOOLEAN
    BY <2>1 DEF TypeOK, Toggled
  <2> QED
    BY <2>1, <2>2, <2>3 DEF TypeOK, devices
<1>4. CASE OnKey
  <2>1. PICK k \in Key, down \in BOOLEAN :
          /\ Waits([type |-> "key", what |-> k, down |-> down])
          /\ keyboard_modifiers' = IF ModOf[k] = "none" THEN keyboard_modifiers
                                   ELSE Toggled(keyboard_modifiers, ModOf[k], down)
          /\ hostKeys' \in {hostKeys, Toggled(hostKeys, k, down)}
          /\ done' \in BOOLEAN /\ fullscreen' \in BOOLEAN /\ grabbed' \in BOOLEAN
          /\ UNCHANGED <<gamepads, hostPads, hostMouse>>
    <3>1. fullscreen \in BOOLEAN /\ grabbed \in BOOLEAN
      BY DEF TypeOK
    <3> QED
      BY <1>4, <3>1, Zenon DEF OnKey
  <2>2. queue' \in Seq(Event) /\ UNCHANGED devices
    BY <1>1, <2>1
  <2>3. keyboard_modifiers' \subseteq Modifier /\ hostKeys' \subseteq Key
    BY <2>1, SdlAssumption DEF TypeOK, Toggled
  <2> QED
    BY <2>1, <2>2, <2>3 DEF TypeOK, devices
<1> QED
  BY <1>2, <1>3, <1>4 DEF Handle


LEMMA TypeNext == TypeOK /\ [ClientNext]_clientVars => TypeOK'
<1>1. CASE UNCHANGED clientVars
  BY <1>1 DEF clientVars, inputOnly, TypeOK
<1> QED
  BY <1>1, TypeVideo, TypeUser, TypeHandle DEF ClientNext, UserStep, InputStep

LEMMA TypeInit == Init => TypeOK
<1> SUFFICES ASSUME Init PROVE TypeOK
  OBVIOUS
<1>1. queue \in Seq(Event)
  BY DEF Init
<1>2. gamepads \in [Slot -> Gamepad]
  BY DEF Init, Gamepad
<1>3. hostPads \in [Slot -> BOOLEAN]
  BY DEF Init
<1> QED
  BY <1>1, <1>2, <1>3 DEF Init, TypeOK

----------------------------------------------------------------------------
(* The modifiers.  Unless its last event is still to come, a modifier that *)
(* is down at the host is down.                                            *)
KeySettled(k) ==
    \/ LastSays(queue, "key", k, keyDown)
    \/ NoneOf(queue, "key", k) /\ (k \in hostKeys => k \in keyDown)

KeyInv == ~done => \A k \in Key : ModOf[k] # "none" => KeySettled(k)

(* Whatever others put into the queue or take from it changes nothing.     *)
LEMMA OtherAppended ==
    ASSUME TypeOK, NEW ev \in Event, queue' = Append(queue, ev), NEW type, NEW x, NEW set,
           ~About(ev, type, x)
    PROVE  /\ NoneOf(queue, type, x) => NoneOf(queue', type, x)
           /\ LastSays(queue, type, x, set) => LastSays(queue', type, x, set)
<1>1. queue \in Seq(Event)
  BY DEF TypeOK
<1> QED
  BY <1>1, AppendLast, Zenon

LEMMA OtherTaken ==
    ASSUME TypeOK, queue # <<>>, queue' = Tail(queue), NEW type, NEW x, NEW set,
           ~About(Head(queue), type, x)
    PROVE  /\ NoneOf(queue, type, x) => NoneOf(queue', type, x)
           /\ LastSays(queue, type, x, set) => LastSays(queue', type, x, set)
<1>1. queue \in Seq(Event)
  BY DEF TypeOK
<1> QED
  BY <1>1, TailLast, Zenon

(* So does the video, of which no event is of a key or a pad.              *)
LEMMA VideoSettles ==
    ASSUME TypeOK, VideoQueue, ~done, NEW type \in {"key", "pad"}, NEW x, NEW set
    PROVE  /\ NoneOf(queue, type, x) => NoneOf(queue', type, x)
           /\ LastSays(queue, type, x, set) => LastSays(queue', type, x, set)
<1>1. CASE queue' = queue
  BY <1>1, Zenon
<1>2. ASSUME NEW t \in {"frame", "close"}, queue' = Append(queue, [type |-> t])
      PROVE  /\ NoneOf(queue, type, x) => NoneOf(queue', type, x)
             /\ LastSays(queue, type, x, set) => LastSays(queue', type, x, set)
  <2>1. [type |-> t] \in Event /\ ~About([type |-> t], type, x)
    BY DEF Event, About
  <2> QED
    BY <1>2, <2>1, OtherAppended
<1>3. CASE queue # <<>> /\ Head(queue).type \in {"frame", "close"} /\ queue' = Tail(queue)
  <2>1. ~About(Head(queue), type, x)
    BY <1>3 DEF About
  <2> QED
    BY <1>3, <2>1, OtherTaken
<1> QED
  BY <1>1, <1>2, <1>3 DEF VideoQueue


LEMMA SaysOfSame ==
    ASSUME NEW q, NEW type, NEW x, NEW set, NEW set2, x \in set <=> x \in set2
    PROVE  LastSays(q, type, x, set) => LastSays(q, type, x, set2)
BY DEF LastSays

(* What the user does with a key or a pad is the last that is said of it;  *)
(* of what he leaves alone, the same is still to come.                     *)
LEMMA UserSays ==
    ASSUME TypeOK, NEW type, NEW y, NEW down \in BOOLEAN,
           [type |-> type, what |-> y, down |-> down] \in Event,
           Push([type |-> type, what |-> y, down |-> down])
    PROVE  /\ \A set : (down <=> y \in set) => LastSays(queue', type, y, set)
           /\ \A t, x, set : (t # type \/ x # y) =>
                /\ NoneOf(queue, t, x) => NoneOf(queue', t, x)
                /\ LastSays(queue, t, x, set) => LastSays(queue', t, x, set)
<1> DEFINE ev == [type |-> type, what |-> y, down |-> down]
<1>1. ev \in Event /\ ev.type = type /\ ev.what = y /\ (ev.down <=> down)
  OBVIOUS
<1>2. queue \in Seq(Event) /\ queue' = Append(queue, ev)
  BY DEF TypeOK, Push
<1> HIDE DEF ev
<1>3. ASSUME NEW set, down <=> y \in set PROVE LastSays(queue', type, y, set)
  BY <1>1, <1>2, <1>3, AppendLast DEF About
<1>4. ASSUME NEW t, NEW x, NEW set, t # type \/ x # y
      PROVE  /\ NoneOf(queue, t, x) => NoneOf(queue', t, x)
             /\ LastSays(queue, t, x, set) => LastSays(queue', t, x, set)
  <2>1. ~About(ev, t, x)
    BY <1>1, <1>4 DEF About
  <2> QED
    BY <1>1, <1>2, <2>1, OtherAppended
<1> QED
  BY <1>3, <1>4

(* What the loop takes: the last of its key or pad, or not.                *)
LEMMA LoopTakes ==
    ASSUME TypeOK, NEW type, NEW y, NEW down,
           Waits([type |-> type, what |-> y, down |-> down])
    PROVE  /\ ~NoneOf(queue, type, y)
           /\ \A set : LastSays(queue, type, y, set) =>
                 LastSays(queue', type, y, set)
                   \/ (NoneOf(queue', type, y) /\ (down <=> y \in set))
           /\ \A t, x, set : (t # type \/ x # y) =>
                /\ NoneOf(queue, t, x) => NoneOf(queue', t, x)
                /\ LastSays(queue, t, x, set) => LastSays(queue', t, x, set)
<1> DEFINE ev == [type |-> type, what |-> y, down |-> down]
<1>1. ev.type = type /\ ev.what = y /\ (ev.down <=> down)
  OBVIOUS
<1>2. queue \in Seq(Event) /\ queue # <<>> /\ Head(queue) = ev /\ queue' = Tail(queue)
  BY DEF TypeOK, Waits
<1> HIDE DEF ev
<1>3. ~NoneOf(queue, type, y)
  <2>1. 1 \in DOMAIN queue /\ queue[1] = ev
    BY <1>2
  <2> QED
    BY <1>1, <2>1 DEF NoneOf, About
<1>4. ASSUME NEW set, LastSays(queue, type, y, set)
      PROVE  LastSays(queue', type, y, set)
                   \/ (NoneOf(queue', type, y) /\ (down <=> y \in set))
  BY <1>1, <1>2, <1>4, TailLast DEF About
<1>5. ASSUME NEW t, NEW x, NEW set, t # type \/ x # y
      PROVE  /\ NoneOf(queue, t, x) => NoneOf(queue', t, x)
             /\ LastSays(queue, t, x, set) => LastSays(queue', t, x, set)
  <2>1. ~About(ev, t, x)
    BY <1>1, <1>5 DEF About
  <2> QED
    BY <1>2, <2>1, OtherTaken
<1> QED
  BY <1>3, <1>4, <1>5


LEMMA KeyUser ==
    ASSUME TypeOK, User, NEW k \in Key, KeySettled(k)
    PROVE  KeySettled(k)'
<1>1. /\ kind.keys \in SUBSET Key /\ kind.pads \in SUBSET Pad
      /\ kind.buttons \in SUBSET MouseButton
  BY SdlAssumption DEF TypeOK, Kind
<1>2. ASSUME NEW y \in kind.keys, UserKey(y) PROVE KeySettled(k)'
  <2>1. PICK down \in BOOLEAN :
          /\ keyDown' = Toggled(keyDown, y, down) /\ hostKeys' = hostKeys
          /\ Push([type |-> "key", what |-> y, down |-> down])
    BY <1>2 DEF UserKey, Push, hostVars
  <2>2. [type |-> "key", what |-> y, down |-> down] \in Event
    BY <1>1 DEF Event
  <2>3. (down <=> y \in keyDown') /\ \A x : x # y => (x \in keyDown' <=> x \in keyDown)
    BY <2>1 DEF Toggled
  <2>4. CASE k = y
    BY <2>1, <2>2, <2>3, <2>4, UserSays DEF KeySettled
  <2>5. CASE k # y
    <3>1. /\ NoneOf(queue, "key", k) => NoneOf(queue', "key", k)
          /\ LastSays(queue, "key", k, keyDown) => LastSays(queue', "key", k, keyDown)
      BY <2>1, <2>2, <2>5, UserSays
    <3>2. LastSays(queue', "key", k, keyDown) => LastSays(queue', "key", k, keyDown')
      BY <2>3, <2>5, SaysOfSame
    <3> QED
      BY <2>1, <2>3, <2>5, <3>1, <3>2 DEF KeySettled
  <2> QED
    BY <2>4, <2>5
<1>3. ASSUME NEW type \in {"pad", "mouse"}, NEW y, NEW down \in BOOLEAN,
             [type |-> type, what |-> y, down |-> down] \in Event,
             Push([type |-> type, what |-> y, down |-> down]), UNCHANGED keyDown
      PROVE  KeySettled(k)'
  <2>1. /\ NoneOf(queue, "key", k) => NoneOf(queue', "key", k)
        /\ LastSays(queue, "key", k, keyDown) => LastSays(queue', "key", k, keyDown)
    BY <1>3, UserSays
  <2>2. hostKeys' = hostKeys
    BY <1>3 DEF Push, hostVars
  <2> QED
    BY <1>3, <2>1, <2>2 DEF KeySettled
<1>4. ASSUME NEW p \in kind.pads, UserPad(p) PROVE KeySettled(k)'
  <2> DEFINE down == p \notin padDown
  <2>1. /\ Push([type |-> "pad", what |-> p, down |-> down])
        /\ UNCHANGED keyDown /\ p \in Pad /\ down \in BOOLEAN
    BY <1>1, <1>4 DEF UserPad
  <2> HIDE DEF down
  <2>2. [type |-> "pad", what |-> p, down |-> down] \in Event
    BY <2>1 DEF Event
  <2> QED
    BY <1>3, <2>1, <2>2
<1>5. ASSUME NEW b \in kind.buttons, UserMouse(b) PROVE KeySettled(k)'
  <2> DEFINE down == b \notin mouseDown
  <2>1. /\ Push([type |-> "mouse", what |-> b, down |-> down])
        /\ UNCHANGED keyDown /\ b \in MouseButton /\ down \in BOOLEAN
    BY <1>1, <1>5 DEF UserMouse
  <2> HIDE DEF down
  <2>2. [type |-> "mouse", what |-> b, down |-> down] \in Event
    BY <2>1 DEF Event
  <2> QED
    BY <1>3, <2>1, <2>2
<1> QED
  BY <1>2, <1>4, <1>5 DEF User

(* The release of a modifier leaves not all of them down, and is sent.     *)
LEMMA KeyHandle ==
    ASSUME TypeOK, Handle, NEW k \in Key, ModOf[k] # "none", KeySettled(k)
    PROVE  KeySettled(k)'
<1>1. keyDown' = keyDown
  BY DEF Handle, OnPad, OnMouse, OnKey, Waits, devices
<1>2. ASSUME NEW type \in {"pad", "mouse"}, NEW y, NEW down,
             Waits([type |-> type, what |-> y, down |-> down]), UNCHANGED hostKeys
      PROVE  KeySettled(k)'
  <2>1. /\ NoneOf(queue, "key", k) => NoneOf(queue', "key", k)
        /\ LastSays(queue, "key", k, keyDown) => LastSays(queue', "key", k, keyDown)
    BY <1>2, LoopTakes
  <2> QED
    BY <1>1, <1>2, <2>1 DEF KeySettled
<1>3. CASE OnPad
  BY <1>2, <1>3 DEF OnPad
<1>4. CASE OnMouse
  BY <1>2, <1>4 DEF OnMouse
<1>5. CASE OnKey
  <2>1. PICK y \in Key, down \in BOOLEAN :
          /\ Waits([type |-> "key", what |-> y, down |-> down])
          /\ hostKeys' = IF ActionOf(ModifiersAfter(y, down), y, down) = "SDL_NOTHING"
                         THEN Toggled(hostKeys, y, down) ELSE hostKeys
    BY <1>5, Zenon DEF OnKey
  <2>2. CASE y # k
    <3>1. /\ NoneOf(queue, "key", k) => NoneOf(queue', "key", k)
          /\ LastSays(queue, "key", k, keyDown) => LastSays(queue', "key", k, keyDown)
      BY <2>1, <2>2, LoopTakes
    <3>2. k \in hostKeys' <=> k \in hostKeys
      BY <2>1, <2>2 DEF Toggled
    <3> QED
      BY <1>1, <3>1, <3>2 DEF KeySettled
  <2>3. CASE y = k
    <3>1. LastSays(queue, "key", k, keyDown)
      BY <2>1, <2>3, LoopTakes DEF KeySettled
    <3>2. \/ LastSays(queue', "key", k, keyDown)
          \/ NoneOf(queue', "key", k) /\ (down <=> k \in keyDown)
      BY <2>1, <2>3, <3>1, LoopTakes
    <3>3. ASSUME ~down PROVE k \notin hostKeys'
      <4>1. ModOf[k] \in Modifier
        BY SdlAssumption
      <4>2. ModifiersAfter(k, down) # ACTION_MODIFIERS
        BY <3>3, <4>1 DEF ModifiersAfter, Toggled, ACTION_MODIFIERS
      <4>3. ActionOf(ModifiersAfter(k, down), k, down) = "SDL_NOTHING"
        BY <4>2 DEF ActionOf
      <4> QED
        BY <2>1, <2>3, <3>3, <4>3 DEF Toggled
    <3> QED
      BY <1>1, <3>2, <3>3 DEF KeySettled
  <2> QED
    BY <2>2, <2>3
<1> QED
  BY <1>3, <1>4, <1>5 DEF Handle

LEMMA KeyNext == TypeOK /\ KeyInv /\ [ClientNext]_clientVars => KeyInv'
<1> SUFFICES ASSUME TypeOK, KeyInv, [ClientNext]_clientVars, ~done',
                    NEW k \in Key, ModOf[k] # "none"
             PROVE  KeySettled(k)'
  BY DEF KeyInv
<1>1. CASE UserStep
  <2>1. ~done
    BY <1>1 DEF UserStep, User, UserKey, UserPad, UserMouse, Push
  <2> QED
    BY <1>1, <2>1, KeyUser DEF UserStep, KeyInv
<1>2. CASE InputStep
  <2>1. ~done
    BY <1>2 DEF InputStep, Handle, OnPad, OnMouse, OnKey, Waits
  <2> QED
    BY <1>2, <2>1, KeyHandle DEF InputStep, KeyInv
<1>3. CASE VideoStep
  <2>0. VideoQueue /\ (done' = done \/ done' = TRUE) /\ UNCHANGED inputOnly
    BY <1>3, VideoEffect
  <2>1. VideoQueue /\ ~done /\ UNCHANGED inputOnly
    BY <2>0
  <2>2. /\ NoneOf(queue, "key", k) => NoneOf(queue', "key", k)
        /\ LastSays(queue, "key", k, keyDown) => LastSays(queue', "key", k, keyDown)
    BY <2>1, VideoSettles
  <2> QED
    BY <2>1, <2>2 DEF KeySettled, KeyInv, inputOnly
<1>4. CASE UNCHANGED clientVars
  BY <1>4 DEF clientVars, inputOnly, KeySettled, KeyInv
<1> QED
  BY <1>1, <1>2, <1>3, <1>4 DEF ClientNext

(* A queue that is empty has nothing to say.                               *)
LEMMA NothingQueued ==
    ASSUME queue = <<>>, NEW type, NEW x
    PROVE  NoneOf(queue, type, x) /\ \A set : ~LastSays(queue, type, x, set)
BY DEF NoneOf, LastSays

(* sdlinput_handle_event: no modifier stays down at the host, whichever    *)
(* keys are held together and whatever comes between them.                 *)
THEOREM ModifiersReleased == ClientSpec => []NoStuckModifier
<1>1. ClientInit => TypeOK /\ KeyInv
  <2> SUFFICES ASSUME ClientInit PROVE TypeOK /\ KeyInv
    OBVIOUS
  <2>1. TypeOK
    BY TypeInit DEF ClientInit
  <2>2. queue = <<>> /\ hostKeys = {}
    BY DEF ClientInit, Init
  <2>3. KeyInv
    BY <2>2, NothingQueued DEF KeyInv, KeySettled
  <2> QED
    BY <2>1, <2>3
<1>2. TypeOK /\ KeyInv => NoStuckModifier
  <2> SUFFICES ASSUME TypeOK, KeyInv, CaughtUp, NEW k \in hostKeys, ModOf[k] # "none"
               PROVE  k \in keyDown
    BY DEF NoStuckModifier
  <2>1. k \in Key /\ ~done /\ queue = <<>>
    BY DEF TypeOK, CaughtUp
  <2>2. KeySettled(k)
    BY <2>1 DEF KeyInv
  <2> QED
    BY <2>1, <2>2, NothingQueued DEF KeySettled
<1> QED
  BY <1>1, <1>2, TypeNext, KeyNext, PTL DEF ClientSpec

----------------------------------------------------------------------------
(* The controllers.  Entries are taken in their order, each by one         *)
(* controller; while one is left, a controller that has nothing more to    *)
(* say is shown by its entry.                                              *)
InOrder ==
    \A i, j \in Slot : gamepads[j].initialized =>
      /\ ~gamepads[i].initialized => j < i
      /\ gamepads[i].initialized /\ gamepads[i].sdl_id = gamepads[j].sdl_id => i = j

PadSettled(p) ==
    \/ LastSays(queue, "pad", p, padDown)
    \/ /\ NoneOf(queue, "pad", p)
       /\ \A i \in EntriesOf(p) : hostPads[i] = (p \in padDown)
       /\ p \in padDown => EntriesOf(p) # {}

PadInv == InOrder /\ ((~done /\ Free # {}) => \A p \in Pad : PadSettled(p))

(* get_gamepad while an entry is left: the controller's own if it has one, *)
(* else the first that is left.                                            *)
LEMMA OwnSlot ==
    ASSUME TypeOK, InOrder, Free # {}, NEW p \in Pad
    PROVE  LET i == GetGamepad(p) IN
             /\ i \in Slot /\ (i \in Free \/ i \in EntriesOf(p))
             /\ i \in Free => EntriesOf(p) = {} /\ \A j \in Free : i <= j
             /\ i \in EntriesOf(p) => EntriesOf(p) = {i}
<1> DEFINE fits == Free \cup {i \in Slot : gamepads[i].sdl_id = p}
           i == GetGamepad(p)
<1>0. Slot \subseteq Nat
  BY SdlAssumption DEF Slot
<1>1. fits \in SUBSET Slot /\ fits # {} /\ i = First(fits)
  BY DEF Free, GetGamepad
<1>2. Free \subseteq fits /\ EntriesOf(p) \subseteq fits
      /\ \A j \in fits : j \in Slot /\ (j \in Free \/ j \in EntriesOf(p))
  BY DEF EntriesOf, Free
<1> HIDE DEF fits
<1>3. i \in fits /\ \A k \in fits : i <= k
  BY <1>1, FirstSlot
<1> HIDE DEF i
<1>4. ASSUME i \in Free PROVE EntriesOf(p) = {}
  <2>1. ASSUME NEW j \in EntriesOf(p) PROVE FALSE
    <3>1. j \in Slot /\ i \in Slot /\ j < i
      BY <1>4, <2>1 DEF InOrder, EntriesOf, Free
    <3>2. i <= j
      BY <1>2, <1>3, <2>1
    <3> QED
      BY <1>0, <3>1, <3>2
  <2> QED
    BY <2>1
<1>5. ASSUME i \in EntriesOf(p) PROVE EntriesOf(p) = {i}
  BY <1>5 DEF InOrder, EntriesOf
<1> QED
  BY <1>2, <1>3, <1>4, <1>5 DEF i

(* What it does to the entries.                                            *)
TakesSlot(p, i, down) ==
    /\ gamepads' = [gamepads EXCEPT
         ![i].button = down,
         ![i].sdl_id = IF gamepads[i].initialized THEN @ ELSE p,
         ![i].initialized = TRUE]
    /\ hostPads' = [hostPads EXCEPT ![i] = down]

LEMMA SlotFields ==
    ASSUME TypeOK, NEW p \in Pad, NEW i \in Slot, NEW down \in BOOLEAN,
           TakesSlot(p, i, down)
    PROVE  \A j \in Slot :
             /\ gamepads'[j].initialized = (j = i \/ gamepads[j].initialized)
             /\ gamepads'[j].sdl_id = IF j = i /\ ~gamepads[i].initialized THEN p
                                      ELSE gamepads[j].sdl_id
             /\ hostPads'[j] = IF j = i THEN down ELSE hostPads[j]
<1> SUFFICES ASSUME NEW j \in Slot
             PROVE  /\ gamepads'[j].initialized = (j = i \/ gamepads[j].initialized)
                    /\ gamepads'[j].sdl_id = IF j = i /\ ~gamepads[i].initialized THEN p
                                             ELSE gamepads[j].sdl_id
                    /\ hostPads'[j] = IF j = i THEN down ELSE hostPads[j]
  OBVIOUS
<1>1. gamepads \in [Slot -> Gamepad] /\ hostPads \in [Slot -> BOOLEAN]
  BY DEF TypeOK
<1>2. gamepads[j].initialized \in BOOLEAN
  BY <1>1 DEF Gamepad
<1>3. CASE j = i
  BY <1>1, <1>2, <1>3 DEF TakesSlot, Gamepad
<1>4. CASE j # i
  BY <1>1, <1>2, <1>4 DEF TakesSlot
<1> QED
  BY <1>3, <1>4

LEMMA EntriesAfter ==
    ASSUME TypeOK, InOrder, NEW p \in Pad, NEW down \in BOOLEAN,
           TakesSlot(p, GetGamepad(p), down)
    PROVE  /\ InOrder' /\ (Free' # {} => Free # {})
           /\ Free # {} =>
                /\ EntriesOf(p)' = {GetGamepad(p)}
                /\ \A x \in Pad : x # p =>
                     EntriesOf(x)' = EntriesOf(x) /\ GetGamepad(p) \notin EntriesOf(x)
<1> DEFINE i == GetGamepad(p)
<1>0. Slot \subseteq Nat /\ i \in Slot
  BY PadSlot, SdlAssumption DEF Slot
<1>1. TakesSlot(p, i, down)
  OBVIOUS
<1>2. Free # {} =>
             /\ i \in Free \/ i \in EntriesOf(p)
             /\ i \in Free => EntriesOf(p) = {} /\ \A j \in Free : i <= j
             /\ i \in EntriesOf(p) => EntriesOf(p) = {i}
  BY OwnSlot
<1> HIDE DEF i
<1>3. \A j \in Slot :
        /\ gamepads'[j].initialized = (j = i \/ gamepads[j].initialized)
        /\ gamepads'[j].sdl_id = IF j = i /\ ~gamepads[i].initialized THEN p
                                 ELSE gamepads[j].sdl_id
  BY <1>0, <1>1, SlotFields
<1>4. Free' = Free \ {i}
  BY <1>3 DEF Free
<1>5. InOrder'
  <2>1. CASE Free = {}
    <3>1. \A j \in Slot : gamepads[j].initialized /\ gamepads'[j].initialized
                          /\ gamepads'[j].sdl_id = gamepads[j].sdl_id
      BY <1>0, <1>3, <2>1 DEF Free
    <3> QED
      BY <3>1 DEF InOrder
  <2>2. CASE i \in EntriesOf(p)
    <3>1. \A j \in Slot : gamepads'[j].initialized = gamepads[j].initialized
                          /\ gamepads'[j].sdl_id = gamepads[j].sdl_id
      <4>1. gamepads \in [Slot -> Gamepad] /\ gamepads[i].initialized
        BY <2>2 DEF TypeOK, EntriesOf
      <4>2. \A j \in Slot : gamepads[j].initialized \in BOOLEAN
        BY <4>1 DEF Gamepad
      <4> QED
        BY <1>3, <4>1, <4>2
    <3> QED
      BY <3>1 DEF InOrder
  <2>3. CASE i \in Free
    <3>1. EntriesOf(p) = {} /\ \A j \in Free : i <= j
      BY <1>2, <2>3
    <3>2. ASSUME NEW a \in Slot, NEW b \in Slot, gamepads'[b].initialized,
                 ~gamepads'[a].initialized
          PROVE  b < a
      <4>1. a # i /\ a \in Free /\ i <= a /\ (b = i \/ gamepads[b].initialized)
        BY <1>3, <3>1, <3>2 DEF Free
      <4>2. CASE b = i
        BY <1>0, <4>1, <4>2
      <4>3. CASE b # i
        BY <4>1, <4>3 DEF InOrder, Free
      <4> QED
        BY <4>2, <4>3
    <3>3. ASSUME NEW a \in Slot, NEW b \in Slot, gamepads'[b].initialized,
                 gamepads'[a].initialized, gamepads'[a].sdl_id = gamepads'[b].sdl_id
          PROVE  a = b
      <4>1. \A j \in Slot : gamepads[j].initialized => gamepads[j].sdl_id # p
        BY <3>1 DEF EntriesOf
      <4>2. ~gamepads[i].initialized /\ gamepads'[i].sdl_id = p
        BY <1>0, <1>3, <2>3 DEF Free
      <4>3. CASE a # i /\ b # i
        BY <1>3, <3>3, <4>3 DEF InOrder
      <4>4. CASE a = i \/ b = i
        BY <1>3, <3>3, <4>1, <4>2, <4>4
      <4> QED
        BY <4>3, <4>4
    <3> QED
      BY <3>2, <3>3 DEF InOrder
  <2> QED
    BY <1>2, <2>1, <2>2, <2>3
<1>6. ASSUME Free # {}
      PROVE  /\ EntriesOf(p)' = {i}
             /\ \A x \in Pad : x # p => EntriesOf(x)' = EntriesOf(x) /\ i \notin EntriesOf(x)
  <2>1. CASE i \in EntriesOf(p)
    <3>1. gamepads[i].initialized /\ gamepads[i].sdl_id = p /\ EntriesOf(p) = {i}
      BY <1>2, <1>6, <2>1 DEF EntriesOf
    <3>2. \A j \in Slot : /\ gamepads'[j].initialized <=> gamepads[j].initialized
                          /\ gamepads'[j].sdl_id = gamepads[j].sdl_id
      BY <1>3, <3>1
    <3>3. \A x \in Pad : EntriesOf(x)' = EntriesOf(x)
      BY <3>2 DEF EntriesOf
    <3> QED
      BY <3>1, <3>3 DEF EntriesOf
  <2>2. CASE i \in Free
    <3>1. ~gamepads[i].initialized /\ gamepads'[i].initialized /\ gamepads'[i].sdl_id = p
          /\ EntriesOf(p) = {}
      BY <1>0, <1>2, <1>3, <1>6, <2>2 DEF Free
    <3>2. \A j \in Slot : j # i =>
            /\ gamepads'[j].initialized <=> gamepads[j].initialized
            /\ gamepads'[j].sdl_id = gamepads[j].sdl_id
      BY <1>3
    <3>3. EntriesOf(p)' = {i}
      BY <1>0, <3>1, <3>2 DEF EntriesOf
    <3>4. ASSUME NEW x \in Pad, x # p
          PROVE  EntriesOf(x)' = EntriesOf(x) /\ i \notin EntriesOf(x)
      BY <3>1, <3>2, <3>4 DEF EntriesOf
    <3> QED
      BY <3>3, <3>4
  <2> QED
    BY <1>2, <1>6, <2>1, <2>2
<1> QED
  BY <1>4, <1>5, <1>6 DEF i

(* Steps that leave the entries alone and put nothing of a controller into *)
(* the queue or take it from there.                                        *)
LEMMA PadAlone ==
    ASSUME NEW p, PadSettled(p), UNCHANGED <<padDown, gamepads, hostPads>>,
           NoneOf(queue, "pad", p) => NoneOf(queue', "pad", p),
           LastSays(queue, "pad", p, padDown) => LastSays(queue', "pad", p, padDown)
    PROVE  PadSettled(p)'
<1>1. EntriesOf(p)' = EntriesOf(p)
  BY DEF EntriesOf
<1> QED
  BY <1>1 DEF PadSettled

LEMMA PadUser ==
    ASSUME TypeOK, User, NEW p \in Pad, PadSettled(p)
    PROVE  PadSettled(p)'
<1>1. /\ kind.keys \in SUBSET Key /\ kind.pads \in SUBSET Pad
      /\ kind.buttons \in SUBSET MouseButton
  BY SdlAssumption DEF TypeOK, Kind
<1>2. ASSUME NEW type \in {"key", "mouse"}, NEW y, NEW down \in BOOLEAN,
             [type |-> type, what |-> y, down |-> down] \in Event,
             Push([type |-> type, what |-> y, down |-> down]), UNCHANGED padDown
      PROVE  PadSettled(p)'
  <2>1. /\ NoneOf(queue, "pad", p) => NoneOf(queue', "pad", p)
        /\ LastSays(queue, "pad", p, padDown) => LastSays(queue', "pad", p, padDown)
    BY <1>2, UserSays
  <2>2. UNCHANGED <<gamepads, hostPads>>
    BY <1>2 DEF Push, hostVars
  <2> QED
    BY <1>2, <2>1, <2>2, PadAlone
<1>3. ASSUME NEW y \in kind.pads, UserPad(y) PROVE PadSettled(p)'
  <2> DEFINE down == y \notin padDown
  <2>1. /\ padDown' = Toggled(padDown, y, down) /\ y \in Pad /\ down \in BOOLEAN
        /\ Push([type |-> "pad", what |-> y, down |-> down])
    BY <1>1, <1>3 DEF UserPad
  <2> HIDE DEF down
  <2>2. [type |-> "pad", what |-> y, down |-> down] \in Event
    BY <2>1 DEF Event
  <2>3. (down <=> y \in padDown') /\ \A x : x # y => (x \in padDown' <=> x \in padDown)
    BY <2>1 DEF Toggled
  <2>4. CASE p = y
    BY <2>1, <2>2, <2>3, <2>4, UserSays DEF PadSettled
  <2>5. CASE p # y
    <3>1. /\ NoneOf(queue, "pad", p) => NoneOf(queue', "pad", p)
          /\ LastSays(queue, "pad", p, padDown) => LastSays(queue', "pad", p, padDown)
      BY <2>1, <2>2, <2>5, UserSays
    <3>2. LastSays(queue', "pad", p, padDown) => LastSays(queue', "pad", p, padDown')
      BY <2>3, <2>5, SaysOfSame
    <3>3. EntriesOf(p)' = EntriesOf(p) /\ hostPads' = hostPads
      BY <2>1 DEF Push, EntriesOf, hostVars
    <3>4. (p \in padDown') = (p \in padDown)
      BY <2>3, <2>5
    <3> QED
      BY <3>1, <3>2, <3>3, <3>4 DEF PadSettled
  <2> QED
    BY <2>4, <2>5
<1>4. ASSUME NEW k \in kind.keys, UserKey(k) PROVE PadSettled(p)'
  <2>1. PICK down \in BOOLEAN :
          Push([type |-> "key", what |-> k, down |-> down]) /\ UNCHANGED padDown
    BY <1>4 DEF UserKey
  <2>2. [type |-> "key", what |-> k, down |-> down] \in Event
    BY <1>1 DEF Event
  <2> QED
    BY <1>2, <2>1, <2>2
<1>5. ASSUME NEW b \in kind.buttons, UserMouse(b) PROVE PadSettled(p)'
  <2> DEFINE down == b \notin mouseDown
  <2>1. /\ Push([type |-> "mouse", what |-> b, down |-> down])
        /\ UNCHANGED padDown /\ b \in MouseButton /\ down \in BOOLEAN
    BY <1>1, <1>5 DEF UserMouse
  <2> HIDE DEF down
  <2>2. [type |-> "mouse", what |-> b, down |-> down] \in Event
    BY <2>1 DEF Event
  <2> QED
    BY <1>2, <2>1, <2>2
<1> QED
  BY <1>3, <1>4, <1>5 DEF User

(* The loop shows what a controller says in its entry, and in no other's.  *)
LEMMA PadHandle ==
    ASSUME TypeOK, Handle, InOrder
    PROVE  /\ InOrder' /\ (Free' # {} => Free # {})
           /\ \A p \in Pad : Free # {} /\ PadSettled(p) => PadSettled(p)'
<1>1. padDown' = padDown
  BY DEF Handle, OnPad, OnMouse, OnKey, Waits, devices
<1>2. ASSUME NEW type \in {"key", "mouse"}, NEW y, NEW down,
             Waits([type |-> type, what |-> y, down |-> down]),
             UNCHANGED <<gamepads, hostPads>>
      PROVE  /\ InOrder' /\ (Free' # {} => Free # {})
             /\ \A p \in Pad : Free # {} /\ PadSettled(p) => PadSettled(p)'
  <2>1. \A p \in Pad :
          /\ NoneOf(queue, "pad", p) => NoneOf(queue', "pad", p)
          /\ LastSays(queue, "pad", p, padDown) => LastSays(queue', "pad", p, padDown)
    BY <1>2, LoopTakes
  <2>2. \A p \in Pad : PadSettled(p) => PadSettled(p)'
    BY <1>1, <1>2, <2>1, PadAlone
  <2>3. InOrder' /\ Free' = Free
    BY <1>2 DEF InOrder, Free
  <2> QED
    BY <2>2, <2>3
<1>3. CASE OnKey
  <2>1. PICK y \in Key, down \in BOOLEAN :
          /\ Waits([type |-> "key", what |-> y, down |-> down])
          /\ UNCHANGED <<gamepads, hostPads, hostMouse>>
    BY <1>3, Zenon DEF OnKey
  <2> QED
    BY <1>2, <2>1
<1>4. CASE OnMouse
  BY <1>2, <1>4 DEF OnMouse
<1>5. CASE OnPad
  <2>1. PICK y \in Pad, down \in BOOLEAN :
          /\ Waits([type |-> "pad", what |-> y, down |-> down])
          /\ TakesSlot(y, GetGamepad(y), down)
    BY <1>5 DEF OnPad, TakesSlot
  <2>2. /\ InOrder' /\ (Free' # {} => Free # {})
        /\ Free # {} =>
             /\ EntriesOf(y)' = {GetGamepad(y)}
             /\ \A x \in Pad : x # y =>
                  EntriesOf(x)' = EntriesOf(x) /\ GetGamepad(y) \notin EntriesOf(x)
    BY <2>1, EntriesAfter
  <2>3. /\ GetGamepad(y) \in Slot
        /\ hostPads'[GetGamepad(y)] = down
        /\ \A j \in Slot : j # GetGamepad(y) => hostPads'[j] = hostPads[j]
    BY <2>1, PadSlot, SlotFields
  <2>4. ASSUME NEW p \in Pad, Free # {}, PadSettled(p) PROVE PadSettled(p)'
    <3>1. CASE p = y
      <4>1. LastSays(queue, "pad", p, padDown)
        BY <2>1, <2>4, <3>1, LoopTakes DEF PadSettled
      <4>2. \/ LastSays(queue', "pad", p, padDown)
            \/ NoneOf(queue', "pad", p) /\ (down <=> p \in padDown)
        BY <2>1, <3>1, <4>1, LoopTakes
      <4>3. /\ EntriesOf(p)' # {} /\ \A i \in EntriesOf(p)' : hostPads'[i] = down
        BY <2>2, <2>3, <2>4, <3>1
      <4>4. down = (p \in padDown) <=> (down <=> p \in padDown)
        BY <2>1
      <4> QED
        BY <1>1, <4>2, <4>3, <4>4 DEF PadSettled
    <3>2. CASE p # y
      <4>1. /\ NoneOf(queue, "pad", p) => NoneOf(queue', "pad", p)
            /\ LastSays(queue, "pad", p, padDown) => LastSays(queue', "pad", p, padDown)
        BY <2>1, <3>2, LoopTakes
      <4>2. EntriesOf(p)' = EntriesOf(p)
            /\ \A i \in EntriesOf(p) : hostPads'[i] = hostPads[i]
        BY <2>2, <2>3, <2>4, <3>2 DEF EntriesOf
      <4> QED
        BY <1>1, <2>4, <4>1, <4>2 DEF PadSettled
    <3> QED
      BY <3>1, <3>2
  <2> QED
    BY <2>2, <2>4
<1> QED
  BY <1>3, <1>4, <1>5 DEF Handle

LEMMA PadNext == TypeOK /\ PadInv /\ [ClientNext]_clientVars => PadInv'
<1> SUFFICES ASSUME TypeOK, PadInv, [ClientNext]_clientVars PROVE PadInv'
  OBVIOUS
<1>1. CASE UserStep
  <2>1. ~done /\ InOrder' /\ Free' = Free
    BY <1>1 DEF UserStep, User, UserKey, UserPad, UserMouse, Push, PadInv, InOrder, Free
  <2> QED
    BY <1>1, <2>1, PadUser DEF UserStep, PadInv
<1>2. CASE InputStep
  <2>1. ~done
    BY <1>2 DEF InputStep, Handle, OnPad, OnMouse, OnKey, Waits
  <2> QED
    BY <1>2, <2>1, PadHandle DEF InputStep, PadInv
<1>3. CASE VideoStep
  <2>1. VideoQueue /\ (done' = done \/ done' = TRUE) /\ UNCHANGED inputOnly
    BY <1>3, VideoEffect
  <2>2. InOrder' /\ Free' = Free
    BY <2>1 DEF PadInv, InOrder, Free, inputOnly
  <2>3. ASSUME ~done', NEW p \in Pad, PadSettled(p) PROVE PadSettled(p)'
    <3>1. ~done /\ UNCHANGED <<padDown, gamepads, hostPads>>
      BY <2>1, <2>3 DEF inputOnly
    <3>2. /\ NoneOf(queue, "pad", p) => NoneOf(queue', "pad", p)
          /\ LastSays(queue, "pad", p, padDown) => LastSays(queue', "pad", p, padDown)
      BY <2>1, <3>1, VideoSettles
    <3> QED
      BY <2>3, <3>1, <3>2, PadAlone
  <2>4. ~done' => ~done
    BY <2>1
  <2> QED
    BY <2>2, <2>3, <2>4 DEF PadInv
<1>4. CASE UNCHANGED clientVars
  <2>1. UNCHANGED <<padDown, gamepads, hostPads, queue, done>>
    BY <1>4 DEF clientVars, inputOnly
  <2> QED
    BY <2>1 DEF PadInv, InOrder, Free, EntriesOf, PadSettled
<1> QED
  BY <1>1, <1>2, <1>3, <1>4 DEF ClientNext

(* get_gamepad and sdlinput_handle_event: as long as gamepads[] has room,  *)
(* any two controllers are two at the host, and each is shown as it is.    *)
THEOREM EachPadItsOwn == ClientSpec => []PadsApart
<1>1. ClientInit => TypeOK /\ PadInv
  <2> SUFFICES ASSUME ClientInit PROVE TypeOK /\ PadInv
    OBVIOUS
  <2>1. TypeOK /\ queue = <<>> /\ padDown = {}
    BY TypeInit DEF ClientInit, Init
  <2>2. \A i \in Slot : ~gamepads[i].initialized
    BY DEF ClientInit, Init
  <2>3. InOrder /\ \A p \in Pad : EntriesOf(p) = {}
    BY <2>2 DEF InOrder, EntriesOf
  <2> QED
    BY <2>1, <2>3, NothingQueued DEF PadInv, PadSettled
<1>2. TypeOK /\ PadInv => PadsApart
  <2> SUFFICES ASSUME TypeOK, PadInv, CaughtUp, Free # {}, NEW p \in Pad
               PROVE  /\ \A i \in EntriesOf(p) : hostPads[i] = (p \in padDown)
                      /\ p \in padDown => EntriesOf(p) # {}
    BY DEF PadsApart
  <2>1. PadSettled(p) /\ queue = <<>>
    BY DEF CaughtUp, PadInv
  <2> QED
    BY <2>1, NothingQueued DEF PadSettled
<1> QED
  BY <1>1, <1>2, TypeNext, PadNext, PTL DEF ClientSpec

==============================================================================
