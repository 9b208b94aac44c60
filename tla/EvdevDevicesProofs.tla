------------------------- MODULE EvdevDevicesProofs -------------------------
(***************************************************************************)
(* Proofs about EvdevDevices for any number of devices, of controller ids  *)
(* and of frames: its types, that the table holds every live handle once,  *)
(* and that controller ids neither leak nor collide.                       *)
(***************************************************************************)
EXTENDS EvdevDevices, TLAPS, WellFoundedInduction

----------------------------------------------------------------------------
(* Lemmas on the helpers.                                                  *)

(* A nonempty set of naturals has a least element.                         *)
LEMMA LeastNat ==
    ASSUME NEW S \in SUBSET Nat, S # {}
    PROVE  \E i \in S : \A k \in S : i <= k
<1>1. PICK i \in S : \A y \in S : ~ (<<y, i>> \in OpToRel(<, Nat))
  BY WFMin, NatLessThanWellFounded
<1>2. ASSUME NEW k \in S PROVE i <= k
  <2>1. ~ (<<k, i>> \in OpToRel(<, Nat))
    BY <1>1
  <2>2. ~ (k < i)
    BY <2>1 DEF OpToRel
  <2> QED
    BY <2>2
<1> QED
  BY <1>2

(* The id evdev_handle_event picks is a valid one; it is free, or 0.       *)
LEMMA NextIdFree ==
    ASSUME NEW assigned \in SUBSET Ids
    PROVE  /\ NextId(assigned) \in Ids
           /\ NextId(assigned) = 0 \/ NextId(assigned) \notin assigned
<1>1. CASE Ids \subseteq assigned
  BY <1>1, NumIdsAssumption DEF NextId, Ids
<1>2. CASE ~(Ids \subseteq assigned)
  <2>1. Ids \ assigned \in SUBSET Nat /\ Ids \ assigned # {}
    BY <1>2, NumIdsAssumption DEF Ids
  <2>2. \E i \in Ids \ assigned : \A k \in Ids \ assigned : i <= k
    BY <2>1, LeastNat
  <2> QED
    BY <1>2, <2>2 DEF NextId
<1> QED
  BY <1>1, <1>2

(* Appending to an array of the program.                                   *)
LEMMA PushType ==
    ASSUME NEW S, NEW n \in Nat, NEW a \in [0 .. n - 1 -> S], NEW x \in S
    PROVE  /\ Push(a, n, x) \in [0 .. n -> S]
           /\ Push(a, n, x)[n] = x
           /\ \A i \in 0 .. n - 1 : Push(a, n, x)[i] = a[i]
BY DEF Push

(* Taking an entry out keeps the others, the last one at the freed index.  *)
LEMMA SwapRemoveType ==
    ASSUME NEW S, NEW n \in Nat, NEW a \in [0 .. n - 1 -> S],
           NEW k \in 0 .. n - 1
    PROVE  /\ SwapRemove(a, n, k) \in [0 .. n - 2 -> S]
           /\ \A i \in 0 .. n - 2 :
                SwapRemove(a, n, k)[i] = IF i = k THEN a[n - 1] ELSE a[i]
BY DEF SwapRemove

----------------------------------------------------------------------------
(* Types.                                                                  *)

(* evdev_create keeps the types of the arrays it extends.                  *)
LEMMA CreateType ==
    ASSUME TypeOK, NEW d \in Device, NEW rest \in SUBSET FdIndex,
           EvdevCreate(d, rest)
    PROVE  /\ numClients' \in Nat /\ numClients <= numClients'
           /\ clientDev' \in [Client' -> Device]
           /\ pending' \in [Client' -> Seq(Event)]
           /\ grabber' \in [Device -> 0 .. numClients']
           /\ numDevices' \in Nat
           /\ devices' \in [Index' -> Entry']
           /\ numFds' \in Nat
           /\ fds' \in [FdIndex' -> -1 .. numClients']
           /\ revents' \in SUBSET FdIndex'
<1>1. CASE plug[d] # "present"
  <2>1. /\ numClients' = numClients /\ clientDev' = clientDev
        /\ pending' = pending /\ grabber' = grabber
        /\ numDevices' = numDevices /\ devices' = devices
        /\ numFds' = numFds /\ fds' = fds /\ revents' = rest
    BY <1>1 DEF EvdevCreate
  <2>2. Client' = Client /\ Index' = Index /\ FdIndex' = FdIndex
    BY <2>1 DEF Client, Index, FdIndex
  <2>3. Entry' = Entry
    BY <2>2 DEF Entry
  <2> QED
    BY <2>1, <2>2, <2>3 DEF TypeOK
<1>2. CASE plug[d] = "present"
  <2> DEFINE c == numClients + 1
  <2>1. /\ numClients' = c
        /\ clientDev' = [k \in 1 .. c |-> IF k = c THEN d ELSE clientDev[k]]
        /\ pending' = [k \in 1 .. c |-> IF k = c THEN <<>> ELSE pending[k]]
        /\ grabber' = GrabNew(d, c)
        /\ numDevices' = numDevices + 1
        /\ devices' = Push(devices, numDevices, NewEntry(c))
        /\ numFds' = numFds + 1
        /\ fds' = Push(fds, numFds, c)
        /\ \E garbage \in Garbage : revents' = rest \cup garbage
    BY <1>2 DEF EvdevCreate, LoopAddFd
  <2>2. numClients' \in Nat /\ numClients <= numClients'
    BY <2>1 DEF TypeOK
  <2>3. clientDev' \in [Client' -> Device] /\ pending' \in [Client' -> Seq(Event)]
    BY <2>1 DEF TypeOK, Client
  <2>4. grabber' \in [Device -> 0 .. numClients']
    BY <2>1 DEF TypeOK, GrabNew
  <2>5. devices \in [0 .. numDevices - 1 -> Entry'] /\ NewEntry(c) \in Entry'
    <3>1. Client \subseteq Client' /\ c \in Client'
      BY <2>1 DEF TypeOK, Client
    <3>2. Entry \subseteq Entry'
      BY <3>1 DEF Entry
    <3>3. NewEntry(c) \in Entry'
      BY <3>1 DEF Entry, NewEntry
    <3> QED
      BY <3>2, <3>3 DEF TypeOK, Index
  <2>6. devices' \in [Index' -> Entry'] /\ numDevices' \in Nat
    <3>1. Push(devices, numDevices, NewEntry(c)) \in [0 .. numDevices -> Entry']
      BY <2>5, PushType DEF TypeOK
    <3> QED
      BY <2>1, <3>1 DEF TypeOK, Index
  <2>7. fds' \in [FdIndex' -> -1 .. numClients'] /\ numFds' \in Nat
    <3>1. fds \in [0 .. numFds - 1 -> -1 .. numClients'] /\ c \in -1 .. numClients'
      BY <2>1 DEF TypeOK, FdIndex
    <3>2. Push(fds, numFds, c) \in [0 .. numFds -> -1 .. numClients']
      BY <3>1, PushType DEF TypeOK
    <3> QED
      BY <2>1, <3>2 DEF TypeOK, FdIndex
  <2>8. revents' \in SUBSET FdIndex'
    <3>1. PICK garbage \in Garbage : revents' = rest \cup garbage
      BY <2>1
    <3>2. FdIndex \subseteq FdIndex' /\ numFds \in FdIndex'
      BY <2>1 DEF TypeOK, FdIndex
    <3> QED
      BY <3>1, <3>2 DEF Garbage
  <2> QED
    BY <2>2, <2>3, <2>4, <2>6, <2>7, <2>8
<1> QED
  BY <1>1, <1>2

(* What one event makes of an entry is an entry.                           *)
LEMMA EventType ==
    ASSUME TypeOK, Serving
    PROVE  /\ Stamped \in [Index -> Entry]
           /\ \A ev \in Event : OnEvent(Stamped[j], ev) \in Entry
<1>1. j \in Index /\ curFd \in Client
  BY DEF TypeOK, Serving, Index, Client
<1>2. devices[j] \in Entry /\ [devices[j] EXCEPT !.fd = curFd] \in Entry
  BY <1>1 DEF TypeOK, Entry
<1>3. Stamped \in [Index -> Entry]
  BY <1>1, <1>2 DEF TypeOK, Stamped
<1>4. NextId(assignedControllerIds) \in Ids
  BY NextIdFree DEF TypeOK
<1>5. Stamped[j] \in Entry
  BY <1>1, <1>3
<1>6. OnSyn(Stamped[j]) \in Entry
  BY <1>4, <1>5 DEF OnSyn, Entry
<1>7. ASSUME NEW ev \in Event PROVE OnEvent(Stamped[j], ev) \in Entry
  BY <1>5, <1>6 DEF OnEvent, Entry, Event
<1> QED
  BY <1>3, <1>7

(* The sets that depend on the lengths of the arrays.                      *)
LEMMA SameSets ==
    /\ UNCHANGED numClients => Client' = Client /\ Entry' = Entry
    /\ UNCHANGED numDevices => Index' = Index
    /\ UNCHANGED numFds => FdIndex' = FdIndex
BY DEF Client, Entry, Index, FdIndex

LEMMA TypeInit == Init => TypeOK
<1> SUFFICES ASSUME Init PROVE TypeOK
  OBVIOUS
<1>1. pending \in [Client -> Seq(Event)] /\ clientDev \in [Client -> Device]
  BY DEF Init, Client
<1>2. devices \in [Index -> Entry] /\ fds \in [FdIndex -> -1 .. numClients]
  BY DEF Init, Index, FdIndex
<1>3. /\ plug \in [Device -> {"absent", "present", "removed"}]
      /\ announced \in SUBSET Device
      /\ grabber \in [Device -> 0 .. numClients]
      /\ emitted \in [Device -> 0 .. MaxFrames]
      /\ udevQueue \in Seq(Message)
  BY MaxFramesAssumption DEF Init
<1>4. /\ assignedControllerIds \in SUBSET Ids /\ revents \in SUBSET FdIndex
      /\ numClients \in Nat /\ numDevices \in Nat /\ numFds \in Nat
      /\ curFd \in 0 .. numClients /\ j \in Nat
  BY DEF Init
<1>5. todo \in [Device -> Nat] /\ autoadd \in BOOLEAN
  <2>1. PICK inputs \in [Device -> 0 .. MaxNamed] :
          todo = inputs /\ autoadd = (\A d \in Device : inputs[d] = 0)
    BY DEF Init
  <2>2. 0 .. MaxNamed \subseteq Nat
    BY MaxNamedAssumption
  <2> QED
    BY <2>1, <2>2
<1>6. /\ pc \in PC /\ pc # "device"
      /\ monitoring \in BOOLEAN /\ sigPending \in BOOLEAN
      /\ grabbingDevices \in BOOLEAN
  BY DEF Init, PC
<1> QED
  BY <1>1, <1>2, <1>3, <1>4, <1>5, <1>6 DEF TypeOK

(* A step of the kernel keeps the types.                                   *)
LEMMA TypeKernel ==
    ASSUME TypeOK, Kernel
    PROVE  TypeOK'
<1>1. UNCHANGED <<tableVars, autoadd, loopVars, pc, todo, curFd, j>>
  BY DEF Kernel
<1>2. UNCHANGED <<clientDev, numClients, grabber>>
  BY DEF Kernel, Plug, Announce, Unplug, Emit, Signal
<1>3. Client' = Client /\ Index' = Index /\ FdIndex' = FdIndex
  BY <1>1, <1>2 DEF Client, Index, FdIndex, tableVars, loopVars
<1>4. Entry' = Entry
  BY <1>3 DEF Entry
<1> SUFFICES /\ plug' \in [Device -> {"absent", "present", "removed"}]
             /\ announced' \in SUBSET Device
             /\ pending' \in [Client -> Seq(Event)]
             /\ emitted' \in [Device -> 0 .. MaxFrames]
             /\ udevQueue' \in Seq(Message)
             /\ monitoring' \in BOOLEAN /\ sigPending' \in BOOLEAN
  BY <1>1, <1>2, <1>3, <1>4 DEF TypeOK, tableVars, loopVars
<1>5. ASSUME NEW m \in Seq(Message), Tell(m) PROVE udevQueue' \in Seq(Message)
  BY <1>5 DEF Tell, TypeOK
<1>6. ASSUME NEW d \in Device, Plug(d) PROVE
        /\ plug' \in [Device -> {"absent", "present", "removed"}]
        /\ UNCHANGED <<announced, pending, emitted, udevQueue, monitoring, sigPending>>
  BY <1>6 DEF Plug, TypeOK
<1>7. ASSUME NEW d \in Device, Announce(d) PROVE
        /\ announced' \in SUBSET Device
        /\ udevQueue' \in Seq(Message)
        /\ UNCHANGED <<plug, pending, emitted, monitoring, sigPending>>
  <2>1. /\ <<<<"add", d>>>> \in Seq(Message)
        /\ <<<<"add", d>>, <<"remove", d>>>> \in Seq(Message)
    BY DEF Message
  <2>2. udevQueue' \in Seq(Message)
    BY <1>5, <1>7, <2>1 DEF Announce
  <2> QED
    BY <1>7, <2>2 DEF Announce, TypeOK
<1>8. ASSUME NEW d \in Device, Unplug(d) PROVE
        /\ plug' \in [Device -> {"absent", "present", "removed"}]
        /\ udevQueue' \in Seq(Message)
        /\ pending' \in [Client -> Seq(Event)]
        /\ UNCHANGED <<announced, emitted, monitoring, sigPending>>
  <2>1. /\ plug' \in [Device -> {"absent", "present", "removed"}]
        /\ pending' \in [Client -> Seq(Event)]
        /\ UNCHANGED <<announced, emitted, monitoring, sigPending>>
    <3>1. [c \in Client |-> IF clientDev[c] = d THEN <<>> ELSE pending[c]]
            \in [Client -> Seq(Event)]
      BY DEF TypeOK
    <3> QED
      BY <1>8, <3>1 DEF Unplug, TypeOK
  <2>2. udevQueue' \in Seq(Message)
    <3>1. <<<<"remove", d>>>> \in Seq(Message) /\ <<>> \in Seq(Message)
      BY DEF Message
    <3> QED
      BY <1>5, <1>8, <3>1 DEF Unplug
  <2> QED
    BY <2>1, <2>2
<1>9. ASSUME NEW d \in Device, Emit(d) PROVE
        /\ pending' \in [Client -> Seq(Event)]
        /\ emitted' \in [Device -> 0 .. MaxFrames]
        /\ UNCHANGED <<plug, announced, udevQueue, monitoring, sigPending>>
  <2>1. \A frame \in Frames : frame \in Seq(Event)
    <3>1. <<"pad", "syn">> \in Seq(Event) /\ <<"quit", "syn">> \in Seq(Event)
      BY DEF Event
    <3> QED
      BY <3>1 DEF Frames
  <2>2. pending' \in [Client -> Seq(Event)]
    BY <1>9, <2>1 DEF Emit, TypeOK
  <2> QED
    BY <1>9, <2>2, MaxFramesAssumption DEF Emit, TypeOK
<1>10. CASE Signal
  BY <1>10 DEF Signal, TypeOK
<1> QED
  BY <1>6, <1>7, <1>8, <1>9, <1>10 DEF Kernel, TypeOK

(* A step of the main thread keeps the types.                              *)
LEMMA TypeMain ==
    ASSUME TypeOK, MainThread
    PROVE  TypeOK'
<1>1. ASSUME CreateNext, pc \in {"inputs", "enumerate"} PROVE TypeOK'
  <2>1. PICK d \in Device : /\ todo[d] > 0
                            /\ todo' = [todo EXCEPT ![d] = @ - 1]
                            /\ EvdevCreate(d, {})
    BY <1>1 DEF CreateNext
  <2>2. todo' \in [Device -> Nat] /\ {} \in SUBSET FdIndex
    BY <2>1 DEF TypeOK
  <2>3. /\ numClients' \in Nat
        /\ clientDev' \in [Client' -> Device]
        /\ pending' \in [Client' -> Seq(Event)]
        /\ grabber' \in [Device -> 0 .. numClients']
        /\ numDevices' \in Nat
        /\ devices' \in [Index' -> Entry']
        /\ numFds' \in Nat
        /\ fds' \in [FdIndex' -> -1 .. numClients']
        /\ revents' \in SUBSET FdIndex'
        /\ numClients <= numClients'
    BY <2>1, <2>2, CreateType
  <2>4. UNCHANGED <<plug, announced, emitted, udevQueue, monitoring, sigPending,
                    assignedControllerIds, grabbingDevices, autoadd, pc, curFd, j>>
    BY <1>1 DEF CreateNext
  <2>5. curFd' \in 0 .. numClients' /\ (pc' = "device" => curFd' # 0)
    BY <2>3, <2>4 DEF TypeOK
  <2> QED
    BY <2>2, <2>3, <2>4, <2>5 DEF TypeOK
<1>2. CASE UdevScan
  <2>1. todo' \in [Device -> Nat]
    BY <1>2 DEF UdevScan
  <2> QED
    BY <1>2, <2>1, SameSets
       DEF UdevScan, TypeOK, kernelVars, tableVars, loopVars, PC
<1>3. ASSUME NEW f \in -1 .. 0, LoopAddFd(f), UNCHANGED <<revents, numClients>>
      PROVE  /\ numFds' \in Nat /\ fds' \in [FdIndex' -> -1 .. numClients']
             /\ revents' \in SUBSET FdIndex'
  <2>1. f \in -1 .. numClients /\ fds \in [0 .. numFds - 1 -> -1 .. numClients]
    BY DEF TypeOK, FdIndex
  <2>2. Push(fds, numFds, f) \in [0 .. numFds -> -1 .. numClients]
    BY <2>1, PushType DEF TypeOK
  <2> QED
    BY <1>3, <2>2 DEF LoopAddFd, TypeOK, FdIndex
<1>4. CASE EnableMonitor
  BY <1>4, <1>3, SameSets DEF EnableMonitor, TypeOK, tableVars, PC, UdevFd
<1>5. CASE EvdevStart
  <2>1. ASSUME NEW d \in Device PROVE GrabAll[d] \in 0 .. numClients
    <3> DEFINE holders == {i \in Index : clientDev[devices[i].fd] = d}
    <3>1. ASSUME holders # {} PROVE
            (CHOOSE i \in holders : \A k \in holders : i <= k) \in Index
      <4>1. \E i \in holders : \A k \in holders : i <= k
        <5>1. holders \in SUBSET Nat
          BY DEF Index, TypeOK
        <5> QED
          BY <3>1, <5>1, LeastNat
      <4> QED
        BY <4>1
    <3>2. \A i \in Index : devices[i].fd \in 0 .. numClients
      BY DEF TypeOK, Entry, Client
    <3> QED
      BY <3>1, <3>2 DEF GrabAll, TypeOK
  <2>2. grabber' \in [Device -> 0 .. numClients]
    BY <1>5, <2>1 DEF EvdevStart, GrabAll
  <2> QED
    BY <1>5, <2>2, SameSets DEF EvdevStart, TypeOK, loopVars, PC
<1>6. CASE LoopEnter
  BY <1>6, <1>3, SameSets DEF LoopEnter, TypeOK, kernelVars, tableVars, PC, SigFd
<1>7. CASE Poll
  BY <1>7, SameSets DEF Poll, TypeOK, kernelVars, tableVars
<1>8. ASSUME NEW i \in FdIndex, UdevHandle(i) PROVE TypeOK'
  <2>1. udevQueue' \in Seq(Message)
        /\ Head(udevQueue)[2] \in Device
    BY <1>8 DEF UdevHandle, TypeOK, Message
  <2>2. revents \ {i} \in SUBSET FdIndex
    BY DEF TypeOK
  <2>3. CASE autoadd /\ Head(udevQueue)[1] = "add"
    <3>1. PICK d \in Device, rest \in SUBSET FdIndex : EvdevCreate(d, rest)
      BY <1>8, <2>1, <2>2, <2>3 DEF UdevHandle
    <3> QED
      <4>1. /\ numClients' \in Nat /\ numClients <= numClients'
            /\ clientDev' \in [Client' -> Device]
            /\ pending' \in [Client' -> Seq(Event)]
            /\ grabber' \in [Device -> 0 .. numClients']
            /\ numDevices' \in Nat
            /\ devices' \in [Index' -> Entry']
            /\ numFds' \in Nat
            /\ fds' \in [FdIndex' -> -1 .. numClients']
            /\ revents' \in SUBSET FdIndex'
        BY <3>1, CreateType
      <4>2. UNCHANGED <<plug, announced, emitted, monitoring, sigPending,
                        assignedControllerIds, grabbingDevices, autoadd, pc,
                        todo, curFd, j>>
        BY <1>8 DEF UdevHandle
      <4>3. curFd' \in 0 .. numClients' /\ (pc' = "device" => curFd' # 0)
        BY <4>1, <4>2 DEF TypeOK
      <4> QED
        BY <2>1, <4>1, <4>2, <4>3 DEF TypeOK
  <2>4. CASE ~(autoadd /\ Head(udevQueue)[1] = "add")
    BY <1>8, <2>1, <2>2, <2>4, SameSets DEF UdevHandle, TypeOK
  <2> QED
    BY <2>3, <2>4
<1>9. ASSUME NEW i \in FdIndex, SigHandle(i) PROVE TypeOK'
  BY <1>9, SameSets DEF SigHandle, TypeOK, tableVars, PC
<1>10. ASSUME NEW i \in FdIndex, EvdevHandle(i) PROVE TypeOK'
  BY <1>10, SameSets DEF EvdevHandle, TypeOK, kernelVars, tableVars, PC
<1>11. CASE HandleEvent
  <2> DEFINE e == Stamped[j]
             ev == Head(pending[e.dev])
             new == OnEvent(e, ev)
  <2>1. Serving /\ j \in Index /\ Stamped \in [Index -> Entry]
    BY <1>11, EventType DEF HandleEvent, Serving, Index, TypeOK
  <2>2. e.dev \in Client /\ pending[e.dev] \in Seq(Event) /\ ev \in Event
    <3>1. e.dev \in Client
      BY <2>1 DEF Entry
    <3>2. pending[e.dev] \in Seq(Event)
      BY <3>1 DEF TypeOK
    <3>3. pending[e.dev] # <<>>
      BY <1>11 DEF HandleEvent
    <3> QED
      BY <3>1, <3>2, <3>3
  <2>3. new \in Entry
    BY <2>1, <2>2, EventType
  <2>4. devices' \in [Index -> Entry] /\ pending' \in [Client -> Seq(Event)]
    BY <1>11, <2>1, <2>2, <2>3 DEF HandleEvent, TypeOK
  <2>5. assignedControllerIds' \in SUBSET Ids
    <3>1. new.controllerId < 0 \/ new.controllerId \in Ids
      BY <2>3 DEF Entry, Ids
    <3> QED
      BY <1>11, <3>1 DEF HandleEvent, TypeOK
  <2> QED
    BY <1>11, <2>4, <2>5, SameSets DEF HandleEvent, TypeOK, loopVars, PC
<1>12. CASE HandleGone
  <2>1. Serving /\ j \in Index /\ Stamped \in [Index -> Entry]
    BY <1>12, EventType DEF HandleGone, Serving, Index, TypeOK
  <2>2. SwapRemove(Stamped, numDevices, j) \in [0 .. numDevices - 2 -> Entry]
    BY <2>1, SwapRemoveType DEF TypeOK, Index
  <2>3. numDevices' \in Nat /\ devices' \in [Index' -> Entry]
    BY <1>12, <2>1, <2>2 DEF HandleGone, TypeOK, Index
  <2> QED
    BY <1>12, <2>3, SameSets DEF HandleGone, ClearId, TypeOK, kernelVars, loopVars
<1>13. CASE HandleIdle
  <2>1. Stamped \in [Index -> Entry] /\ j + 1 \in Nat
    BY <1>13, EventType DEF HandleIdle, Serving, TypeOK
  <2>2. /\ devices' = Stamped /\ j' = j + 1
        /\ UNCHANGED <<kernelVars, numDevices, assignedControllerIds,
                       grabbingDevices, autoadd, loopVars, pc, todo, curFd>>
    BY <1>13 DEF HandleIdle
  <2> QED
    BY <2>1, <2>2, SameSets DEF TypeOK, kernelVars, loopVars
<1>14. CASE HandleDone
  BY <1>14, SameSets DEF HandleDone, TypeOK, kernelVars, tableVars, loopVars, PC
<1>15. CASE Drain
  BY <1>15, SameSets DEF Drain, TypeOK, tableVars, loopVars, PC
<1> QED
  BY <1>1, <1>2, <1>4, <1>5, <1>6, <1>7, <1>8, <1>9, <1>10, <1>11, <1>12, <1>13,
     <1>14, <1>15
  DEF MainThread, Setup, Dispatch, Serve, CreateListed, CreateEnumerated

LEMMA TypeNext == TypeOK /\ [Next]_vars => TypeOK'
<1>1. CASE UNCHANGED vars
  BY <1>1, SameSets DEF vars, TypeOK
<1> QED
  BY <1>1, TypeKernel, TypeMain DEF Next

(* The variables keep their types: in particular every handle of the table *)
(* and every slot of the poll set is an open descriptor, and every         *)
(* controller id sent to the host is one it knows.                         *)
THEOREM TypeCorrect == Spec => []TypeOK
<1> QED
  BY TypeInit, TypeNext, PTL DEF Spec

----------------------------------------------------------------------------
(* What each step does to the table.                                       *)

(* The variables the invariants below speak of.                            *)
tableFacts == <<plug, clientDev, numClients, grabber, numDevices, devices,
                assignedControllerIds, grabbingDevices>>

(* A new handle and a new entry come after all others.                     *)
LEMMA RangesGrow ==
    ASSUME TypeOK, numClients' = numClients + 1, numDevices' = numDevices + 1
    PROVE  /\ Client' = Client \cup {numClients'}
           /\ numClients' \notin Client /\ numClients' # 0
           /\ Index' = Index \cup {numDevices} /\ numDevices \notin Index
<1>1. numClients \in Nat /\ numDevices \in Nat
  BY DEF TypeOK
<1>2. /\ Client' = Client \cup {numClients'}
      /\ numClients' \notin Client /\ numClients' # 0
  BY <1>1 DEF Client
<1>3. Index' = Index \cup {numDevices} /\ numDevices \notin Index
  BY <1>1 DEF Index
<1> QED
  BY <1>2, <1>3

(* evdev_create appends one entry for one new handle, without an id.       *)
LEMMA CreateEffect ==
    ASSUME TypeOK, NEW d \in Device, NEW rest, EvdevCreate(d, rest)
    PROVE  \/ UNCHANGED <<clientDev, numClients, grabber, numDevices, devices>>
           \/ /\ plug[d] = "present"
              /\ numClients' = numClients + 1
              /\ clientDev'[numClients'] = d
              /\ \A c \in Client : clientDev'[c] = clientDev[c]
              /\ grabber' = GrabNew(d, numClients')
              /\ numDevices' = numDevices + 1
              /\ devices'[numDevices] = NewEntry(numClients')
              /\ \A i \in Index : devices'[i] = devices[i]
<1>1. CASE plug[d] # "present"
  BY <1>1 DEF EvdevCreate
<1>2. CASE plug[d] = "present"
  BY <1>2 DEF EvdevCreate, TypeOK, Push, Client, Index
<1> QED
  BY <1>1, <1>2

(* Handling an event changes one entry, and of it only the fd, the pad     *)
(* flag and, when it had none, the id.                                     *)
LEMMA EventEffect ==
    ASSUME TypeOK, HandleEvent
    PROVE  /\ j \in Index /\ numDevices' = numDevices
           /\ \A i \in Index : devices'[i].dev = devices[i].dev
           /\ \A i \in Index \ {j} : devices'[i] = devices[i]
           /\ \/ /\ devices'[j].controllerId = devices[j].controllerId
                 /\ assignedControllerIds' = assignedControllerIds
              \/ /\ devices[j].controllerId = -1
                 /\ devices'[j].controllerId = NextId(assignedControllerIds)
                 /\ assignedControllerIds' =
                      assignedControllerIds \cup {NextId(assignedControllerIds)}
<1> DEFINE e == Stamped[j]
           ev == Head(pending[e.dev])
           new == OnEvent(e, ev)
           next == NextId(assignedControllerIds)
<1>1. Serving /\ j \in Index /\ Stamped \in [Index -> Entry]
  BY EventType DEF HandleEvent, Serving, Index, TypeOK
<1>2. ev \in Event
  <2>1. pending[e.dev] \in Seq(Event) /\ pending[e.dev] # <<>>
    BY <1>1 DEF HandleEvent, Entry, TypeOK
  <2> QED
    BY <2>1
<1>3. new \in Entry
  BY <1>1, <1>2, EventType
<1>4. /\ e.dev = devices[j].dev /\ e.controllerId = devices[j].controllerId
      /\ \A i \in Index \ {j} : Stamped[i] = devices[i]
  BY <1>1 DEF Stamped, TypeOK, Entry
<1>5. /\ devices'[j] = new
      /\ \A i \in Index \ {j} : devices'[i] = devices[i]
      /\ numDevices' = numDevices
  BY <1>1, <1>4 DEF HandleEvent, TypeOK
<1>6. next \in Ids
  BY NextIdFree DEF TypeOK
<1>7. /\ new.dev = e.dev
      /\ \/ new.controllerId = e.controllerId
         \/ e.controllerId < 0 /\ new.controllerId = next
  BY <1>1, <1>2 DEF OnEvent, OnSyn, Event, Entry
<1>8. e.controllerId \in Ids \cup {-1}
  BY <1>1 DEF Entry
<1>9. assignedControllerIds' = IF new.controllerId < 0
                              THEN assignedControllerIds
                              ELSE assignedControllerIds \cup
                                   ({new.controllerId} \ {e.controllerId})
  BY DEF HandleEvent
<1>10. CASE new.controllerId = e.controllerId
  BY <1>1, <1>4, <1>5, <1>7, <1>9, <1>10
<1>11. CASE e.controllerId < 0 /\ new.controllerId = next
  <2>1. e.controllerId = -1 /\ ~(next < 0) /\ next # -1
    BY <1>6, <1>8, <1>11 DEF Ids
  <2> QED
    BY <1>1, <1>4, <1>5, <1>7, <1>9, <1>11, <2>1
<1> QED
  BY <1>7, <1>10, <1>11

(* Skipping an idle entry changes its fd only.                             *)
LEMMA IdleEffect ==
    ASSUME TypeOK, HandleIdle
    PROVE  /\ numDevices' = numDevices
           /\ \A i \in Index : /\ devices'[i].dev = devices[i].dev
                                /\ devices'[i].controllerId = devices[i].controllerId
BY DEF HandleIdle, Serving, Stamped, TypeOK, Entry, Index

(* evdev_remove takes out entry j, whose device is gone; the last entry    *)
(* takes its place and every other one stays where it is.                  *)
LEMMA GoneEffect ==
    ASSUME TypeOK, HandleGone
    PROVE  /\ j \in Index /\ Removed(devices[j].dev)
           /\ numDevices' = numDevices - 1
           /\ assignedControllerIds' = assignedControllerIds \ {devices[j].controllerId}
           /\ \A i \in 0 .. numDevices - 2 :
                /\ devices'[i].dev = devices[IF i = j THEN numDevices - 1 ELSE i].dev
                /\ devices'[i].controllerId =
                     devices[IF i = j THEN numDevices - 1 ELSE i].controllerId
<1>1. Serving /\ j \in Index /\ Stamped \in [Index -> Entry]
  BY EventType DEF HandleGone, Serving, Index, TypeOK
<1>2. \A i \in Index : /\ Stamped[i].dev = devices[i].dev
                       /\ Stamped[i].controllerId = devices[i].controllerId
  BY <1>1 DEF Stamped, TypeOK, Entry
<1>3. \A i \in 0 .. numDevices - 2 :
        devices'[i] = IF i = j THEN Stamped[numDevices - 1] ELSE Stamped[i]
  <2>1. devices' = SwapRemove(Stamped, numDevices, j)
    BY DEF HandleGone
  <2> QED
    BY <2>1 DEF SwapRemove
<1>4. \A i \in 0 .. numDevices - 2 : i \in Index /\ numDevices - 1 \in Index
  BY DEF Index, TypeOK
<1> QED
  BY <1>1, <1>2, <1>3, <1>4 DEF HandleGone, ClearId

(* Outside, devices are only plugged in and unplugged.                     *)
LEMMA KernelEffect ==
    ASSUME TypeOK, Kernel
    PROVE  /\ UNCHANGED <<clientDev, numClients, grabber, numDevices, devices,
                          assignedControllerIds, grabbingDevices, pc>>
           /\ \A d \in Device : \/ plug'[d] = plug[d]
                                \/ plug[d] = "absent" /\ plug'[d] = "present"
                                \/ plug[d] = "present" /\ plug'[d] = "removed"
<1>1. UNCHANGED <<numDevices, devices, assignedControllerIds, grabbingDevices, pc>>
  BY DEF Kernel, tableVars
<1>2. ASSUME NEW p \in Device, Plug(p) \/ Announce(p) \/ Unplug(p) \/ Emit(p)
      PROVE  /\ UNCHANGED <<clientDev, numClients, grabber>>
             /\ \A d \in Device : \/ plug'[d] = plug[d]
                                  \/ plug[d] = "absent" /\ plug'[d] = "present"
                                  \/ plug[d] = "present" /\ plug'[d] = "removed"
  <2>1. UNCHANGED <<clientDev, numClients, grabber>>
    BY <1>2 DEF Plug, Announce, Unplug, Emit
  <2>2. \/ plug' = plug
        \/ plug[p] = "absent" /\ plug' = [plug EXCEPT ![p] = "present"]
        \/ plug[p] = "present" /\ plug' = [plug EXCEPT ![p] = "removed"]
    BY <1>2 DEF Plug, Announce, Unplug, Emit
  <2> QED
    BY <2>1, <2>2 DEF TypeOK
<1>3. CASE Signal
  <2>1. UNCHANGED <<plug, clientDev, numClients, grabber>>
    BY <1>3 DEF Signal
  <2> QED
    BY <1>1, <2>1
<1>4. \/ \E p \in Device : Plug(p) \/ Announce(p) \/ Unplug(p) \/ Emit(p)
      \/ Signal
  BY DEF Kernel
<1>5. CASE \E p \in Device : Plug(p) \/ Announce(p) \/ Unplug(p) \/ Emit(p)
  BY <1>1, <1>2, <1>5
<1> QED
  BY <1>1, <1>3, <1>4, <1>5

StartPC == {"inputs", "enumerate", "grab"}

(* Every step is one of these.                                             *)
LEMMA StepKinds ==
    ASSUME TypeOK, [Next]_vars
    PROVE  \/ Kernel \/ EvdevStart \/ HandleEvent \/ HandleIdle \/ HandleGone
           \/ /\ \E d \in Device : \E rest \in SUBSET FdIndex : EvdevCreate(d, rest)
              /\ UNCHANGED <<plug, assignedControllerIds, grabbingDevices, pc>>
           \/ UNCHANGED tableFacts /\ (pc \in StartPC => pc' \in StartPC)
<1>1. ASSUME CreateNext
      PROVE  /\ \E d \in Device : \E rest \in SUBSET FdIndex : EvdevCreate(d, rest)
             /\ UNCHANGED <<plug, assignedControllerIds, grabbingDevices, pc>>
  <2>1. PICK d \in Device : EvdevCreate(d, {})
    BY <1>1 DEF CreateNext
  <2>2. {} \in SUBSET FdIndex
    OBVIOUS
  <2> QED
    BY <1>1, <2>1, <2>2 DEF CreateNext
<1>2. ASSUME NEW i \in FdIndex, UdevHandle(i)
      PROVE  \/ /\ \E d \in Device : \E rest \in SUBSET FdIndex : EvdevCreate(d, rest)
                /\ UNCHANGED <<plug, assignedControllerIds, grabbingDevices, pc>>
             \/ UNCHANGED tableFacts /\ UNCHANGED pc
  <2>1. Head(udevQueue)[2] \in Device /\ revents \ {i} \in SUBSET FdIndex
    BY <1>2 DEF UdevHandle, TypeOK, Message
  <2>2. UNCHANGED <<plug, assignedControllerIds, grabbingDevices, pc>>
    BY <1>2 DEF UdevHandle
  <2>3. CASE autoadd /\ Head(udevQueue)[1] = "add"
    BY <1>2, <2>1, <2>2, <2>3 DEF UdevHandle
  <2>4. CASE ~(autoadd /\ Head(udevQueue)[1] = "add")
    BY <1>2, <2>2, <2>4 DEF UdevHandle, tableFacts
  <2> QED
    BY <2>3, <2>4
<1>3. ASSUME UdevScan \/ EnableMonitor \/ LoopEnter \/ Poll \/ HandleDone \/ Drain
      PROVE  UNCHANGED tableFacts /\ (pc \in StartPC => pc' \in StartPC)
  BY <1>3 DEF UdevScan, EnableMonitor, LoopEnter, Poll, HandleDone, Drain,
              tableFacts, kernelVars, tableVars, StartPC
<1>4. ASSUME NEW i \in FdIndex, SigHandle(i) \/ EvdevHandle(i)
      PROVE  UNCHANGED tableFacts /\ (pc \in StartPC => pc' \in StartPC)
  BY <1>4 DEF SigHandle, EvdevHandle, Dispatched, tableFacts, kernelVars,
              tableVars, StartPC
<1>5. CASE UNCHANGED vars
  BY <1>5 DEF vars, tableFacts
<1>6. CASE Setup
  BY <1>1, <1>3, <1>6 DEF Setup, CreateListed, CreateEnumerated
<1>7. CASE Dispatch
  BY <1>2, <1>4, <1>7 DEF Dispatch
<1>8. CASE Serve
  BY <1>3, <1>8 DEF Serve
<1> QED
  BY <1>3, <1>5, <1>6, <1>7, <1>8 DEF Next, MainThread

----------------------------------------------------------------------------
(* The invariants of the table.                                            *)

LEMMA TableInit == Init => TableInv
<1> SUFFICES ASSUME Init PROVE TableInv
  OBVIOUS
<1>1. Index = {} /\ Client = {}
  BY DEF Init, Index, Client
<1> QED
  BY <1>1 DEF TableInv, DistinctHandles, LiveInTable, OpenedWasPlugged

(* An open handle keeps its entry through every step unless its device is  *)
(* gone, and no step gives one handle two entries.                         *)
LEMMA TableNext ==
    ASSUME TypeOK, TableInv, [Next]_vars
    PROVE  TableInv'
<1> USE DEF TableInv
<1>1. CASE Kernel
  <2>1. Index' = Index /\ Client' = Client
    BY <1>1, KernelEffect DEF Index, Client
  <2>2. \A c \in Client : clientDev[c] \in Device
    BY DEF TypeOK
  <2>3. DistinctHandles'
    BY <1>1, <2>1, KernelEffect DEF DistinctHandles
  <2>4. \A c \in Client : (~Removed(c))' => ~Removed(c)
    BY <1>1, <2>2, KernelEffect DEF Removed
  <2>5. LiveInTable'
    BY <1>1, <2>1, <2>4, KernelEffect DEF LiveInTable, InTable
  <2>6. OpenedWasPlugged'
    BY <1>1, <2>1, <2>2, KernelEffect DEF OpenedWasPlugged
  <2> QED
    BY <2>3, <2>5, <2>6
<1>2. ASSUME NEW d \in Device, NEW rest \in SUBSET FdIndex, EvdevCreate(d, rest),
             UNCHANGED plug
      PROVE  TableInv'
  <2>1. CASE UNCHANGED <<clientDev, numClients, grabber, numDevices, devices>>
    BY <1>2, <2>1 DEF DistinctHandles, LiveInTable, OpenedWasPlugged, InTable,
                      Removed, Index, Client
  <2>2. CASE ~UNCHANGED <<clientDev, numClients, grabber, numDevices, devices>>
    <3>1. /\ plug[d] = "present"
          /\ numClients' = numClients + 1
          /\ clientDev'[numClients'] = d
          /\ \A c \in Client : clientDev'[c] = clientDev[c]
          /\ numDevices' = numDevices + 1
          /\ devices'[numDevices].dev = numClients'
          /\ \A i \in Index : devices'[i] = devices[i]
      BY <1>2, <2>2, CreateEffect DEF NewEntry
    <3>2. /\ Client' = Client \cup {numClients'} /\ numClients' \notin Client
          /\ Index' = Index \cup {numDevices} /\ numDevices \notin Index
      BY <3>1, RangesGrow
    <3>3. \A i \in Index : devices[i].dev \in Client
      BY DEF TypeOK, Entry
    <3>4. DistinctHandles'
      BY <3>1, <3>2, <3>3 DEF DistinctHandles
    <3>5. LiveInTable'
      <4>1. ASSUME NEW c \in Client, (~Removed(c))' PROVE InTable(c)'
        <5>1. InTable(c)
          BY <1>2, <3>1, <4>1 DEF LiveInTable, Removed
        <5> QED
          BY <5>1, <3>1, <3>2 DEF InTable
      <4>2. \E i \in Index' : devices'[i].dev = numClients'
        BY <3>1, <3>2
      <4> QED
        BY <3>2, <4>1, <4>2 DEF LiveInTable, InTable
    <3>6. OpenedWasPlugged'
      BY <1>2, <3>1, <3>2 DEF OpenedWasPlugged
    <3> QED
      BY <3>4, <3>5, <3>6
  <2> QED
    BY <2>1, <2>2
<1>3. ASSUME numDevices' = numDevices,
             \A i \in Index : devices'[i].dev = devices[i].dev,
             UNCHANGED <<plug, clientDev, numClients>>
      PROVE  TableInv'
  <2>1. Index' = Index /\ Client' = Client
    BY <1>3 DEF Index, Client
  <2> QED
    BY <1>3, <2>1 DEF DistinctHandles, LiveInTable, OpenedWasPlugged, InTable,
                      Removed
<1>4. CASE EvdevStart
  BY <1>3, <1>4 DEF EvdevStart
<1>5. CASE HandleEvent
  BY <1>3, <1>5, EventEffect DEF HandleEvent
<1>6. CASE HandleIdle
  BY <1>3, <1>6, IdleEffect DEF HandleIdle, kernelVars
<1>7. CASE HandleGone
  <2> DEFINE last == numDevices - 1
             from(i) == IF i = j THEN last ELSE i
  <2>1. /\ j \in Index /\ Removed(devices[j].dev)
        /\ numDevices' = numDevices - 1
        /\ \A i \in 0 .. numDevices - 2 : devices'[i].dev = devices[from(i)].dev
    BY <1>7, GoneEffect
  <2>2. UNCHANGED <<plug, clientDev, numClients>>
    BY <1>7 DEF HandleGone, kernelVars
  <2>3. /\ Index' = 0 .. numDevices - 2 /\ Client' = Client
        /\ \A i \in Index' : from(i) \in Index
        /\ \A i, k \in Index' : from(i) = from(k) => i = k
    BY <2>1, <2>2 DEF Index, Client, TypeOK
  <2>4. \A k \in Index \ {j} : \E i \in Index' : from(i) = k
    <3>1. ASSUME NEW k \in Index \ {j} PROVE \E i \in Index' : from(i) = k
      <4>1. CASE k = last
        <5>1. j \in Index' /\ from(j) = k
          BY <2>1, <3>1, <4>1 DEF Index, TypeOK
        <5> QED
          BY <5>1
      <4>2. CASE k # last
        <5>1. k \in Index' /\ from(k) = k
          BY <2>1, <3>1, <4>2 DEF Index, TypeOK
        <5> QED
          BY <5>1
      <4> QED
        BY <4>1, <4>2
    <3> QED
      BY <3>1
  <2>5. DistinctHandles'
    <3> SUFFICES ASSUME NEW i \in Index', NEW k \in Index',
                        devices'[i].dev = devices'[k].dev
                 PROVE  i = k
      BY DEF DistinctHandles
    <3>1. devices[from(i)].dev = devices[from(k)].dev
      BY <2>1, <2>3
    <3> QED
      BY <3>1, <2>3 DEF DistinctHandles
  <2>6. LiveInTable'
    <3> SUFFICES ASSUME NEW c \in Client, ~Removed(c) PROVE InTable(c)'
      BY <2>2, <2>3 DEF LiveInTable, Removed
    <3>1. PICK k \in Index : devices[k].dev = c
      BY DEF LiveInTable, InTable
    <3>2. k # j
      BY <2>1, <3>1
    <3>3. PICK i \in Index' : from(i) = k
      BY <2>4, <3>2
    <3>4. devices'[i].dev = c
      BY <2>1, <2>3, <3>1, <3>3
    <3> QED
      BY <3>4 DEF InTable
  <2>7. OpenedWasPlugged'
    BY <2>2, <2>3 DEF OpenedWasPlugged
  <2> QED
    BY <2>5, <2>6, <2>7
<1>8. CASE UNCHANGED tableFacts
  BY <1>3, <1>8 DEF tableFacts
<1> QED
  BY <1>1, <1>2, <1>4, <1>5, <1>6, <1>7, <1>8, StepKinds

----------------------------------------------------------------------------
(* The invariants of the controller ids.                                   *)

LEMMA IdInit == Init => IdInv
<1> SUFFICES ASSUME Init PROVE IdInv
  OBVIOUS
<1>1. Index = {} /\ assignedControllerIds = {}
  BY DEF Init, Index
<1> QED
  BY <1>1 DEF IdInv, IdsAccounted, NonzeroIdsMarked, NonzeroIdsExclusive

(* An entry that gets an id gets a free one or 0, and marks it; an entry   *)
(* that leaves takes its mark along, and by exclusiveness nobody else's    *)
(* except that of id 0.                                                    *)
LEMMA IdNext ==
    ASSUME TypeOK, IdInv, [Next]_vars
    PROVE  IdInv'
<1> USE DEF IdInv
<1> DEFINE id(i) == devices[i].controllerId
<1>0. \A i \in Index : id(i) \in Ids \cup {-1}
  BY DEF TypeOK, Entry
<1>1. ASSUME numDevices' = numDevices,
             \A i \in Index : devices'[i].controllerId = id(i),
             UNCHANGED assignedControllerIds
      PROVE  IdInv'
  <2>1. Index' = Index
    BY <1>1 DEF Index
  <2> QED
    BY <1>1, <2>1 DEF IdsAccounted, NonzeroIdsMarked, NonzeroIdsExclusive
<1>2. ASSUME NEW d \in Device, NEW rest \in SUBSET FdIndex, EvdevCreate(d, rest),
             UNCHANGED assignedControllerIds
      PROVE  IdInv'
  <2>1. CASE UNCHANGED <<clientDev, numClients, grabber, numDevices, devices>>
    BY <1>1, <1>2, <2>1
  <2>2. CASE ~UNCHANGED <<clientDev, numClients, grabber, numDevices, devices>>
    <3>1. /\ numDevices' = numDevices + 1
          /\ devices'[numDevices].controllerId = -1
          /\ \A i \in Index : devices'[i] = devices[i]
      BY <1>2, <2>2, CreateEffect DEF NewEntry
    <3>2. Index' = Index \cup {numDevices} /\ numDevices \notin Index
      BY <3>1 DEF Index, TypeOK
    <3>3. IdsAccounted'
      BY <1>2, <3>1, <3>2 DEF IdsAccounted
    <3>4. NonzeroIdsMarked' /\ NonzeroIdsExclusive'
      BY <1>2, <3>1, <3>2 DEF NonzeroIdsMarked, NonzeroIdsExclusive
    <3> QED
      BY <3>3, <3>4
  <2> QED
    BY <2>1, <2>2
<1>3. CASE HandleEvent
  <2> DEFINE next == NextId(assignedControllerIds)
  <2>1. j \in Index /\ Index' = Index
    BY <1>3, EventEffect DEF Index
  <2>2. next \in Ids /\ (next = 0 \/ next \notin assignedControllerIds)
    BY NextIdFree DEF TypeOK
  <2>3. CASE devices'[j].controllerId = id(j) /\ UNCHANGED assignedControllerIds
    <3>1. \A i \in Index : devices'[i].controllerId = id(i)
      BY <1>3, <2>1, <2>3, EventEffect
    <3> QED
      BY <1>1, <1>3, <2>3, <3>1, EventEffect
  <2>4. CASE /\ id(j) = -1 /\ devices'[j].controllerId = next
             /\ assignedControllerIds' = assignedControllerIds \cup {next}
    <3>1. \A i \in Index \ {j} : devices'[i].controllerId = id(i)
      BY <1>3, EventEffect
    <3>2. IdsAccounted'
      <4>1. ASSUME NEW n \in assignedControllerIds
            PROVE  \E i \in Index : devices'[i].controllerId = n
        <5>1. PICK i \in Index : id(i) = n
          BY DEF IdsAccounted
        <5>2. i # j
          BY <2>4, <5>1 DEF TypeOK, Ids
        <5> QED
          BY <3>1, <5>1, <5>2
      <4> QED
        BY <2>1, <2>4, <4>1 DEF IdsAccounted
    <3>3. NonzeroIdsMarked'
      BY <2>1, <2>4, <3>1 DEF NonzeroIdsMarked
    <3>4. NonzeroIdsExclusive'
      <4>1. ASSUME NEW i \in Index \ {j}, id(i) = next PROVE next = 0
        BY <2>2, <4>1 DEF NonzeroIdsMarked, Ids
      <4> QED
        BY <2>1, <2>4, <3>1, <4>1 DEF NonzeroIdsExclusive
    <3> QED
      BY <3>2, <3>3, <3>4
  <2> QED
    BY <1>3, <2>3, <2>4, EventEffect
<1>4. CASE HandleIdle
  BY <1>1, <1>4, IdleEffect DEF HandleIdle
<1>5. CASE HandleGone
  <2> DEFINE last == numDevices - 1
             from(i) == IF i = j THEN last ELSE i
  <2>1. /\ j \in Index
        /\ numDevices' = numDevices - 1
        /\ assignedControllerIds' = assignedControllerIds \ {id(j)}
        /\ \A i \in 0 .. numDevices - 2 : devices'[i].controllerId = id(from(i))
    BY <1>5, GoneEffect
  <2>2. /\ Index' = 0 .. numDevices - 2
        /\ \A i \in Index' : from(i) \in Index /\ from(i) # j
        /\ \A i, k \in Index' : from(i) = from(k) => i = k
    BY <2>1 DEF Index, TypeOK
  <2>3. IdsAccounted'
    <3> SUFFICES ASSUME NEW n \in assignedControllerIds, n # id(j)
                 PROVE  \E i \in Index' : devices'[i].controllerId = n
      BY <2>1 DEF IdsAccounted
    <3>1. PICK k \in Index : id(k) = n
      BY DEF IdsAccounted
    <3>2. k # j
      BY <3>1
    <3>3. CASE k = last
      <4>1. j \in Index' /\ from(j) = k
        BY <2>1, <2>2, <3>2, <3>3 DEF Index, TypeOK
      <4> QED
        BY <2>1, <2>2, <3>1, <4>1
    <3>4. CASE k # last
      <4>1. k \in Index' /\ from(k) = k
        BY <2>1, <2>2, <3>2, <3>4 DEF Index, TypeOK
      <4> QED
        BY <2>1, <2>2, <3>1, <4>1
    <3> QED
      BY <3>3, <3>4
  <2>4. NonzeroIdsMarked'
    <3> SUFFICES ASSUME NEW i \in Index', devices'[i].controllerId > 0
                 PROVE  devices'[i].controllerId \in assignedControllerIds'
      BY DEF NonzeroIdsMarked
    <3>1. devices'[i].controllerId = id(from(i)) /\ from(i) \in Index /\ from(i) # j
      BY <2>1, <2>2
    <3>2. id(from(i)) \in assignedControllerIds
      BY <3>1 DEF NonzeroIdsMarked
    <3>3. id(from(i)) # id(j)
      BY <2>1, <3>1 DEF NonzeroIdsExclusive
    <3> QED
      BY <2>1, <3>1, <3>2, <3>3
  <2>5. NonzeroIdsExclusive'
    <3> SUFFICES ASSUME NEW i \in Index', NEW k \in Index',
                        devices'[i].controllerId = devices'[k].controllerId
                 PROVE  i = k \/ devices'[i].controllerId \in {-1, 0}
      BY DEF NonzeroIdsExclusive
    <3>1. /\ devices'[i].controllerId = id(from(i)) /\ from(i) \in Index
          /\ devices'[k].controllerId = id(from(k)) /\ from(k) \in Index
      BY <2>1, <2>2
    <3>2. from(i) = from(k) \/ id(from(i)) \in {-1, 0}
      BY <3>1 DEF NonzeroIdsExclusive
    <3> QED
      BY <2>2, <3>1, <3>2
  <2> QED
    BY <2>3, <2>4, <2>5
<1>6. CASE Kernel
  BY <1>1, <1>6, KernelEffect
<1>7. CASE EvdevStart
  BY <1>1, <1>7 DEF EvdevStart
<1>8. CASE UNCHANGED tableFacts
  BY <1>1, <1>8 DEF tableFacts
<1> QED
  BY <1>2, <1>3, <1>4, <1>5, <1>6, <1>7, <1>8, StepKinds

----------------------------------------------------------------------------
(* The invariants of the grabs.                                            *)

LEMMA GrabInit == Init => GrabInv
<1> SUFFICES ASSUME Init PROVE GrabInv
  OBVIOUS
<1>1. Index = {} /\ ~grabbingDevices /\ pc = "inputs"
  BY DEF Init, Index
<1> QED
  BY <1>1 DEF Init, GrabInv, GrabberOnDevice, OpenIsGrabbed, UngrabbedAtStart

(* evdev_start grabs every device of the table and evdev_create every one  *)
(* that comes later; nothing takes a grab from a live device.              *)
LEMMA GrabNext ==
    ASSUME TypeOK, TableInv, GrabInv, [Next]_vars
    PROVE  GrabInv'
<1> USE DEF GrabInv
<1>1. CASE UNCHANGED tableFacts /\ (pc \in StartPC => pc' \in StartPC)
  BY <1>1 DEF tableFacts, StartPC, GrabberOnDevice, OpenIsGrabbed,
              UngrabbedAtStart, Client, Index
<1>2. CASE Kernel
  <2>1. Index' = Index /\ Client' = Client
    BY <1>2, KernelEffect DEF Index, Client
  <2>2. \A c \in Client : clientDev[c] \in Device /\ plug[clientDev[c]] # "absent"
    BY DEF TypeOK, TableInv, OpenedWasPlugged
  <2>3. \A c \in Client : plug'[clientDev[c]] = "present" => plug[clientDev[c]] = "present"
    BY <1>2, <2>2, KernelEffect
  <2>4. GrabberOnDevice' /\ OpenIsGrabbed'
    BY <1>2, <2>1, <2>3, KernelEffect DEF GrabberOnDevice, OpenIsGrabbed
  <2>5. UngrabbedAtStart'
    BY <1>2, <2>1, KernelEffect DEF UngrabbedAtStart
  <2> QED
    BY <2>4, <2>5
<1>3. ASSUME NEW d \in Device, NEW rest \in SUBSET FdIndex, EvdevCreate(d, rest),
             UNCHANGED <<plug, assignedControllerIds, grabbingDevices, pc>>
      PROVE  GrabInv'
  <2>1. CASE UNCHANGED <<clientDev, numClients, grabber, numDevices, devices>>
    BY <1>3, <2>1 DEF GrabberOnDevice, OpenIsGrabbed, UngrabbedAtStart, Client, Index
  <2>2. CASE ~UNCHANGED <<clientDev, numClients, grabber, numDevices, devices>>
    <3>1. /\ plug[d] = "present"
          /\ numClients' = numClients + 1
          /\ clientDev'[numClients'] = d
          /\ \A c \in Client : clientDev'[c] = clientDev[c]
          /\ grabber' = GrabNew(d, numClients')
          /\ numDevices' = numDevices + 1
          /\ devices'[numDevices] = NewEntry(numClients')
          /\ \A i \in Index : devices'[i] = devices[i]
      BY <1>3, <2>2, CreateEffect
    <3>2. /\ Client' = Client \cup {numClients'} /\ numClients' # 0
          /\ Index' = Index \cup {numDevices}
      BY <3>1, RangesGrow
    <3>3. /\ \A b \in Device : grabber'[b] \in {grabber[b], numClients'}
          /\ \A b \in Device : grabber'[b] # grabber[b] => b = d
          /\ grabbingDevices => grabber'[d] # 0
      BY <3>1, <3>2 DEF GrabNew, TypeOK
    <3>4. \A b \in Device : grabber[b] = 0 \/ grabber[b] \in Client
      BY DEF TypeOK, Client
    <3>5. GrabberOnDevice'
      BY <3>1, <3>3, <3>4 DEF GrabberOnDevice
    <3>6. OpenIsGrabbed'
      <4> SUFFICES ASSUME grabbingDevices, NEW c \in Client',
                          plug[clientDev'[c]] = "present"
                   PROVE  grabber'[clientDev'[c]] # 0
        BY <1>3 DEF OpenIsGrabbed
      <4>1. CASE c = numClients'
        BY <3>1, <3>3, <4>1
      <4>2. CASE c \in Client
        <5>1. clientDev'[c] = clientDev[c] /\ clientDev[c] \in Device
          BY <3>1, <4>2 DEF TypeOK
        <5>2. grabber[clientDev[c]] # 0
          BY <4>2, <5>1 DEF OpenIsGrabbed
        <5> QED
          BY <3>2, <3>3, <5>1, <5>2
      <4> QED
        BY <3>2, <4>1, <4>2
    <3>7. UngrabbedAtStart'
      BY <1>3, <3>1, <3>2 DEF UngrabbedAtStart, NewEntry
    <3> QED
      BY <3>5, <3>6, <3>7
  <2> QED
    BY <2>1, <2>2
<1>4. CASE EvdevStart
  <2> DEFINE holders(d) == {i \in Index : clientDev[devices[i].fd] = d}
             first(d) == CHOOSE i \in holders(d) : \A k \in holders(d) : i <= k
  <2>1. /\ UNCHANGED <<plug, clientDev, numClients, numDevices, devices>>
        /\ grabbingDevices' /\ grabber' = GrabAll
    BY <1>4 DEF EvdevStart
  <2>2. \A d \in Device :
          grabber'[d] = IF plug[d] = "present" /\ grabber[d] = 0 /\ holders(d) # {}
                        THEN devices[first(d)].fd ELSE grabber[d]
    BY <2>1 DEF GrabAll
  <2>3. ASSUME NEW d \in Device, holders(d) # {} PROVE first(d) \in holders(d)
    <3>1. holders(d) \in SUBSET Nat
      BY DEF Index, TypeOK
    <3>2. \E i \in holders(d) : \A k \in holders(d) : i <= k
      BY <2>3, <3>1, LeastNat
    <3> QED
      BY <3>2
  <2>4. \A i \in Index : devices[i].fd # 0
    BY DEF TypeOK, Entry, Client
  <2>5. GrabberOnDevice'
    BY <2>1, <2>2, <2>3 DEF GrabberOnDevice
  <2>6. OpenIsGrabbed'
    <3> SUFFICES ASSUME NEW c \in Client, plug[clientDev[c]] = "present"
                 PROVE  grabber'[clientDev[c]] # 0
      BY <2>1 DEF OpenIsGrabbed, Client
    <3>1. clientDev[c] \in Device
      BY DEF TypeOK
    <3>2. CASE grabbingDevices
      BY <2>2, <2>3, <2>4, <3>1, <3>2 DEF OpenIsGrabbed
    <3>3. CASE ~grabbingDevices
      <4>1. PICK i \in Index : devices[i].dev = c
        BY DEF TableInv, LiveInTable, Removed, InTable
      <4>2. i \in holders(clientDev[c])
        BY <3>3, <4>1 DEF UngrabbedAtStart
      <4> QED
        BY <2>2, <2>3, <2>4, <3>1, <4>2
    <3> QED
      BY <3>2, <3>3
  <2>7. UngrabbedAtStart'
    BY <2>1 DEF UngrabbedAtStart
  <2> QED
    BY <2>5, <2>6, <2>7
<1>5. ASSUME HandleEvent \/ HandleIdle \/ HandleGone PROVE GrabInv'
  <2>1. pc = "device" /\ UNCHANGED <<plug, clientDev, numClients, grabber, grabbingDevices>>
    BY <1>5 DEF HandleEvent, HandleIdle, HandleGone, Serving, kernelVars
  <2>2. grabbingDevices
    BY <2>1 DEF UngrabbedAtStart
  <2> QED
    BY <2>1, <2>2 DEF GrabberOnDevice, OpenIsGrabbed, UngrabbedAtStart, Client
<1> QED
  BY <1>1, <1>2, <1>3, <1>4, <1>5, StepKinds

----------------------------------------------------------------------------
(* The theorems.                                                           *)

(* IInv is inductive.                                                      *)
LEMMA Inductive == IInv /\ [Next]_vars => IInv'
BY TypeNext, TableNext, IdNext, GrabNext DEF IInv

LEMMA Invariant == Spec => []IInv
<1>1. Init => IInv
  BY TypeInit, TableInit, IdInit, GrabInit DEF IInv
<1> QED
  BY <1>1, Inductive, PTL DEF Spec

(* However devices come and go, a handle whose device is plugged in is in  *)
(* the table exactly once: the swap of evdev_remove loses and doubles      *)
(* nothing, also for the entries the loop of evdev_handle skips over.      *)
THEOREM LiveClientsAlwaysListed == Spec => []LiveClientsListed
<1>1. IInv => LiveClientsListed
  BY DEF IInv, TableInv, DistinctHandles, LiveInTable, InTable, LiveClientsListed,
         TypeOK, Entry
<1> QED
  BY <1>1, Invariant, PTL

(* No controller id leaks, and two pads never share a controller other     *)
(* than the first, for any number of ids and pads.                         *)
THEOREM IdsAlwaysConsistent == Spec => []IdsConsistent
<1>1. IInv => IdsConsistent
  BY DEF IInv, IdInv, IdsConsistent
<1> QED
  BY <1>1, Invariant, PTL

(* Once grabbed, a device is read through exactly one entry of the table,  *)
(* also when hotplug opened it twice.                                      *)
THEOREM AlwaysSingleReader == Spec => []SingleReader
<1>1. ASSUME IInv PROVE SingleReader
  <2> SUFFICES ASSUME grabbingDevices, NEW d \in Device, plug[d] = "present",
                      NEW b \in Client, clientDev[b] = d
               PROVE  \E c \in Client : /\ grabber[d] = c /\ InTable(c)
                                       /\ \A a \in Client : Receives(a, d) <=> (a = c)
    BY DEF SingleReader
  <2>1. /\ grabber[d] \in Client /\ clientDev[grabber[d]] = d
    BY <1>1 DEF IInv, GrabInv, OpenIsGrabbed, GrabberOnDevice, TypeOK, Client
  <2>2. InTable(grabber[d])
    BY <1>1, <2>1 DEF IInv, TableInv, LiveInTable, Removed
  <2>3. \A a \in Client : Receives(a, d) <=> (a = grabber[d])
    BY <2>1 DEF Receives, Client
  <2> QED
    BY <2>1, <2>2, <2>3
<1> QED
  BY <1>1, Invariant, PTL

(* A pad whose device is there is in the table before and after a step,    *)
(* with the same id: entries only get an id that have none, and the one    *)
(* that leaves is of a device that is gone.                                *)
LEMMA IdStays ==
    ASSUME TypeOK, [Next]_vars, NEW c \in Client, NEW id \in Ids, IdOf(c, id), ~Removed(c)
    PROVE  IdOf(c, id)'
<1>1. PICK k \in Index : devices[k].dev = c /\ devices[k].controllerId = id
  BY DEF IdOf
<1>2. ASSUME numDevices' = numDevices,
             \A i \in Index : /\ devices'[i].dev = devices[i].dev
                              /\ \/ devices'[i].controllerId = devices[i].controllerId
                                 \/ devices[i].controllerId = -1
      PROVE  IdOf(c, id)'
  <2>1. k \in Index' /\ id # -1
    BY <1>2 DEF Index, Ids
  <2> QED
    BY <1>1, <1>2, <2>1 DEF IdOf
<1>3. CASE Kernel
  BY <1>2, <1>3, KernelEffect
<1>4. CASE HandleEvent
  BY <1>2, <1>4, EventEffect
<1>5. CASE HandleIdle
  BY <1>2, <1>5, IdleEffect
<1>6. CASE EvdevStart
  BY <1>2, <1>6 DEF EvdevStart
<1>7. CASE UNCHANGED tableFacts
  BY <1>2, <1>7 DEF tableFacts
<1>8. ASSUME NEW d \in Device, NEW rest \in SUBSET FdIndex, EvdevCreate(d, rest)
      PROVE  IdOf(c, id)'
  <2>1. CASE UNCHANGED <<clientDev, numClients, grabber, numDevices, devices>>
    BY <1>2, <2>1
  <2>2. CASE ~UNCHANGED <<clientDev, numClients, grabber, numDevices, devices>>
    <3>1. /\ numClients' = numClients + 1 /\ numDevices' = numDevices + 1
          /\ \A i \in Index : devices'[i] = devices[i]
      BY <1>8, <2>2, CreateEffect
    <3>2. k \in Index'
      BY <3>1, RangesGrow
    <3> QED
      BY <1>1, <3>1, <3>2 DEF IdOf
  <2> QED
    BY <2>1, <2>2
<1>9. CASE HandleGone
  <2>1. /\ j \in Index /\ Removed(devices[j].dev) /\ numDevices' = numDevices - 1
        /\ \A i \in 0 .. numDevices - 2 :
             /\ devices'[i].dev = devices[IF i = j THEN numDevices - 1 ELSE i].dev
             /\ devices'[i].controllerId =
                  devices[IF i = j THEN numDevices - 1 ELSE i].controllerId
    BY <1>9, GoneEffect
  <2>2. k # j
    BY <1>1, <2>1
  <2>3. Index' = 0 .. numDevices - 2 /\ numDevices \in Nat
    BY <2>1 DEF Index, TypeOK
  <2>4. CASE k = numDevices - 1
    <3>1. j \in Index'
      BY <2>1, <2>2, <2>3, <2>4 DEF Index
    <3> QED
      BY <1>1, <2>1, <2>3, <2>4, <3>1 DEF IdOf
  <2>5. CASE k # numDevices - 1
    <3>1. k \in Index'
      BY <2>1, <2>3, <2>5 DEF Index
    <3> QED
      BY <1>1, <2>1, <2>2, <2>3, <3>1 DEF IdOf
  <2> QED
    BY <2>4, <2>5
<1> QED
  BY <1>3, <1>4, <1>5, <1>6, <1>7, <1>8, <1>9, StepKinds

(* A pad keeps its controller at the host while it is plugged, through all *)
(* that other devices do and however the table is compacted.               *)
THEOREM IdsAreStable == Spec => StableId
<1> DEFINE Stays == \A c \in Client : \A id \in Ids :
                      IdOf(c, id) /\ ~Removed(c) => IdOf(c, id)'
<1>1. TypeOK /\ [Next]_vars => [Stays]_vars
  BY IdStays
<1> QED
  BY <1>1, TypeCorrect, PTL DEF Spec, StableId

============================================================================
