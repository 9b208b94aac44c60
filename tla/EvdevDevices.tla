---------------------------- MODULE EvdevDevices ----------------------------
(***************************************************************************)
(* The table of input devices of the embedded client (src/src/input/      *)
(* evdev.c), the poll set that dispatches them (src/src/loop.c), udev      *)
(* hotplug (src/src/input/udev.c), and the order in which main() and       *)
(* stream() (src/src/main.c) bring them up and down.                       *)
(*                                                                         *)
(* The kernel's side (devices, their open handles, EVIOCGRAB, the udev     *)
(* netlink queue, signalfd) is external; it moves between any two steps of *)
(* the main thread.  What one event does to the host is in EvdevEvents;    *)
(* here an event is "pad" (a mapped gamepad button or axis), "syn", or     *)
(* "quit" (the key press that completes the quit chord).                   *)
(***************************************************************************)
EXTENDS Integers, Sequences, FiniteSets

CONSTANTS
    Device,     \* the plug-ins of an event device; a path used again is another one
    NumIds,     \* the controller ids the host knows: 4 in evdev.c:146
    MaxFrames,  \* bound: event frames a device emits
    MaxNamed    \* bound: -input options for one device (MAX_INPUTS in all)

ASSUME NumIdsAssumption == NumIds \in Nat \ {0}
ASSUME MaxFramesAssumption == MaxFrames \in Nat
ASSUME MaxNamedAssumption == MaxNamed \in Nat

Ids == 0 .. NumIds - 1
Event == {"pad", "syn", "quit"}

(* What the udev monitor hears.                                            *)
Message == {"add", "remove"} \X Device

(* A frame is what the kernel makes readable at once, up to its EV_SYN.    *)
Frames == {<<"pad", "syn">>, <<"quit", "syn">>}

(* Descriptors in the poll set: a client number, or one of these.          *)
UdevFd == 0
SigFd == -1

VARIABLES
    \* the kernel and udevd
    plug,           \* Device -> "absent", "present" or "removed"
    announced,      \* the devices udevd has announced
    clientDev,      \* 1..numClients -> the device an open descriptor is for
    numClients,
    pending,        \* 1..numClients -> the events not yet read
    grabber,        \* Device -> the client holding EVIOCGRAB, 0 for none
    emitted,        \* Device -> frames emitted so far
    udevQueue,      \* the monitor's socket: <<action, device>>
    monitoring,     \* udev_monitor_enable_receiving() was called
    sigPending,     \* a signal waits in the signalfd
    \* evdev.c
    numDevices, devices, assignedControllerIds, grabbingDevices,
    \* udev.c
    autoadd,
    \* loop.c
    numFds, fds,
    revents,        \* indices of fds this pass has still to dispatch
    \* the main thread
    pc,
    todo,           \* Device -> how often the current loop has yet to open it
    curFd, j        \* evdev_handle's fd and i

kernelVars == <<plug, announced, clientDev, numClients, pending, grabber,
                emitted, udevQueue, monitoring, sigPending>>
tableVars == <<numDevices, devices, assignedControllerIds, grabbingDevices>>
loopVars == <<numFds, fds, revents>>
vars == <<plug, announced, clientDev, numClients, pending, grabber, emitted,
          udevQueue, monitoring, sigPending,
          numDevices, devices, assignedControllerIds, grabbingDevices,
          autoadd, numFds, fds, revents, pc, todo, curFd, j>>

Client == 1 .. numClients
Index == 0 .. numDevices - 1
FdIndex == 0 .. numFds - 1
PC == {"inputs", "enumerate", "grab", "enter", "loop", "device", "drain",
       "done"}

Entry == [dev : Client, fd : Client, controllerId : Ids \cup {-1},
          gamepadModified : BOOLEAN]

TypeOK ==
    /\ plug \in [Device -> {"absent", "present", "removed"}]
    /\ announced \in SUBSET Device
    /\ numClients \in Nat
    /\ clientDev \in [Client -> Device]
    /\ pending \in [Client -> Seq(Event)]
    /\ grabber \in [Device -> 0 .. numClients]
    /\ emitted \in [Device -> 0 .. MaxFrames]
    /\ udevQueue \in Seq(Message)
    /\ monitoring \in BOOLEAN
    /\ sigPending \in BOOLEAN
    /\ numDevices \in Nat
    /\ devices \in [Index -> Entry]
    /\ assignedControllerIds \in SUBSET Ids
    /\ grabbingDevices \in BOOLEAN
    /\ autoadd \in BOOLEAN
    /\ numFds \in Nat
    /\ fds \in [FdIndex -> -1 .. numClients]
    /\ revents \in SUBSET FdIndex
    /\ pc \in PC
    /\ todo \in [Device -> Nat]
    /\ curFd \in 0 .. numClients
    /\ pc = "device" => curFd # 0
    /\ j \in Nat

(* `inputs' says how often -input names each device; without any, every    *)
(* device is added (udev_init(!inputAdded, ...)).  udevd may still be at   *)
(* work on a device that is plugged in.                                    *)
Init ==
    /\ plug \in [Device -> {"absent", "present"}]
    /\ announced \in SUBSET {d \in Device : plug[d] = "present"}
    /\ numClients = 0
    /\ clientDev = [c \in 1 .. 0 |-> CHOOSE d \in Device : TRUE]
    /\ pending = [c \in 1 .. 0 |-> <<>>]
    /\ grabber = [d \in Device |-> 0]
    /\ emitted = [d \in Device |-> 0]
    /\ udevQueue = <<>>
    /\ monitoring = FALSE
    /\ sigPending = FALSE
    /\ numDevices = 0
    /\ devices = [i \in 0 .. -1 |-> 0]
    /\ assignedControllerIds = {}
    /\ grabbingDevices = FALSE
    /\ numFds = 0
    /\ fds = [i \in 0 .. -1 |-> 0]
    /\ revents = {}
    /\ pc = "inputs"
    /\ \E inputs \in [Device -> 0 .. MaxNamed] :
         /\ todo = inputs
         /\ autoadd = (\A d \in Device : inputs[d] = 0)
    /\ curFd = 0
    /\ j = 0

----------------------------------------------------------------------------
(* Helpers on the arrays of the program, functions on 0..n-1.              *)

Push(a, n, x) == [i \in 0 .. n |-> IF i = n THEN x ELSE a[i]]

(* Mutant: numDevices decremented after the memcpy.                        *)
SwapRemoveLateDecrement(a, n, k) ==
    [i \in 0 .. n - 2 |-> IF i = k THEN a[n - 2] ELSE a[i]]

(* The last of n entries moves to index k and the array shrinks.           *)
SwapRemove(a, n, k) == [i \in 0 .. n - 2 |-> IF i = k THEN a[n - 1] ELSE a[i]]

NewEntry(c) == [dev |-> c, fd |-> c, controllerId |-> -1,
                gamepadModified |-> FALSE]

(* The id a pad that has none gets: the lowest free one, 0 when none is.   *)
NextId(assigned) ==
    IF Ids \subseteq assigned
    THEN 0
    ELSE CHOOSE i \in Ids \ assigned : \A k \in Ids \ assigned : i <= k

(* Mutant: 1 << controllerId + 1.                                         *)
ClearIdOffByOne(assigned, id) == assigned \ {id + 1}

(* evdev_remove frees the id of the entry.                                 *)
ClearId(assigned, id) == assigned \ {id}

Removed(c) == plug[clientDev[c]] = "removed"

(* Mutant: registered without POLLIN.                                      *)
ReadyHangupOnly(f) ==
    CASE f = SigFd  -> sigPending
      [] f = UdevFd -> udevQueue # <<>>
      [] OTHER      -> Removed(f)

(* What the poll set finds readable: POLLIN, or POLLERR|POLLHUP of a       *)
(* descriptor whose device is gone.                                        *)
Ready(f) ==
    CASE f = SigFd  -> sigPending
      [] f = UdevFd -> udevQueue # <<>>
      [] OTHER      -> pending[f] # <<>> \/ Removed(f)

----------------------------------------------------------------------------
(* External: the kernel and udevd.                                         *)

Plug(d) ==
    /\ plug[d] = "absent"
    /\ plug' = [plug EXCEPT ![d] = "present"]
    /\ UNCHANGED <<announced, clientDev, numClients, pending, grabber, emitted,
                   udevQueue, monitoring, sigPending>>

(* udevd has run its rules and tells its listeners.                        *)
Tell(msgs) == udevQueue' = IF monitoring THEN udevQueue \o msgs ELSE udevQueue

Announce(d) ==
    /\ plug[d] # "absent" /\ d \notin announced
    /\ announced' = announced \cup {d}
    /\ Tell(IF plug[d] = "present" THEN <<<<"add", d>>>>
                                   ELSE <<<<"add", d>>, <<"remove", d>>>>)
    /\ UNCHANGED <<plug, clientDev, numClients, pending, grabber, emitted,
                   monitoring, sigPending>>

(* The kernel answers ENODEV from now on; events already in libevdev's     *)
(* buffer may still be read.                                               *)
Unplug(d) ==
    /\ plug[d] = "present"
    /\ plug' = [plug EXCEPT ![d] = "removed"]
    /\ Tell(IF d \in announced THEN <<<<"remove", d>>>> ELSE <<>>)
    /\ \/ pending' = pending
       \/ pending' = [c \in Client |-> IF clientDev[c] = d THEN <<>>
                                                           ELSE pending[c]]
    /\ UNCHANGED <<announced, clientDev, numClients, grabber, emitted,
                   monitoring, sigPending>>

(* A frame goes to the client that grabbed the device, else to all of its  *)
(* clients.                                                                *)
Receives(c, d) == clientDev[c] = d /\ grabber[d] \in {0, c}

Emit(d) ==
    /\ plug[d] = "present" /\ emitted[d] < MaxFrames
    /\ emitted' = [emitted EXCEPT ![d] = @ + 1]
    /\ \E frame \in Frames :
         pending' = [c \in Client |-> IF Receives(c, d)
                                      THEN pending[c] \o frame ELSE pending[c]]
    /\ UNCHANGED <<plug, announced, clientDev, numClients, grabber, udevQueue,
                   monitoring, sigPending>>

(* One of the four signals loop_main blocks; before that, see StreamSession. *)
Signal ==
    /\ pc \in {"loop", "device"} /\ ~sigPending
    /\ sigPending' = TRUE
    /\ UNCHANGED <<plug, announced, clientDev, numClients, pending, grabber,
                   emitted, udevQueue, monitoring>>

Kernel ==
    /\ pc # "done"
    /\ \/ \E d \in Device : Plug(d) \/ Announce(d) \/ Unplug(d) \/ Emit(d)
       \/ Signal
    /\ UNCHANGED <<tableVars, autoadd, loopVars, pc, todo, curFd, j>>

----------------------------------------------------------------------------
(* evdev_create.                                                           *)

(* loop_add_fd.  Nothing initialises the revents of the new slot, so a     *)
(* pass that is going on may find it set.                                  *)
LoopAddFd(f) ==
    /\ numFds' = numFds + 1
    /\ fds' = Push(fds, numFds, f)

Garbage == {{}, {numFds}}

(* Mutant: a hotplugged device is not grabbed.                             *)
GrabNewForgotten(d, c) == grabber

(* The ioctl succeeds when nobody holds the device.                        *)
GrabNew(d, c) ==
    IF grabbingDevices /\ grabber[d] = 0 THEN [grabber EXCEPT ![d] = c]
                                         ELSE grabber

(* A device that is gone fails to open and nothing is added.  rest is what *)
(* the pass over the poll set has left to do.                              *)
EvdevCreate(d, rest) ==
    LET c == numClients + 1 IN
    \/ /\ plug[d] # "present"
       /\ revents' = rest
       /\ UNCHANGED <<numClients, clientDev, pending, grabber, numDevices,
                      devices, numFds, fds>>
    \/ /\ plug[d] = "present"
       /\ numClients' = c
       /\ clientDev' = [k \in 1 .. c |-> IF k = c THEN d ELSE clientDev[k]]
       /\ pending' = [k \in 1 .. c |-> IF k = c THEN <<>> ELSE pending[k]]
       /\ grabber' = GrabNew(d, c)
       /\ numDevices' = numDevices + 1
       /\ devices' = Push(devices, numDevices, NewEntry(c))
       /\ LoopAddFd(c)
       /\ \E garbage \in Garbage : revents' = rest \cup garbage

----------------------------------------------------------------------------
(* main(): the -input options, then udev_init.                             *)

AllOpened == \A d \in Device : todo[d] = 0

CreateNext ==
    /\ \E d \in Device : /\ todo[d] > 0
                         /\ todo' = [todo EXCEPT ![d] = @ - 1]
                         /\ EvdevCreate(d, {})
    /\ UNCHANGED <<plug, announced, emitted, udevQueue, monitoring, sigPending,
                   assignedControllerIds, grabbingDevices, autoadd, pc, curFd, j>>

CreateListed == pc = "inputs" /\ CreateNext

(* udev_init: udev_enumerate_scan_devices is a snapshot, taken only when   *)
(* no -input was given.                                                    *)
UdevScan ==
    /\ pc = "inputs" /\ AllOpened
    /\ todo' = [d \in Device |-> IF autoadd /\ plug[d] = "present" THEN 1 ELSE 0]
    /\ pc' = "enumerate"
    /\ UNCHANGED <<kernelVars, tableVars, autoadd, loopVars, curFd, j>>

CreateEnumerated == pc = "enumerate" /\ CreateNext

EnableMonitor ==
    /\ pc = "enumerate" /\ AllOpened
    /\ monitoring' = TRUE
    /\ LoopAddFd(UdevFd)
    /\ pc' = "grab"
    /\ UNCHANGED <<plug, announced, clientDev, numClients, pending, grabber,
                   emitted, udevQueue, sigPending, tableVars, autoadd,
                   revents, todo, curFd, j>>

(* stream(), after LiStartConnection: evdev_start, then loop_main.  The    *)
(* ioctl of evdev_start uses the fd field of the entries in their order.   *)
GrabAll ==
    [d \in Device |->
       LET holders == {i \in Index : clientDev[devices[i].fd] = d} IN
       IF plug[d] = "present" /\ grabber[d] = 0 /\ holders # {}
       THEN devices[CHOOSE i \in holders : \A k \in holders : i <= k].fd
       ELSE grabber[d]]

EvdevStart ==
    /\ pc = "grab"
    /\ grabber' = GrabAll
    /\ grabbingDevices' = TRUE
    /\ pc' = "enter"
    /\ UNCHANGED <<plug, announced, clientDev, numClients, pending, emitted,
                   udevQueue, monitoring, sigPending, numDevices, devices,
                   assignedControllerIds, autoadd, loopVars, todo, curFd, j>>

LoopEnter ==
    /\ pc = "enter"
    /\ LoopAddFd(SigFd)
    /\ pc' = "loop"
    /\ UNCHANGED <<kernelVars, tableVars, autoadd, revents, todo, curFd, j>>

----------------------------------------------------------------------------
(* loop_main: poll, then the handlers of the ready slots in their order.   *)

Poll ==
    /\ pc = "loop" /\ revents = {}
    /\ revents' = {i \in FdIndex : Ready(fds[i])}
    /\ revents' # {}
    /\ UNCHANGED <<kernelVars, tableVars, autoadd, numFds, fds, pc, todo,
                   curFd, j>>

Dispatched(i) ==
    /\ pc = "loop"
    /\ i \in revents
    /\ \A k \in revents : i <= k

(* Mutant: compares the action with "remove".                             *)
UdevHandleIgnores(i) ==
    /\ Dispatched(i) /\ fds[i] = UdevFd
    /\ udevQueue # <<>>
    /\ udevQueue' = Tail(udevQueue)
    /\ \/ /\ autoadd /\ Head(udevQueue)[1] = "remove"
          /\ EvdevCreate(Head(udevQueue)[2], revents \ {i})
       \/ /\ ~(autoadd /\ Head(udevQueue)[1] = "remove")
          /\ revents' = revents \ {i}
          /\ UNCHANGED <<clientDev, numClients, pending, grabber, numDevices,
                         devices, numFds, fds>>
    /\ UNCHANGED <<plug, announced, emitted, monitoring, sigPending,
                   assignedControllerIds, grabbingDevices, autoadd, pc, todo,
                   curFd, j>>

(* udev_handle: one message; only an "add" opens a device.                 *)
UdevHandle(i) ==
    /\ Dispatched(i) /\ fds[i] = UdevFd
    /\ udevQueue # <<>>
    /\ udevQueue' = Tail(udevQueue)
    /\ \/ /\ autoadd /\ Head(udevQueue)[1] = "add"
          /\ EvdevCreate(Head(udevQueue)[2], revents \ {i})
       \/ /\ ~(autoadd /\ Head(udevQueue)[1] = "add")
          /\ revents' = revents \ {i}
          /\ UNCHANGED <<clientDev, numClients, pending, grabber, numDevices,
                         devices, numFds, fds>>
    /\ UNCHANGED <<plug, announced, emitted, monitoring, sigPending,
                   assignedControllerIds, grabbingDevices, autoadd, pc, todo,
                   curFd, j>>

(* Mutant: returns LOOP_OK.                                                *)
SigHandleGoesOn(i) ==
    /\ Dispatched(i) /\ fds[i] = SigFd
    /\ sigPending' = FALSE
    /\ revents' = revents \ {i}
    /\ UNCHANGED <<plug, announced, clientDev, numClients, pending, grabber,
                   emitted, udevQueue, monitoring, tableVars, autoadd, numFds,
                   fds, pc, todo, curFd, j>>

(* loop_sig_handler: reads the siginfo and makes loop_main return.         *)
SigHandle(i) ==
    /\ Dispatched(i) /\ fds[i] = SigFd
    /\ sigPending' = FALSE
    /\ revents' = revents \ {i}
    /\ pc' = "drain"
    /\ UNCHANGED <<plug, announced, clientDev, numClients, pending, grabber,
                   emitted, udevQueue, monitoring, tableVars, autoadd, numFds,
                   fds, todo, curFd, j>>

(* evdev_handle is called with the descriptor of the slot.                 *)
EvdevHandle(i) ==
    /\ Dispatched(i) /\ fds[i] > 0
    /\ curFd' = fds[i]
    /\ j' = 0
    /\ revents' = revents \ {i}
    /\ pc' = "device"
    /\ UNCHANGED <<kernelVars, tableVars, autoadd, numFds, fds, todo>>

----------------------------------------------------------------------------
(* The loop of evdev_handle.  `if (devices[i].fd = fd)' assigns, so every  *)
(* entry is served whatever descriptor was ready, and its fd overwritten.  *)

Serving == pc = "device" /\ j < numDevices

Stamped == [devices EXCEPT ![j].fd = curFd]

(* The part of evdev_handle_event that touches the table: a frame that     *)
(* changed the pad gives its entry a controller id.                        *)
OnSyn(e) ==
    IF e.gamepadModified
    THEN [e EXCEPT !.gamepadModified = FALSE,
                   !.controllerId =
                     IF e.controllerId < 0 THEN NextId(assignedControllerIds)
                                           ELSE e.controllerId]
    ELSE e

OnEvent(e, ev) ==
    CASE ev = "pad"  -> [e EXCEPT !.gamepadModified = TRUE]
      [] ev = "syn"  -> OnSyn(e)
      [] ev = "quit" -> e

HandleEvent ==
    LET e == Stamped[j]
        ev == Head(pending[e.dev])
        new == OnEvent(e, ev)
    IN /\ Serving
       /\ pending[e.dev] # <<>>
       /\ pending' = [pending EXCEPT ![e.dev] = Tail(@)]
       /\ devices' = [Stamped EXCEPT ![j] = new]
       /\ assignedControllerIds' = IF new.controllerId < 0
                                   THEN assignedControllerIds
                                   ELSE assignedControllerIds \cup
                                        ({new.controllerId} \ {e.controllerId})
       /\ pc' = IF ev = "quit" THEN "drain" ELSE pc
       /\ UNCHANGED <<plug, announced, clientDev, numClients, grabber, emitted,
                      udevQueue, monitoring, sigPending, numDevices,
                      grabbingDevices, autoadd, loopVars, todo, curFd, j>>

(* Mutant: ENODEV is passed over like EAGAIN.                              *)
HandleGoneForgets ==
    LET e == Stamped[j]
    IN /\ Serving
       /\ pending[e.dev] = <<>> /\ Removed(e.dev)
       /\ devices' = Stamped
       /\ j' = j + 1
       /\ UNCHANGED <<kernelVars, numDevices, assignedControllerIds,
                      grabbingDevices, autoadd, loopVars, pc, todo, curFd>>

(* evdev_remove; the for loop goes on with the next index.                 *)
HandleGone ==
    LET e == Stamped[j]
    IN /\ Serving
       /\ pending[e.dev] = <<>> /\ Removed(e.dev)
       /\ numDevices' = numDevices - 1
       /\ devices' = SwapRemove(Stamped, numDevices, j)
       /\ assignedControllerIds' = ClearId(assignedControllerIds, e.controllerId)
       /\ j' = j + 1
       /\ UNCHANGED <<kernelVars, grabbingDevices, autoadd, loopVars, pc, todo,
                      curFd>>

(* EAGAIN.                                                                 *)
HandleIdle ==
    LET e == Stamped[j]
    IN /\ Serving
       /\ pending[e.dev] = <<>> /\ ~Removed(e.dev)
       /\ devices' = Stamped
       /\ j' = j + 1
       /\ UNCHANGED <<kernelVars, numDevices, assignedControllerIds,
                      grabbingDevices, autoadd, loopVars, pc, todo, curFd>>

HandleDone ==
    /\ pc = "device" /\ j >= numDevices
    /\ pc' = "loop"
    /\ j' = 0 /\ curFd' = 0
    /\ UNCHANGED <<kernelVars, tableVars, autoadd, loopVars, todo>>

(* evdev_stop: what is left in the queues is read and thrown away.         *)
Drain ==
    /\ pc = "drain"
    /\ pending' = [c \in Client |->
                     IF \E i \in Index : devices[i].dev = c THEN <<>>
                                                            ELSE pending[c]]
    /\ pc' = "done"
    /\ UNCHANGED <<plug, announced, clientDev, numClients, grabber, emitted,
                   udevQueue, monitoring, sigPending, tableVars, autoadd,
                   loopVars, todo, curFd, j>>

----------------------------------------------------------------------------
Setup == CreateListed \/ UdevScan \/ CreateEnumerated \/ EnableMonitor
         \/ EvdevStart \/ LoopEnter

Dispatch == \E i \in FdIndex : UdevHandle(i) \/ SigHandle(i) \/ EvdevHandle(i)

Serve == HandleEvent \/ HandleGone \/ HandleIdle \/ HandleDone

MainThread == Setup \/ Poll \/ Dispatch \/ Serve \/ Drain

Next == Kernel \/ MainThread

Spec == Init /\ [][Next]_vars

(* The main thread is scheduled; nothing is owed by the kernel's side.     *)
FairSpec == Spec /\ WF_vars(MainThread)

----------------------------------------------------------------------------
(* Safety.                                                                 *)

InTable(c) == \E i \in Index : devices[i].dev = c

(* No controller id leaks: every bit of assignedControllerIds belongs to a *)
(* pad that is still in the table (evdev_remove gives it back).            *)
IdsAccounted ==
    \A id \in assignedControllerIds :
      \E i \in Index : devices[i].controllerId = id

(* Two pads never drive the same controller of the host, except the first, *)
(* which evdev.c:155 shares on purpose.                                    *)
NonzeroIdsExclusive ==
    \A i, k \in Index :
      devices[i].controllerId = devices[k].controllerId
        => i = k \/ devices[i].controllerId \in {-1, 0}

(* Each controller of the host has its pad, and the ids in use are those   *)
(* taken: both directions of one bookkeeping.                              *)
IdsConsistent == IdsAccounted /\ NonzeroIdsExclusive

(* The swap of evdev_remove neither drops nor doubles an entry: a handle   *)
(* whose device is still there is in the table exactly once.               *)
LiveClientsListed ==
    \A c \in Client :
      ~Removed(c) => \E i \in Index : \A k \in Index :
                       (devices[k].dev = c) <=> (k = i)

(* Once stream() has grabbed (evdev_start), every open device is grabbed   *)
(* and what it emits reaches one entry of the table and one only, also     *)
(* when it was opened after the loop started, or twice: named by two       *)
(* -input options, or listed by udev_init before udevd announced it.       *)
SingleReader ==
    grabbingDevices =>
      \A d \in Device :
        plug[d] = "present" /\ (\E c \in Client : clientDev[c] = d)
          => \E c \in Client : /\ grabber[d] = c /\ InTable(c)
                              /\ \A b \in Client : Receives(b, d) <=> (b = c)

(* What makes these inductive: entries are of different handles, every     *)
(* handle on a live device has one, no handle is on a device never plugged *)
(* in, a nonzero id is marked, a device is grabbed by one of its own       *)
(* handles, an open one is once grabbing started, and until then the fd of *)
(* the entries is what evdev_create put there.                             *)
DistinctHandles ==
    \A i, k \in Index : devices[i].dev = devices[k].dev => i = k

LiveInTable == \A c \in Client : ~Removed(c) => InTable(c)

OpenedWasPlugged == \A c \in Client : plug[clientDev[c]] # "absent"

NonzeroIdsMarked ==
    \A i \in Index : devices[i].controllerId > 0
                       => devices[i].controllerId \in assignedControllerIds

GrabberOnDevice ==
    \A d \in Device : grabber[d] # 0 => clientDev[grabber[d]] = d

OpenIsGrabbed ==
    grabbingDevices =>
      \A c \in Client : plug[clientDev[c]] = "present" => grabber[clientDev[c]] # 0

UngrabbedAtStart ==
    ~grabbingDevices =>
      /\ pc \in {"inputs", "enumerate", "grab"}
      /\ \A i \in Index : devices[i].fd = devices[i].dev

TableInv == DistinctHandles /\ LiveInTable /\ OpenedWasPlugged
IdInv == IdsAccounted /\ NonzeroIdsMarked /\ NonzeroIdsExclusive
GrabInv == GrabberOnDevice /\ OpenIsGrabbed /\ UngrabbedAtStart
IInv == TypeOK /\ TableInv /\ IdInv /\ GrabInv

(* A pad keeps its controller id as long as it is plugged, whatever other  *)
(* devices come and go and however the table is compacted.                 *)
IdOf(c, id) == \E i \in Index : devices[i].dev = c /\ devices[i].controllerId = id

StableId ==
    [][\A c \in Client : \A id \in Ids :
         IdOf(c, id) /\ ~Removed(c) => IdOf(c, id)']_vars

----------------------------------------------------------------------------
(* Liveness, under FairSpec.                                               *)

(* What a device in the table sends is read, or the stream ends: the swap  *)
(* and the index that skips an entry only delay it.                        *)
EventsRead ==
    \A d \in Device :
      ((\E c \in Client : clientDev[c] = d /\ InTable(c) /\ pending[c] # <<>>)
         ~> (pc = "done" \/ \A c \in Client :
               clientDev[c] = d /\ InTable(c) => pending[c] = <<>>))

(* A signal in the signalfd ends loop_main, even when descriptors of       *)
(* unplugged devices keep poll() busy.                                     *)
SignalStops == sigPending ~> (pc = "done")

(* Every entry whose device is gone leaves the table, or the stream ends.  *)
GoneLeaves ==
    \A d \in Device :
      ((\E c \in Client : clientDev[c] = d /\ InTable(c) /\ Removed(c))
         ~> (pc = "done" \/ \A c \in Client : clientDev[c] = d => ~InTable(c)))

(* A device announced while the monitor listens is opened, unless it goes  *)
(* away first or the stream ends.                                          *)
HotplugOpened ==
    \A d \in Device :
      (autoadd /\ \E n \in DOMAIN udevQueue : udevQueue[n] = <<"add", d>>)
        ~> (pc = "done" \/ plug[d] = "removed"
              \/ \E c \in Client : clientDev[c] = d /\ InTable(c))
============================================================================
