-------------------------- MODULE MC_EvdevDevices --------------------------
(* Instances of EvdevDevices for TLC.                                      *)
EXTENDS EvdevDevices, TLC

CONSTANTS d1, d2, d3

Symmetric == Permutations(Device)

(* Nothing reads the fd of an entry after evdev_start, so states that      *)
(* differ only in what evdev_handle wrote there are one.                   *)
WithoutFd ==
    <<kernelVars, numDevices,
      [i \in Index |-> <<devices[i].dev, devices[i].controllerId,
                         devices[i].gamepadModified>>],
      assignedControllerIds, grabbingDevices, autoadd, loopVars, pc, todo, j>>

(* The openings that are made or due at most once the loop runs: a handle  *)
(* is held, or its "add" is queued or still to be sent.                    *)
Openings ==
    numClients
      + Cardinality({d \in Device : plug[d] # "absent" /\ d \notin announced})
      + Cardinality({n \in DOMAIN udevQueue : udevQueue[n][1] = "add"})

(* Every device but at most one is plugged in before the program runs; it  *)
(* opens three handles at most, of three devices, or two of one that       *)
(* -input names twice or udevd announces after udev_init has listed it.    *)
PluggedInit ==
    LET present == {d \in Device : plug[d] = "present"}
        named == {<<d, n>> \in Device \X (1 .. MaxNamed) : n <= todo[d]}
    IN /\ Init
       /\ Cardinality(Device \ present) <= 1
       /\ IF autoadd
          THEN Cardinality(present) + Cardinality(present \ announced) <= 3
          ELSE Cardinality(named) <= 3 /\ announced = present

(* Nothing happens outside until the loop runs.                            *)
PluggedNext ==
    MainThread \/ (pc \in {"loop", "device"} /\ Kernel /\ Openings' <= 3)

PluggedSpec == PluggedInit /\ [][PluggedNext]_vars

(* Without -input: udev_init lists the devices, all announced.             *)
ListedInit ==
    PluggedInit /\ autoadd /\ announced = {d \in Device : plug[d] = "present"}

PluggedFairSpec == ListedInit /\ [][PluggedNext]_vars /\ WF_vars(MainThread)

============================================================================
