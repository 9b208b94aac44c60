# Verification of Moonlight Embedded

Moonlight Embedded is a GameStream client in C: it pairs with a host, starts an
application there, shows the video stream and sends the input of local devices
to the host. This directory holds TLA+ models of its own logic, configurations
that model-check them with TLC, and proofs checked by TLAPS. Paths below are those
of the repository; `main.c:103` is line 103 of `src/main.c`, and so on.

## 1. Inventory

| Component | State | Operations | What is hard | What makes it correct |
|---|---|---|---|---|
| Device table, poll loop (`src/input/evdev.c`, `src/loop.c`) | `devices`, `numDevices`, `assignedControllerIds`, `fds`, `numFds`, `revents` | `evdev_create`, `evdev_remove`, `evdev_handle`, `evdev_start/stop`, `loop_add_fd`, `loop_main`, `loop_sig_handler` | devices come and go while the loop walks arrays that the handlers change; `=` for `==` in the lookup; a dead file stays in `fds` | each live handle is in the table once and is read; ids neither leak nor collide; a signal still ends the loop |
| udev (`src/input/udev.c`) | the monitor and its queue | `udev_init`, `udev_handle` | a device between enumeration and monitor | every device is opened |
| Event translation (`evdev.c:101-321`) | `struct input_device` | `evdev_handle_event`, axis conversion | events gather to a frame; the kernel's buffer overflows; integer scaling | the host's keys, buttons and pointer follow the device's |
| Session (`src/main.c`, `global.c`, `connection.c`) | what `main` has done so far, `main_thread_id`, signal mask | the stream action, `quit`, signals | threads of the connection end at any time; signals race the mask | ends exactly when asked, in order |
| Status and launch (`libgamestream/client.c`) | `SERVER_DATA` | `load_server_status`, `gs_start_app`, `gs_quit_app` | two protocols, stale answers | resumes what runs |
| Pairing (`client.c:363-610`) | the host's trust and pairing session | `gs_pair`, `gs_unpair` | five requests, any of them lost or late; other runs; kills | success is real, failure leaves nothing |
| Identity (`client.c:88-166`, `mkcert.c`) | `uniqueid.dat`, `client.pem`, `key.pem` | `load_unique_id`, `load_cert`, `mkcert_save` | killed between two files; two runs at once | the identity is whole and stays |
| Answers (`libgamestream/xml.c`, `main.c:45-77`) | `struct xml_query` | `xml_search`, `xml_applist`, `get_app_id` | texts in pieces, nested elements, documents cut short | what is found is what was said |
| SPS (`libgamestream/sps.c`) | `initial_width`, `replay_sps`, `h264_stream` | `gs_sps_init`, `gs_sps_fix` | state carried from one SPS to later ones | the decoder gets a consistent SPS |
| SDL input (`src/input/sdlinput.c`) | `keyboard_modifiers`, `gamepads` | `sdlinput_handle_event` | keys held back while all modifiers are down; table of pads full | host in step, pads apart |
| SDL video (`src/video/sdl.c`, `ffmpeg.c`, `src/sdl.c`) | one shared frame, mutex, event queue | `sdl_submit_decode_unit`, `sdl_loop` | two threads, events dropped, shutdown order | no tearing, last picture shown, quitting returns |
| Mapping wizard and files (`evdev_map`, `mapping.c`) | `currentKey`, `currentAbs`, `currentReverse`, the mapping | `evdev_map`, `handle_mapping_event`, `evdev_drain`, `mapping_load/save` | the loop is entered again per element; what is moved before, during or after belongs to one of them; signals | each element works as it was answered |
| Options (`src/config.c`) | `CONFIGURATION`, `inputAdded`, `mapped` | `config_parse`, `parse_argument`, `config_file_parse`, `config_save` | files that name files, order of precedence, a file half written | the last setting counts; what is saved, and nothing else, is loaded |
| i.MX decoder (`src/video/imx.c`) | ring, frame buffers, `queued_count`, `disp_clr_index` | setup, submit, cleanup | three owners of the frame buffers; entries split at the ring's end | the VPU reads the stream, and never decodes into what is shown |
| Raspberry Pi, Amlogic (`src/video/pi.c`, `aml.c`) | `port_settings_changed`, `first_packet`; the decoder | setup, submit, cleanup | the port's change is noticed late; a write that takes a part | submit returns; the decoder is given no gap |
| Platform (`src/platform.c`) | none | `platform_check`, `platform_get_video` | which library loads | |
| Other renderers, audio, CEC, discovery, HTTP | handles | calls into libraries | not this program's logic | not modelled |

How they interact. `main` parses the options, calls `gs_init` (identity, status),
then one action: `stream`, `pair`, `unpair`, `list`, `quit`, `map`. For `stream` it
opens the devices (udev, evdev), asks the host for the apps and to launch or
resume one, and calls `LiStartConnection` of moonlight-common-c (not in the
repository), whose threads call the renderer's and audio callbacks and, at the
end, `connection_terminated`, which sends SIGTERM to the main thread. The main
thread is then in `loop_main` (embedded platforms) or `sdl_loop`; both dispatch to
input handlers, which call `LiSend*Event`.

## 2. Modules

| Module | Models | Composed with |
|---|---|---|
| `EvdevDevices` | device table, poll loop, udev, signals | |
| `EvdevDevicesProofs` | proofs about it | `EvdevDevices` |
| `AxisConvert` | `evdev_convert_value*`, `evdev_init_parms` as operators | used by `EvdevEvents`, `EvdevAxes` |
| `EvdevEvents` | `evdev_handle_event` of one device, kernel buffer, host | `AxisConvert` |
| `EvdevAxes` | an axis that travels through its range, converted in the three ways | beside `EvdevEvents` |
| `EvdevEventsProofs` | proofs about both | `EvdevAxes` |
| `ServerStatus` | `load_server_status` as operators | used by `Pairing`, `StreamSession` |
| `Pairing` | `gs_pair`, `gs_unpair`, host, network, several runs | `ServerStatus`; implements `PairingContract` |
| `PairingContract` | what pairing promises (abstract) | |
| `PairingProofs` | proofs about `Pairing`, the refinement included | `Pairing` |
| `StreamSession` | `main`'s stream action, threads, signals, host | `ServerStatus` |
| `KeyStore` | identity on disk, several runs, kills | |
| `AppList` | `xml_applist`, `xml_search`, `get_app_id` | |
| `SpsFix` | `gs_sps_fix` | |
| `SdlInput` | `sdlinput_handle_event`, what the user does, the host | |
| `SdlVideo` | decoder thread and `sdl_loop` | |
| `SdlClient` | both around one queue, with the loop's end | `SdlInput`, `SdlVideo` |
| `SdlClientProofs` | proofs about it | `SdlClient` |
| `MapWizard` | `evdev_map`, its handler and drain, signals, the user; what the saved file then makes of the pad | `AxisConvert` |
| `Config` | the options of two runs, files, `config_save`, `main`'s use of them | |
| `ImxDecoder` | `imx.c` between client, VPU and V4L2 | |
| `PiDecoder` | `pi.c` and the OpenMAX component | `SpsFix` |
| `AmlDecoder` | `aml.c`, the decoder it writes to, the connection | |
| `Renderers` | `platform_check` and the renderer it selects, or another program on `gs_sps_fix` | `ImxDecoder`, `PiDecoder`, `AmlDecoder` |
| `RenderersProofs` | proofs about `SpsFix` and the three decoders | `Renderers` |
| `GamestreamProofs` | proofs about what is known of the client and of the host's answers | `KeyStore`, `AppList` |
| `MapWizardProofs` | proofs about it | `MapWizard` |
| `MainProofs` | proofs about what `main` does | `Config`, `StreamSession` |

Names of variables and actions are those of the code where it has one. Each
`MC_*` module holds what TLC needs for the cfgs of its name. Operators that a
comment calls "Mutant" are wrong forms of the operator after them and no part
of the specification; each of them is there to show that a property notices.

**EvdevDevices.** `devices`, `fds` and the files behind them are arrays over
0..n-1. `evdev_handle` reads frame by frame; its `devices[i].fd = fd` is kept. A
handler called by `loop_main` may add files (`udev_handle`) and remove entries; the
loop's own index goes on, as in the code. A handle never reused stands for an open
file; device unplug, replug, the udev announcement (a queue) and the arrival of
events are actions of the surroundings. A device may be opened more than once, by `-input`
options that repeat a path and by an announcement that comes after the listing. `revents` of a file just added is arbitrary.

**EvdevEvents.** One device with its frame under construction, the kernel's
buffer, `struct input_device`, and what the host was told. The constant `Kinds` gives the
devices that are tried, each with its bounds; where `drops` is set the buffer overflows: what is queued is lost and SYN_DROPPED takes its place. `EvdevAxes` puts beside it
(or instead of it: `travels`) an axis of any range and dead zone that is moved from its minimum to above
its maximum. `AxesAssumption` is what the C types need: 255 times the range fits the `int` that
`evdev_convert_value_byte` computes with.

**ServerStatus, StreamSession.** The status is computed from a reply over HTTPS
and, on failure, one over HTTP. The session has one `pc` value per call of `stream`
and `loop_main` where a thread or signal can come in between. `fate` says how the
process ends. A SIGTERM to an unset `main_thread_id` leaves both outcomes open.

**Pairing.** Each run is one of `Proc`, and does `pair` or `unpair` once; `reply` is
the answer waited for, `late` holds requests the host deals with after the client
gave them up. The cryptographic checks are a choice of outcomes.

**KeyStore.** A file is absent, empty, written by a run or garbled. It becomes empty
at `fopen` and gets its text at `fclose` (the texts are shorter than a stdio buffer).
What moonlight observably does not recover from: a run that ends before the
certificate is closed leaves an empty one, and every later `load_cert` fails; one
that ends between the two `fclose` leaves a certificate with an empty key, and every
later run has `privateKey` NULL with GS_OK. Two runs that generate at once may leave
one's certificate beside the other's key. `SoundIdentity` is about what is loaded
without such an overlap.

**AppList.** The document is generated tag by tag with its true contents kept in
history variables; each tag or piece of text calls both sets of handlers.

**SpsFix.** The fields the code touches, for a stream of one resolution and one
set of flags. An entry lies in memory before its bytes (moonlight-common-c), so
that the replayed SPS overwrites the current entry's. Only the first entry of a unit is looked at, so with
`GS_SPS_BASELINE_HACK`, which no renderer here sets, and a PPS that always comes behind its SPS in one unit the
replay never happens and every slice goes behind a baseline SPS; `HighAfterReplay` is about streams with a
unit that begins with a PPS. The fields of `vui` reach
the decoder only if the host sent a `vui`, since the code never sets
`vui_parameters_present_flag`.

**SdlInput, SdlVideo, SdlClient.** SDL's queue is one sequence, of the user's events,
of the closing of the window and of the frames the decoder thread announces; the frame
itself is one, shared under the mutex, and an event points to it. `SDL_PushEvent`'s
result is ignored: with the queue full a frame is not announced, and were the queue
full of input only, the last picture of a stream would never be shown. SDL's
limit is 65535 events; `ClientAssumption` says that users stay below it, and
`LatestShown` is about queues that are full of frames.

**MapWizard.** A pad is what the user moves for each element (a key, an axis to one
end, or both), with the range of its axes; he moves it while the loop runs, and may let
go late. `AnswersKept` is about elements that were asked for with nothing held;
an axis at rest that reports while a key or an axis may be the answer can be taken for
it, which the property names. `MeaningOf` is the order of the comparisons in
`evdev_handle_event`: a code of a keyboard's key (`KeyboardCodes`, those below the size of `keyCodes`) or of a mouse
button goes to the keyboard or the mouse, and only then are the fields of the mapping compared (`MappedTo`), so a code that
two fields share does what the first of them says. The wizard makes no such difference, and what a pad reports may be
such a key; `LoadedPadWorks` says that an element for which only such a key was saved does not work, and every other does. The text of the file is left out; what it keeps (codes, reversed axes) is not.
`PadsAssumption` is what a pad must be for the wizard to tell its answers apart: no two elements
have the same answer, except that the two directions of a d-pad may be one axis; an axis is moved
to one of its ends, that of a trigger to its maximum; and a stick or d-pad rests between its ends,
where the wizard takes it neither for high nor for low.

**Config.** A file is a place and a name with the settings in its lines. `reading` is the
stack of the files that are open, outermost first, each with the number of its lines read. What
the documents say is put without a stack: a setting stands at a place (`Places`), which is
the chain of lines that lead to it, each but the last naming the file in which the next one is. A line that names
a file stands before the lines in it and after what is above it (`Before`); the file that is always read
comes first, then what is typed, then the host's file. `LastSettingWins` and `InputsMapped` compare
the configuration with the places in that order. Four things the
model shows that no document says: the bitrate, the key directory, the platform and the test that a
mapping has an input come before the file of the host is read; `forcehw` is never
initialised; options without an argument are not known in files; and on a platform that supports HEVC
(`platform_supports_hevc`) `main` sets `supportsHevc` whatever was asked for. What
`platform_check` finds is a choice among the platforms of that name, or none, which ends the
program: what is built in, which libraries are there and whether their devices answer is not part of the model. A file that names
itself has no end in the code; `MaxOpen` bounds how many files are open at once, and what would
open one more does not happen.

**Renderers.** One renderer is used per process. `ImxDecoder` numbers the bytes of
the stream, so that `RingInOrder` compares what the VPU reads with what was sent. A unit is given by
where its entries end in it, its last entry's end being `fullLength`; `copied` is how much of it has been
written. The VPU's rules are external: it decodes into the frame longest free, keeps `Refs` of
them, displays in order after `Delay`. A frame's display flag is cleared one submit
after it was queued, while V4L2 still shows it: `FramesRotate` holds only because of
the number of buffers. It takes more than `Refs` and more than `Delay + 2` of them
(`RenderersAssumption`), which `Frames = 4` just meets; with 3, TLC finds a decode into the frame on
the screen, and with more the proof shows that there is none. `imx.c:157` means 20 and registers 18,
because the `;` that ends the macro of line 54 cuts off the `+ 2`: still more than the
16 frames a stream may refer to, with up to 15 held back.
`PiDecoder` has the component announce its port no later than when it emptied the
first buffer; the client takes the event at a later submit, and `ilclient` waits for an
input buffer meanwhile. `MaxAhead` is what the component empties before it needs the
tunnel: with 0 and one buffer, submit would wait for ever. In `AmlDecoder` the connection
passes on nothing between a loss and the next IDR frame.

## 3. Runs

| Run | Question | Bounds and why they do |
|---|---|---|
| `evdev_ids` | live handles listed once and read once, ids neither leak nor collide, a pad keeps its id | 3 handles in all: of 3 devices, one of which may be plugged in late, or two of them of one device that `-input` names twice or that udevd announces only after `udev_init` has listed it (`MaxNamed` = 2); 2 ids, so that they run out; swap, skip and late removal need two entries |
| `evdev_live` | devices are read, dead ones leave, hotplugged ones are opened, signals end the loop | 2 devices listed by `udev_init`: one that is served while the other comes or goes |
| `events` | host in step with the device, quit only by the chord, what is believed of a pad is sent; sticks fit and follow | a keyboard (3-4 unread events), a mouse and a pad with two events per frame, and a pad whose buffer overflows; one frame handled, some behind it, one under way; every range within -9 .. 9 with any dead zone up to 4 |
| `pairing` | success was granted, failure leaves no trust, what is undone stays undone; it implements `PairingContract` | 2 runs that pair or unpair: one that goes on while the other's requests are late; the proofs are for any number |
| `session` | what is resumed, order of the end, and what must end the run | 2 connection threads, 2 games |
| `sdl` | pads apart, no stuck modifier, no tearing, last picture shown, quitting returns | one who types (3 modifiers, one key twice, 2 other keys), one with 4 pads on 3 entries, one who clicks, two who watch; a queue of 2 that overflows with frames; 4 units |
| `keystore` | identity whole and kept | 3 runs: two that interfere and one that finds the result |
| `app_list` | what is found is what was said | 2 apps, 2 other elements (nested or beside), texts of 2 pieces |
| `config` | the last setting counts, inputs get their mapping, of what is saved eight fields are loaded and nothing else | 2 runs of 4 and 2 options; 2 files open at once (`MaxOpen`), so one names another; 2 disks: with a file named by a file, one of the host, one that is always read; kills while the file is empty; the proofs are for any |
| `wizard` | each element works as it was answered, but for keys that are a keyboard's or a mouse's | 3 kinds of pad (keys, hat and axes, both at once), with such keys among those of a d-pad, of buttons and beside a trigger's axis; all 21 elements; one signal, tremble or late release; 2 unread events |
| `video` | SPS accepted, high profile after the replay, the ring in order, frames rotate, feed decodable, submit returns | ring of 5 bytes with units of 1 to 4, endlessly; 4 frames for 2 references; 4 units of 2 entries with losses; 2 input buffers; 4 resolutions, all flags |
| `sps_levels` (violated) | "Otherwise leave the profile alone": the level of other resolutions | 4 resolutions, all flags |

`sps_levels` shows a bug: `sps.c:60` assigns `initial_width` where it means to
compare it, so the level of any stream that is 1080 high is changed, and the
width is lost for the next SPS. `KnownLevels`, part of `SpsAccepted`, shows that the resolutions the
author had in mind are served all the same, for every SPS of the stream.

Other places where the models show the code doing what a comment or document
does not say; no run is kept for them:

- `evdev.c:93`: removing an overflow pad clears bit 0 though the owner of id 0 is
  there; a later pad then gets id 0 while other ids are free
  (`evdev.c:155`, "Use id 0 when too many gamepads are connected").
- `udev.c:87`: a device announced between the enumeration and the monitor is never
  opened (`docs/README.pod`, "By default all available input devices are enabled").
- `evdev.c:366`: after a lost release a modifier stays set and an incomplete chord
  quits; `evdev.c:182`: with both shift keys down, releasing one loses the chord
  (`evdev.c:186`, "Quit the stream if all the required quit keys are down").
- `client.c:661`: a host that streams any game is resumed, whatever app was asked
  for (`docs/README.pod:113`, "Change the requested app to execute to APP").
- `evdev.c:164-207`: a key of a keyboard or a mouse button is never looked up in the mapping, though `evdev_map` asks
  for it with "Press" and saves whatever key it is given (`evdev.c:325-331`; `docs/README.pod:16`, "Create a mapping file for a
  gamepad"): such a pad is mapped and does not work as answered (`LoadedPadWorks`).
- `config.c:348-351`: a `-mapping` after the last `-input` ends the program with
  "Mapping option should be followed by the input to be mapped" (`docs/README.pod:132`, "If no -input is
  specified after the -mapping this mapping is used for autoloaded inputs"); so does an input without
  any mapping. `InputsMapped` holds the program to the document only where no input is named at all, the one case in
  which devices are autoloaded.
- `config.c:255-281`: of what a run was given, `config_save` writes width, height, fps, bitrate, packetsize, app,
  sops and localaudio, when not at their defaults. Inputs, mapping, platform, keydir, audio,
  address, remote, surround, windowed, forcehevc, forcehw and unsupported are lost (`docs/README.pod:56`,
  "Save the configuration provided by the options on the command line and all loaded configuration
  files to the file CONFIG"). `SavedLoads` says what does come back, and that nothing else does.
- `main.c:179`: the platform is looked for before the host's file is read, so a
  `platform` in that file changes `config.platform` and nothing else (`LastSettingWins`).
- `sdlinput.c:133`: the chord counts at the release of Q, not when it is down.

`CHECK_DEADLOCK FALSE` is set where the program comes to an end or a bound is
reached. Symmetry is used for interchangeable devices and runs, in runs without
liveness only. The view of `EvdevDevices` leaves out the `fd` of an entry,
which the code overwrites and never reads for a decision.

`TypeOK` is proved for `EvdevDevices`, `EvdevEvents`, `Pairing` and `MapWizard`, and is part of the invariant of the
proofs about `KeyStore` and `SdlClient`; in the other modules it says what each
variable ranges over.

Fairness. `EvdevDevices!FairSpec` and `StreamSession!FairSpec` are weakly fair to
the main thread, which the scheduler runs and which the code blocks only in
`poll`; nothing is assumed of devices, users or the host. `PluggedFairSpec` of
`MC_EvdevDevices` is `FairSpec` with surroundings that rest until the loop runs, to
keep the graph small. `StreamSession` also takes it that `LiStartConnection` returns.
`SdlClient!ClientSpec` is weakly fair to both threads; SDL's mutex is held for a bounded
time only. `Renderers` is weakly fair to the thread that submits and to what drives it: the
OpenMAX component, and V4L2, which goes on to the next queued frame; nothing is assumed
of how often units come, and every failure may happen.

## 4. Proofs

Each theorem is for every value of the constants. The assumptions are those named in
the modules: at least one id (`NumIdsAssumption`), `None` is not a run
(`NoneAssumption`), `StatusAssumption`, the files' contents are told apart (`StoreAssumption`),
which keys are modifiers and how long the queue is (`SdlAssumption`,
`ClientAssumption`), sizes of rings and units (`SpsAssumption`, `PiAssumption`,
`RenderersAssumption`: among them the number of frame buffers, see above), bounds that a kind of device
is given (`EventsAssumption`), the range of an axis (`AxesAssumption`), what pads are like
(`PadsAssumption`, see above), and that options and files are such (`ConfigAssumption`: options are those of
the code's table or plain words, a file is a sequence of settings, what `save` names is
a file, and at least one file may be open and one run made).

`EvdevDevicesProofs`: the type invariant and `LiveClientsListed`, `IdsConsistent`,
`SingleReader`, `StableId`. None of these is inductive alone: `IInv`
adds how the loop's index, the entry under removal and the files relate while a
handler is at work (an entry is removed in two steps of the walk; meanwhile its
handle is dead but listed). One lemma says what each group of actions does to the table,
one per part of the invariant that this keeps it; the lemmas on `Push`, `SwapRemove`
and the choice of an id are stated first.

`PairingProofs`: the type invariant, `PairedWasGranted`, `NoGhostTrust`,
`UndoneForGood`, and that `Pairing` implements `PairingContract` (`Promise`), where a run's
request is mapped to `pairing`, `undoing` or `unpairing` by `StateOf`. The invariant is
about what may still reach the host: a request is late only when its run has given it
up (`LateWhen`), a pairing has at most one late request (`LateOnce`), so once the host
dealt with its undo a session that this request opens gets no further
(`NoReopening`) and its secret is never accepted again. `GrantedWhen` says that a secret
is accepted once; `TrustIsFresh` and `UndoDealtWith` that the trust of a run that failed
was taken back.

`RenderersProofs`: `SpsAccepted` and `HighAfterReplay`, for any resolutions, flags and streams:
`initial_width` is the width until the first SPS and a truth value after it, which is enough
for the two sizes the code knows. For `HighAfterReplay` the invariant relates the profile last told to
`replay_sps` (`Profiled`): after a unit that begins with a PPS the next one has the high profile in front, and
later changes of the SPS come first in their unit and are high as well.
`Renderers` implements `SpsFix` (`RenderersFixSps`), so that the two properties hold of it
whichever renderer runs. `DecodableFeed`, from an invariant that says
how the entry to be written continues what was taken (`Continues`, `Whole`).

`RingInOrder`, for a ring and units of any size: while a unit is written, the bytes in
order reach from the VPU's read pointer past its write pointer up to `target_addr`
(`Reaches`), and the write pointer is where the unit began; that all of it fits keeps the
entry being written off the bytes not read yet. Since both the ring and the numbering of
the bytes wrap, the proof rests on lemmas about `%` (`ModUnique`, `ModPlus`, `Place`).

`FramesRotate`, for any number of buffers and references and any delay the assumption
allows. The invariant (`Rotation`) finds three numbers: n frames decoded, m of them shown, k of
them dealt with. The buffers are then used in turn, the n-th frame in buffer n modulo their
number, and each list is a run of consecutive frames: those referred to, those waiting,
those V4L2 has, and the free ones, which follow frame n and reach as far round as frames have
been released. A frame is released when the stream no longer refers to it and its flag is
cleared, which is one frame late, except that the first clearing is that of buffer 0, whose
frame is on the screen at the time. So the frame to be decoded into is always more than `Delay + 2`
frames old, and V4L2 has none that old.

`EvdevEventsProofs`: the type invariant, `InStep`, `ModifiersHeld`, `PadFlushed`, `StickFits`,
`AxisFollows`. For `InStep` the invariant says that the events still to be read, applied one
after the other (`After`), lead from what the host was told and what the program has yet to
send to where the device is (`Leads`), whatever was read in between; a frame moves each axis of the
pointer at most once (`MovesOnce`), since the code keeps the last value of a frame only. The steps are given by a function on 0 .. n, so that no
induction is needed: reading takes the first step off, reporting puts one behind. For the axes, a scaling
lemma bounds what C's division toward zero loses (`Division`, `Scale`, `ScaleFollows`); the two halves of the axis
are put together at its average (`Halves`), and what rounding may step back there is `Slack`.

`SdlClientProofs`: `NoTearing`, from who holds the mutex (`Holds`); `NoStuckModifier` and
`PadsApart`, for any keys, pads, entries and queues. For these the invariant says of every
modifier and pad that either its last queued event agrees with the device, or none is
queued and the host does (`KeySettled`, `PadSettled`); that a modifier's release leaves
not all of them down and is therefore sent; and that entries are taken in order, one for
each pad (`InOrder`), which is what makes `get_gamepad`'s single walk correct.

`MapWizardProofs`: the type invariant, `AnswersKept` and `LoadedPadWorks`, for any gamepads as assumed,
any ranges, and any order of moves, reports and signals. The invariant relates the element asked for to what
the user holds and what is unread. `Quiet`: since it was asked for with nothing held, all that is held,
moved or unread belongs to its answer or is an axis at rest. `Following`: so the mapping has
nothing of the element yet, or its answer, or the handler was misled by an axis at rest. `Kept`: the
elements before it agree with their answers unless that happened to them (`spoilt`). `Saved`: the file is the
mapping. For `LoadedPadWorks` the answers being distinct makes the field that has a code the
only one, or one of a d-pad's two directions, so the order in which `evdev_handle_event` compares does
no harm; which keys come before the mapping is compared is any set (`MeansWhat`); the rest is the arithmetic of the conversions at an end of the range and at rest
(`AtTheEnd`, `TriggerAtTheEnd`, `Whole`).

`GamestreamProofs`, of `AppList`: `FindsWhatWasSaid`, for any number of apps and elements and texts of any length.
What is open is the root, an app, a text of it, or in its place elements named Node, as many
as `search_start` counts (`Shape`), so the text handler of `xml_search` adds a piece exactly within one
of them. `data` is the apps closed, last first, and before them, while an app is
open, its record with the texts that have ended (`Listed`, `Current`); `memory` is the text that is open
(`Reading`). What `atoi` makes of a text is the same on both sides and is never looked into, so no
induction over digits is needed. `IdFound` then says that the first of a list reversed is
the last one that was said.

`GamestreamProofs`, of `KeyStore`: `SoundIdentity` and `IdentityKept`, for any number of runs killed
anywhere. Without overlap there is one writer, and the two files fit what it has done
so far (`FilesFit`, `WriterAt`); what a run read is still there when it goes on (`ReaderAt`).

`MainProofs`, of `Config`: `LastSettingWins`, `InputsMapped` and `SavedLoads`, for any options, any files that name
one another up to any depth, and any number of runs. Chains of lines are in a strict order, total on places:
two places differ first at some line, found as the least number where they do (`Least`), and neither
is the beginning of the other. The stack's lines read, `Now`, are a chain themselves; they split the places in
those that were told to the program (`Told`) and the rest, and each step that reads either adds one place, the
last in the order, to those told, or none (`Grown`). The invariant (`ConfigIInv`) says of every
field that it is what counts of the places told (`Counts`), of the n-th input that it was opened at a place with
n - 1 such places before it (`OpenedAt`) and has the mapping last given there (`PathIs`), and of the options already derived
that the places counted were all told before the host's file (`EarlyTold`); the platform found is of the name told by then, and
the flag for HEVC is what was told or what that platform supports (`HevcFrom`). When the stack is empty for the last
time every place has been told. For `SavedLoads` the lines of a saved file are a sequence of
a set, which the library says holds each once (`SetToSeq`), so a field has one line or none (`ReloadedField`); a place in a saved file says something of one of the eight
fields (`ReloadedSays`), so every other field is counted from the places elsewhere (`ReloadedOther`).

`MainProofs`, of `StreamSession`: `ResumesWhatRan`, `CleanReturn`, `LossIsOrderly`, for any number of
games and threads. The invariant ties `pc` to what was done before: a game is remembered
only from a busy host (`Remembers`), whatever made the loop return was asked for
(`Asked`), threads and devices are given back in order (`Stopped`), the main thread is known
and signals are masked from where a loss must be orderly (`Blocked`).

Only model-checked:

- liveness, which needs fairness and ENABLED: the properties of `evdev_live`, `RequestsStop`, `LatestShown`, `QuitReturns`
  and `SubmitReturns`;
- what folds over sequences compute (the value of `atoi`, hence `TypeOK` of `AppList`), which would take
  induction over data.

## 5. Not modelled

Rendering and audio libraries, OpenSSL, curl, expat, avahi, libudev and libevdev
are represented by what they may answer. The audio renderers, `cec.c`, `fake.c` and
`ffmpeg_vdpau.c` hand data on and keep handles only; `discover.c` is a loop inside
avahi, which has no timeout. The text of configuration and mapping files is left out, as
is that of messages. Memory exhaustion (`malloc` returning NULL) is left out except in
`gs_pair`. Undefined behaviour outside what the models say: an empty `AppTitle` (an
uninitialised byte is read as the name), a calibration whose flat range covers the
axis and `-fps 0` on Amlogic (divisions by zero), `quit` on the SDL platform
(`main_thread_id` unset), a unit larger than the ring of the i.MX or than an OpenMAX buffer.

## 6. Plan

Done: the modules of section 2. Next, by importance:

1. `gs_quit_app` beside `gs_start_app`, with a second client of the host, in a
   module that composes `ServerStatus` with several runs.
2. An abstract `InputContract` (the host's keys are a prefix of the device's history)
   that `EvdevEvents` without overflow and `SdlInput` both implement.
3. Axes and the opening of controllers in `SdlInput`; the map action's steps in `main`.
