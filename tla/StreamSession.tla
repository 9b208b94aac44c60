---------------------------- MODULE StreamSession ----------------------------
(***************************************************************************)
(* One run of `moonlight stream' on an embedded platform, from gs_init to  *)
(* its end: main and stream of src/src/main.c, gs_start_app of             *)
(* src/libgamestream/client.c, loop_main of src/src/loop.c and quit of     *)
(* src/src/global.c, with the host, the threads of moonlight-common-c and  *)
(* the signals of the system around it.  Input devices are EvdevDevices.   *)
(***************************************************************************)
EXTENDS ServerStatus, FiniteSets

CONSTANT
    Worker          \* threads that LiStartConnection starts

VARIABLES
    \* the host (external)
    game, busy,     \* the game it names, and whether it is being streamed
    streams,        \* the game this run was given a session of
    \* the main thread
    pc,
    want,           \* the id of the app asked for, NoGame if there is none
    server,         \* what load_server_status found, currentGame kept up
    sawBusy,        \* history: the host was busy when it was asked
    answer,         \* the host's answer to the request pc stands for
    mainId,         \* main_thread_id is assigned
    masked,         \* the main thread blocks the signals
    sigfd,          \* the signalfd is open and polled
    grabbed,        \* input devices are grabbed
    \* the connection
    running,        \* threads of the connection that run
    lost,           \* threads that reported the connection as terminated
    \* signals and input
    pending,        \* blocked signals: to the thread, to the process
    chord,          \* the quit chord is in the buffer of a device
    fate,           \* of the process
    asked           \* history: who wanted the run to end

hostVars == <<game, busy, streams>>
loopVars == <<mainId, masked, sigfd, grabbed>>
connVars == <<running, lost>>
userVars == <<pending, chord, fate, asked>>
gameVars == <<want, server, sawBusy, answer>>
vars == <<game, busy, streams, pc, want, server, sawBusy, answer, mainId, masked,
          sigfd, grabbed, running, lost, pending, chord, fate, asked>>

Preparing == {"gs_init", "pair_check", "inputs", "gs_applist", "gs_start_app",
           "launch", "resume"}
Connected == {"evdev_start", "thread_id", "sigprocmask", "signalfd", "poll",
              "evdev_stop", "LiStopConnection"}
Pc == Preparing \cup {"LiStartConnection"} \cup Connected \cup {"return", "exit"}

TypeOK ==
    /\ game \in {NoGame} \cup App /\ busy \in BOOLEAN /\ streams \in {NoGame} \cup App
    /\ pc \in Pc /\ want \in {NoGame} \cup App /\ server \in Status
    /\ sawBusy \in BOOLEAN
    /\ answer \in {"none", "session", "refused", "other", "invalid", "error"}
    /\ mainId \in BOOLEAN /\ masked \in BOOLEAN /\ sigfd \in BOOLEAN /\ grabbed \in BOOLEAN
    /\ running \subseteq Worker /\ lost \subseteq Worker
    /\ pending \subseteq {"thread", "process"} /\ chord \in BOOLEAN
    /\ fate \in {"running", "returned", "failed", "killed", "undefined"}
    /\ asked \subseteq {"chord", "signal", "loss", "early loss"}

Init ==
    /\ game \in {NoGame} \cup App /\ busy \in BOOLEAN /\ (busy => game # NoGame)
    /\ streams = NoGame
    /\ pc = "gs_init" /\ want \in {NoGame} \cup App
    /\ server = [ret |-> "GS_INVALID", paired |-> FALSE, currentGame |-> NoGame]
    /\ sawBusy = FALSE /\ answer = "none"
    /\ mainId = FALSE /\ masked = FALSE /\ sigfd = FALSE /\ grabbed = FALSE
    /\ running = {} /\ lost = {}
    /\ pending = {} /\ chord = FALSE /\ fate = "running" /\ asked = {}

Alive == fate = "running"

----------------------------------------------------------------------------
(* External: the host.                                                     *)

(* Another client starts a game, or the game of the host comes to its end; *)
(* since GFE 2.8 the host goes on naming it.                               *)
HostOnItsOwn ==
    /\ \/ ~busy /\ game' \in App /\ busy' = TRUE
       \/ busy /\ busy' = FALSE /\ game' \in {game, NoGame}
    /\ Alive /\ pc \in Preparing \cup {"LiStartConnection"}
    /\ UNCHANGED <<streams, pc, gameVars, loopVars, connVars, userVars>>

Answers(set) == \E a \in set : answer' = a

(* A refusal is a gamesession of 0, another document, or none.             *)
HostAnswers ==
    /\ Alive /\ pc \in {"launch", "resume"} /\ answer = "none"
    /\ \/ /\ pc = "launch" /\ ~busy
          /\ game' = want /\ busy' = TRUE /\ streams' = want
          /\ Answers({"session", "error"})
       \/ /\ pc = "resume" /\ busy
          /\ streams' = game
          /\ Answers({"session", "other", "error"})
          /\ UNCHANGED <<game, busy>>
       \/ /\ Answers({"refused", "other", "invalid", "error"})
          /\ UNCHANGED hostVars
    /\ UNCHANGED <<pc, want, server, sawBusy, loopVars, connVars, userVars>>

----------------------------------------------------------------------------
(* main and stream, up to the connection.                                  *)

Goes(from, to) == Alive /\ pc = from /\ pc' = to

(* exit(-1).                                                               *)
Fails(from) ==
    /\ Goes(from, "exit")
    /\ fate' = "failed"
    /\ UNCHANGED <<hostVars, gameVars, loopVars, connVars, pending, chord, asked>>

Quietly == UNCHANGED <<hostVars, connVars, userVars>>

GsInit ==
    /\ Goes("gs_init", "pair_check")
    /\ \E status \in Statuses(TRUE, game, busy), unsupported \in BOOLEAN :
         Usable(status, unsupported) /\ server' = status
    /\ sawBusy' = busy
    /\ UNCHANGED <<want, answer, loopVars>> /\ Quietly

(* The first checks of main, and the input devices.                        *)
PairCheck ==
    /\ server.paired /\ Goes("pair_check", "inputs")
    /\ UNCHANGED <<gameVars, loopVars>> /\ Quietly

Inputs ==
    /\ Goes("inputs", "gs_applist")
    /\ UNCHANGED <<gameVars, loopVars>> /\ Quietly

GetAppId ==
    /\ want # NoGame /\ Goes("gs_applist", "gs_start_app")
    /\ UNCHANGED <<gameVars, loopVars>> /\ Quietly

(* gs_start_app goes by the game that ran when gs_init asked.              *)
StartApp ==
    /\ Goes("gs_start_app", IF server.currentGame = NoGame THEN "launch" ELSE "resume")
    /\ UNCHANGED <<gameVars, loopVars>> /\ Quietly

(* xml_search finds an empty gamesession in a document that has none.      *)
StartAppReturns ==
    /\ pc \in {"launch", "resume"} /\ answer \in {"session", "other"}
    /\ Goes(pc, "LiStartConnection")
    /\ server' = [server EXCEPT !.currentGame = want]
    /\ answer' = "none"
    /\ UNCHANGED <<want, sawBusy, loopVars>> /\ Quietly

StreamFails ==
    \/ Fails("gs_init")                     \* unreachable, invalid, unsupported
    \/ ~server.paired /\ Fails("pair_check")
    \/ Fails("gs_applist")                  \* no list, or not on it
    \/ Fails("gs_start_app")                \* no 4K, no memory
    \/ answer \in {"refused", "invalid", "error"} /\ Fails(pc)

Prepare == GsInit \/ PairCheck \/ Inputs \/ GetAppId \/ StartApp \/ StartAppReturns

----------------------------------------------------------------------------
(* External: LiStartConnection and LiStopConnection.                       *)

StartThread ==
    /\ Alive /\ pc = "LiStartConnection" /\ streams # NoGame
    /\ \E w \in Worker \ (running \cup lost) : running' = running \cup {w}
    /\ UNCHANGED <<hostVars, pc, gameVars, loopVars, lost, userVars>>

(* It succeeds with every thread started, or fails with none; main does    *)
(* not look.                                                               *)
StartConnection ==
    /\ Goes("LiStartConnection", "evdev_start")
    /\ \/ running \cup lost = Worker /\ UNCHANGED running
       \/ running' = {}
    /\ UNCHANGED <<hostVars, gameVars, loopVars, lost, userVars>>

----------------------------------------------------------------------------
(* The input loop.                                                         *)

EvdevStart ==
    /\ Goes("evdev_start", "thread_id")
    /\ grabbed' = TRUE
    /\ UNCHANGED <<gameVars, mainId, masked, sigfd>> /\ Quietly

(* main_thread_id = pthread_self().                                        *)
LoopThreadId ==
    /\ Goes("thread_id", "sigprocmask")
    /\ mainId' = TRUE
    /\ UNCHANGED <<gameVars, masked, sigfd, grabbed>> /\ Quietly

(* Mutant: the signals are not blocked.                                    *)
LoopMaskForgotten ==
    /\ Goes("sigprocmask", "signalfd")
    /\ UNCHANGED <<gameVars, loopVars>> /\ Quietly

LoopMask ==
    /\ Goes("sigprocmask", "signalfd")
    /\ masked' = TRUE
    /\ UNCHANGED <<gameVars, mainId, sigfd, grabbed>> /\ Quietly

(* Mutant: the descriptor is not added to the poll set.                    *)
LoopSignalfdNotAdded ==
    /\ Goes("signalfd", "poll")
    /\ UNCHANGED <<gameVars, loopVars>> /\ Quietly

LoopSignalfd ==
    /\ Goes("signalfd", "poll")
    /\ sigfd' = TRUE
    /\ UNCHANGED <<gameVars, mainId, masked, grabbed>> /\ Quietly

(* loop_sig_handler reads one signal, the thread's own first.              *)
LoopSigHandler ==
    /\ Goes("poll", "evdev_stop")
    /\ sigfd /\ pending # {}
    /\ pending' = pending \ {IF "thread" \in pending THEN "thread" ELSE "process"}
    /\ UNCHANGED <<hostVars, gameVars, loopVars, connVars, chord, fate, asked>>

(* evdev_handle: the handler of events returns false.                      *)
LoopChord ==
    /\ Goes("poll", "evdev_stop") /\ chord
    /\ chord' = FALSE
    /\ UNCHANGED <<hostVars, gameVars, loopVars, connVars, pending, fate, asked>>

(* loop_main returns when a handler does.                                  *)
LoopReturns == LoopSigHandler \/ LoopChord

EvdevStop ==
    /\ Goes("evdev_stop", "LiStopConnection")
    /\ grabbed' = FALSE
    /\ UNCHANGED <<gameVars, mainId, masked, sigfd>> /\ Quietly

(* Mutant: main returns with the connection up.                            *)
StopForgotten ==
    /\ Goes("LiStopConnection", "return")
    /\ UNCHANGED <<gameVars, loopVars>> /\ Quietly

(* The threads of the connection have ended when it returns.               *)
StopConnection ==
    /\ Goes("LiStopConnection", "return")
    /\ running' = {}
    /\ UNCHANGED <<hostVars, gameVars, loopVars, lost, userVars>>

Return ==
    /\ Goes("return", "exit")
    /\ fate' = "returned"
    /\ UNCHANGED <<hostVars, gameVars, loopVars, connVars, pending, chord, asked>>

Loop == \/ EvdevStart \/ LoopThreadId \/ LoopMask \/ LoopSignalfd \/ LoopReturns
        \/ EvdevStop \/ StopConnection \/ Return

----------------------------------------------------------------------------
(* Other threads, signals and the keyboard.                                *)

(* pthread_kill(main_thread_id, SIGTERM); of a thread that was never set   *)
(* anything may come, nothing included.                                    *)
Quit ==
    CASE ~mainId          -> fate' \in {"running", "undefined"} /\ UNCHANGED pending
      [] mainId /\ masked -> pending' = pending \cup {"thread"} /\ UNCHANGED fate
      [] OTHER            -> fate' = "killed" /\ UNCHANGED pending

(* connection_connection_terminated, in a thread of the connection.        *)
ConnectionTerminated(w) ==
    /\ Alive /\ w \in running
    /\ Quit
    /\ running' = running \ {w}
    /\ lost' = lost \cup {w}
    /\ asked' = asked \cup {IF mainId THEN "loss" ELSE "early loss"}
    /\ UNCHANGED <<hostVars, pc, gameVars, loopVars, chord>>

(* Ctrl+C or kill: a signal of the process goes to any thread that does    *)
(* not block it; the threads of the connection have the mask of the main   *)
(* thread before loop_main.                                                *)
Signal ==
    /\ Alive
    /\ IF masked /\ running = {}
       THEN pending' = pending \cup {"process"} /\ UNCHANGED fate
       ELSE fate' = "killed" /\ UNCHANGED pending
    /\ asked' = asked \cup {"signal"}
    /\ UNCHANGED <<hostVars, pc, gameVars, loopVars, connVars, chord>>

(* From `inputs' on the devices are open and keep what is typed.           *)
TypeChord ==
    /\ Alive /\ ~chord /\ "chord" \notin asked
    /\ pc \notin {"gs_init", "pair_check", "exit"}
    /\ chord' = TRUE /\ asked' = asked \cup {"chord"}
    /\ UNCHANGED <<hostVars, pc, gameVars, loopVars, connVars, pending, fate>>

Around == Signal \/ TypeChord \/ \E w \in Worker : ConnectionTerminated(w)

Next == \/ HostOnItsOwn \/ HostAnswers \/ Prepare \/ StreamFails
        \/ StartThread \/ StartConnection \/ Loop \/ Around

Spec == Init /\ [][Next]_vars

(* The main thread goes on from LiStartConnection, which returns.  Of the  *)
(* host nothing is assumed: http_request sets no timeout.                  *)
FairSpec == Spec /\ WF_vars(Loop) /\ WF_vars(StartConnection)

----------------------------------------------------------------------------
(* Properties.                                                             *)

(* A game that the host only goes on naming is not resumed: client.c:243.  *)
ResumesWhatRan == pc = "resume" => sawBusy

(* main gets past the loop for a reason, the chord, a signal or a lost     *)
(* connection, and returns with the connection stopped and the devices     *)
(* given back.                                                             *)
CleanReturn ==
    /\ pc \in {"evdev_stop", "LiStopConnection", "return"} => asked # {}
    /\ fate = "returned" => running = {} /\ ~grabbed

(* In the loop and after it, a lost connection never cuts the run short.   *)
InTheLoop == pc \in {"poll", "evdev_stop", "LiStopConnection"}
LossIsOrderly == [][(InTheLoop /\ lost' # lost) => fate' = "running"]_vars

(* A connection lost once main_thread_id is known, a signal wherever it    *)
(* comes, and a chord typed even before the loop, each end the run.        *)
RequestsStop ==
    /\ ("loss" \in asked) ~> ~Alive
    /\ ("signal" \in asked) ~> ~Alive
    /\ ("chord" \in asked /\ pc \in {"LiStartConnection"} \cup Connected) ~> ~Alive
==============================================================================
