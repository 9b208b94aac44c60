----------------------------- MODULE ServerStatus -----------------------------
(***************************************************************************)
(* What a run of the program learns of the host when it starts:            *)
(* load_server_status of src/libgamestream/client.c, called by gs_init.    *)
(* The request is made over HTTPS and, should that fail, over HTTP.        *)
(***************************************************************************)
EXTENDS Integers

CONSTANTS
    MaxGame,        \* bound: the applications of the host are 1 .. MaxGame
    HostVersion     \* major version of the host's software

ASSUME StatusAssumption == MaxGame \in Nat \ {0} /\ HostVersion \in Nat

App == 1 .. MaxGame
NoGame == 0

MIN_SUPPORTED_GFE_VERSION == 3
MAX_SUPPORTED_GFE_VERSION == 7

GsFailure == {"GS_IO_ERROR", "GS_INVALID"}

(* A reply: the request failed, a field was missing or empty, or the       *)
(* fields the program goes by.                                             *)
Fields(pairStatuses, game, busy) ==
    [ret : {"GS_OK"}, PairStatus : pairStatuses, currentgame : {game},
     available : {~busy}, appversion : {HostVersion}]
Failures == [ret : GsFailure, PairStatus : {FALSE}, currentgame : {NoGame},
             available : {TRUE}, appversion : {HostVersion}]

(* External: the host tells a client it does not trust nothing over HTTPS, *)
(* or that it is not paired; over HTTP it does not tell accurately.        *)
HttpsReplies(trusted, game, busy) == Failures \cup Fields({trusted}, game, busy)
HttpReplies(game, busy) == Failures \cup Fields(BOOLEAN, game, busy)

Status == [ret : {"GS_OK", "GS_UNSUPPORTED_VERSION"} \cup GsFailure,
           paired : BOOLEAN, currentGame : {NoGame} \cup App]

RetOf(r) ==
    IF /\ r.ret = "GS_OK"
       /\ r.appversion \notin MIN_SUPPORTED_GFE_VERSION .. MAX_SUPPORTED_GFE_VERSION
    THEN "GS_UNSUPPORTED_VERSION" ELSE r.ret

(* Mutant: the game the host names is taken whatever its state.            *)
ParsedPlain(r) == [ret |-> RetOf(r), paired |-> r.PairStatus, currentGame |-> r.currentgame]

(* After GFE 2.8 the current game stays named when it is not streamed any  *)
(* more: an available server has none.                                     *)
Parsed(r) ==
    [ret |-> RetOf(r), paired |-> r.PairStatus,
     currentGame |-> IF r.available THEN NoGame ELSE r.currentgame]

(* The loop over HTTPS and HTTP.                                           *)
LoadServerStatus(https, http) ==
    IF https.ret = "GS_OK" THEN Parsed(https) ELSE Parsed(http)

(* Every status a run may come to of a host.                               *)
Statuses(trusted, game, busy) ==
    UNION {{LoadServerStatus(https, http) : http \in HttpReplies(game, busy)} :
             https \in HttpsReplies(trusted, game, busy)}

(* main goes on with it; `unsupported' is the option of that name.         *)
Usable(status, unsupported) ==
    \/ status.ret = "GS_OK"
    \/ status.ret = "GS_UNSUPPORTED_VERSION" /\ unsupported
==============================================================================
