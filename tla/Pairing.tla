------------------------------- MODULE Pairing -------------------------------
(***************************************************************************)
(* Pairing with a host: gs_pair and gs_unpair of                           *)
(* src/libgamestream/client.c, each called at most once by a run of the    *)
(* program (src/src/main.c).  The runs share one key directory and so one  *)
(* unique id: the host takes them for the same client.  Every request is   *)
(* answered, or it fails; a request that failed for the program may still  *)
(* come to be dealt with by the host.                                      *)
(***************************************************************************)
EXTENDS ServerStatus, FiniteSets

CONSTANTS
    Proc,           \* runs of the program
    None            \* not a run

ASSUME NoneAssumption == None \notin Proc

VARIABLES
    \* the host (external)
    trusted,        \* it trusts the client
    session,        \* the pairing it is in the middle of
    late,           \* requests it has yet to deal with, given up by the client
    \* each run
    pc,             \* the request it waits for, or what it came to
    reply,          \* the answer to its request
    \* histories
    granted,        \* runs whose secret the host accepted
    revoked,        \* runs whose unpair request the host dealt with
    unanswered      \* runs whose unpair request got no answer

clientVars == <<pc, reply, unanswered>>
hostVars == <<trusted, session, granted, revoked>>
vars == <<trusted, session, late, pc, reply, granted, revoked, unanswered>>

(* The requests of gs_pair, in their order.                                *)
Phase == {"getservercert", "clientchallenge", "serverchallengeresp",
          "clientpairingsecret", "pairchallenge"}
Request == Phase \cup {"undo", "unpair"}
Outcome == {"no_server", "wrong_state", "out_of_memory", "paired", "failed",
            "unpaired", "not_unpaired", "killed"}

NoSession == [owner |-> None, phase |-> "none", pin |-> FALSE]
Session == [owner : Proc, phase : Phase, pin : BOOLEAN]

NextPhase(phase) ==
    CASE phase = "getservercert"       -> "clientchallenge"
      [] phase = "clientchallenge"     -> "serverchallengeresp"
      [] phase = "serverchallengeresp" -> "clientpairingsecret"
      [] phase = "clientpairingsecret" -> "pairchallenge"
      [] phase = "pairchallenge"       -> "paired"

TypeOK ==
    /\ trusted \in BOOLEAN
    /\ session \in Session \cup {NoSession}
    /\ late \subseteq Proc \X Request
    /\ pc \in [Proc -> {"start"} \cup Request \cup Outcome]
    /\ reply \in [Proc -> {"none", "1", "0", "error"}]
    /\ granted \subseteq Proc /\ revoked \subseteq Proc /\ unanswered \subseteq Proc

Init ==
    /\ trusted \in BOOLEAN
    /\ session = NoSession
    /\ late = {}
    /\ pc = [p \in Proc |-> "start"]
    /\ reply = [p \in Proc |-> "none"]
    /\ granted = {} /\ revoked = {} /\ unanswered = {}

----------------------------------------------------------------------------
(* External: the host deals with a request; `answer' is what it says.      *)

(* The user enters the PIN, rightly or not.                                *)
TakesCert(p) ==
    /\ \E pin \in BOOLEAN : session' = [owner |-> p, phase |-> "getservercert", pin |-> pin]
    /\ UNCHANGED <<trusted, granted, revoked>>

Follows(p, phase) == session.owner = p /\ NextPhase(session.phase) = phase

TakesChallenge(p, phase) ==
    /\ Follows(p, phase)
    /\ session' = [session EXCEPT !.phase = phase]
    /\ UNCHANGED <<trusted, granted, revoked>>

TakesSecret(p) ==
    /\ Follows(p, "clientpairingsecret") /\ session.pin
    /\ trusted' = TRUE
    /\ granted' = granted \cup {p}
    /\ session' = NoSession
    /\ UNCHANGED revoked

Accepts(p, request) ==
    \/ request = "getservercert" /\ TakesCert(p)
    \/ request \in {"clientchallenge", "serverchallengeresp"} /\ TakesChallenge(p, request)
    \/ request = "clientpairingsecret" /\ TakesSecret(p)
    \/ request = "pairchallenge" /\ trusted /\ UNCHANGED hostVars

(* It refuses, and forgets the session of this run.                        *)
Refuses(p, request) ==
    /\ request \in Phase
    /\ session' = IF session.owner = p THEN NoSession ELSE session
    /\ UNCHANGED <<trusted, granted, revoked>>

Unpairs(p, request) ==
    /\ request \in {"undo", "unpair"}
    /\ trusted' = FALSE /\ session' = NoSession
    /\ revoked' = revoked \cup {p}
    /\ UNCHANGED granted

Waiting(p) == pc[p] \in Request /\ reply[p] = "none"

(* The host answers; the answer may be lost on its way.                    *)
HostAnswers(p) ==
    /\ Waiting(p)
    /\ \/ /\ Accepts(p, pc[p]) \/ Unpairs(p, pc[p])
          /\ \E a \in {"1", "error"} : reply' = [reply EXCEPT ![p] = a]
       \/ /\ Refuses(p, pc[p])
          /\ \E a \in {"0", "error"} : reply' = [reply EXCEPT ![p] = a]
    /\ UNCHANGED <<late, pc, unanswered>>

(* The connection fails: the host may or may not have the request.         *)
ConnectionFails(p) ==
    /\ Waiting(p)
    /\ reply' = [reply EXCEPT ![p] = "error"]
    /\ late' \in {late, late \cup {<<p, pc[p]>>}}
    /\ UNCHANGED <<hostVars, pc, unanswered>>

HostDealsLate ==
    \E r \in late :
      /\ late' = late \ {r}
      /\ Accepts(r[1], r[2]) \/ Refuses(r[1], r[2]) \/ Unpairs(r[1], r[2])
      /\ UNCHANGED clientVars

Host == HostDealsLate \/ \E p \in Proc : HostAnswers(p) \/ ConnectionFails(p)

----------------------------------------------------------------------------
(* A run of the program.                                                   *)

Becomes(p, at) ==
    /\ pc' = [pc EXCEPT ![p] = at]
    /\ reply' = [reply EXCEPT ![p] = "none"]
    /\ unanswered' = IF pc[p] \in {"undo", "unpair"} /\ reply[p] = "error"
                       THEN unanswered \cup {p} ELSE unanswered
    /\ UNCHANGED <<hostVars, late>>

(* gs_init learns whether it is paired and a game is running; the action   *)
(* the user asked for begins.                                              *)
Learns(status) ==
    \E game \in {NoGame} \cup App, busy \in BOOLEAN : status \in Statuses(trusted, game, busy)

StartPair(p) ==
    /\ pc[p] = "start"
    /\ \E status \in Status, unsupported \in BOOLEAN :
         /\ Learns(status)
         /\ \/ ~Usable(status, unsupported) /\ Becomes(p, "no_server")
            \/ /\ Usable(status, unsupported)
               /\ status.paired \/ status.currentGame # NoGame
               /\ Becomes(p, "wrong_state")
            \/ /\ Usable(status, unsupported)
               /\ ~status.paired /\ status.currentGame = NoGame
               /\ Becomes(p, "getservercert") \/ Becomes(p, "out_of_memory")

StartUnpair(p) ==
    /\ pc[p] = "start"
    /\ \E status \in Status, unsupported \in BOOLEAN :
         /\ Learns(status)
         /\ IF Usable(status, unsupported)
            THEN Becomes(p, "unpair") \/ Becomes(p, "out_of_memory")
            ELSE Becomes(p, "no_server")

(* Mutant: a lost answer to the secret is left to the last request.        *)
PairGoesOnLenient(p) ==
    /\ pc[p] \in Phase
    /\ reply[p] = "1" \/ (reply[p] = "error" /\ pc[p] = "clientpairingsecret")
    /\ Becomes(p, NextPhase(pc[p]))

(* gs_pair has a good answer and makes its next request, or is done.       *)
PairGoesOn(p) ==
    /\ pc[p] \in Phase /\ reply[p] = "1"
    /\ Becomes(p, NextPhase(pc[p]))

(* Mutant: a refused last request does not go through cleanup.             *)
PairFailsAtOnce(p) ==
    /\ pc[p] \in Phase /\ reply[p] \in {"0", "error"}
    /\ Becomes(p, IF pc[p] = "pairchallenge" THEN "failed" ELSE "undo")

(* gs_pair goes to cleanup, which calls gs_unpair.                         *)
PairFails(p) ==
    /\ pc[p] \in Phase /\ reply[p] \in {"0", "error"}
    /\ Becomes(p, "undo")

(* Mutant: gs_pair tries again.                                            *)
PairTriesAgain(p) ==
    /\ pc[p] = "undo" /\ reply[p] # "none"
    /\ Becomes(p, "getservercert") \/ Becomes(p, "failed")

(* What gs_unpair returns is not looked at.                                *)
PairReturns(p) ==
    /\ pc[p] = "undo" /\ reply[p] # "none"
    /\ Becomes(p, "failed")

(* What the host says is not looked at.                                    *)
UnpairReturns(p) ==
    /\ pc[p] = "unpair" /\ reply[p] # "none"
    /\ Becomes(p, IF reply[p] = "error" THEN "not_unpaired" ELSE "unpaired")

(* The user ends the program while it waits; the host may have the request *)
(* already.                                                                *)
Killed(p) ==
    /\ pc[p] \in Request
    /\ pc' = [pc EXCEPT ![p] = "killed"]
    /\ reply' = [reply EXCEPT ![p] = "none"]
    /\ late' \in IF reply[p] = "none" THEN {late, late \cup {<<p, pc[p]>>}} ELSE {late}
    /\ UNCHANGED <<hostVars, unanswered>>

Client(p) ==
    \/ StartPair(p) \/ StartUnpair(p) \/ PairGoesOn(p) \/ PairFails(p)
    \/ PairReturns(p) \/ UnpairReturns(p) \/ Killed(p)

Next == Host \/ \E p \in Proc : Client(p)

Spec == Init /\ [][Next]_vars

----------------------------------------------------------------------------
(* Properties.                                                             *)

(* gs_pair returns GS_OK only after the host accepted the secret of this   *)
(* very call, and without having taken it back.                            *)
PairedWasGranted == \A p \in Proc : pc[p] = "paired" => p \in granted \ revoked

(* Every run came to an end without being killed, the host has dealt with  *)
(* what each gave up, and with every unpair request.                       *)
AtRest ==
    /\ late = {}
    /\ \A p \in Proc : pc[p] \in {"start"} \cup (Outcome \ {"killed"})
    /\ unanswered \subseteq revoked

(* A host that trusts the client at rest was asked to by a run that said   *)
(* so, or by none: no failed run leaves trust behind.                      *)
NoGhostTrust ==
    AtRest /\ trusted /\ granted # {} => \E p \in granted : pc[p] = "paired"

(* Once the host has dealt with the unpair request of a run, no request of *)
(* the run that is still under way makes it trusted again.                 *)
UndoneForGood ==
    [][\A p \in revoked : p \in granted' => p \in granted]_vars

(* The promise of the contract.                                            *)
StateOf(at) ==
    CASE at = "start"        -> "idle"
      [] at \in Phase        -> "pairing"
      [] at = "undo"         -> "undoing"
      [] at = "unpair"       -> "unpairing"
      [] at \in {"no_server", "wrong_state", "out_of_memory"} -> "declined"
      [] at \in {"paired", "failed", "unpaired", "not_unpaired", "killed"} -> at

Contract == INSTANCE PairingContract WITH state <- [p \in Proc |-> StateOf(pc[p])]
Promise == Contract!Spec
==============================================================================
