--------------------------- MODULE PairingContract ---------------------------
(***************************************************************************)
(* What pairing promises, without its messages.  Each run of the program   *)
(* asks once to be trusted or not to be trusted any more.  A run that asks *)
(* for trust and is told it has it was granted it; one that fails may have *)
(* been granted it unnoticed, but not after it took its request back.      *)
(***************************************************************************)
CONSTANT Proc

VARIABLES
    trusted,        \* the host trusts this client
    state,          \* what each run is about
    granted,        \* runs the host has trusted
    revoked         \* runs at whose wish the host gave trust up

vars == <<trusted, state, granted, revoked>>

AskedForTrust == {"pairing", "undoing", "paired", "failed", "killed"}

Init ==
    /\ trusted \in BOOLEAN
    /\ state = [p \in Proc |-> "idle"]
    /\ granted = {} /\ revoked = {}

Moves(p, from, to) ==
    /\ state[p] \in from
    /\ state' = [state EXCEPT ![p] = to]
    /\ UNCHANGED <<trusted, granted, revoked>>

Ask(p) == Moves(p, {"idle"}, "pairing") \/ Moves(p, {"idle"}, "unpairing")

Decline(p) == Moves(p, {"idle"}, "declined")

Grant(p) ==
    /\ state[p] \in AskedForTrust /\ p \notin granted \cup revoked
    /\ trusted' = TRUE
    /\ granted' = granted \cup {p}
    /\ UNCHANGED <<state, revoked>>

Revoke(p) ==
    /\ state[p] \in {"undoing", "failed", "unpairing", "unpaired", "not_unpaired", "killed"}
    /\ trusted' = FALSE
    /\ revoked' = revoked \cup {p}
    /\ UNCHANGED <<state, granted>>

Succeed(p) == p \in granted \ revoked /\ Moves(p, {"pairing"}, "paired")

GiveUp(p) == Moves(p, {"pairing"}, "undoing")

Return(p) ==
    \/ Moves(p, {"undoing"}, "failed")
    \/ \E end \in {"unpaired", "not_unpaired"} : Moves(p, {"unpairing"}, end)

Kill(p) == Moves(p, {"pairing", "undoing", "unpairing"}, "killed")

Next == \E p \in Proc : \/ Ask(p) \/ Decline(p) \/ Grant(p) \/ Revoke(p)
                        \/ Succeed(p) \/ GiveUp(p) \/ Return(p) \/ Kill(p)

Spec == Init /\ [][Next]_vars
==============================================================================
