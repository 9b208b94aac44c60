---------------------------- MODULE PairingProofs ----------------------------
(***************************************************************************)
(* Proofs about Pairing for any set of runs and any host: its types, that  *)
(* success was granted, that what was undone stays undone, and that it     *)
(* implements PairingContract.                                             *)
(***************************************************************************)
EXTENDS Pairing, TLAPS

----------------------------------------------------------------------------
(* The inductive invariant.  Success depends on what requests may still    *)
(* reach the host: at most one of a pairing that was given up.             *)

(* Where a run is whose secret was accepted, which happens once.           *)
GrantedWhen ==
    \A p \in granted :
      /\ \/ pc[p] = "clientpairingsecret" /\ reply[p] # "none"
         \/ pc[p] \in {"pairchallenge", "paired", "undo", "failed", "killed"}
      /\ <<p, "clientpairingsecret">> \notin late

(* A run that goes on after its secret was granted.                        *)
GrantKnown ==
    \A p \in Proc :
      (\/ pc[p] = "clientpairingsecret" /\ reply[p] = "1"
       \/ pc[p] \in {"pairchallenge", "paired"})
      => p \in granted

RevokedWhen ==
    \A p \in revoked :
      pc[p] \in {"undo", "failed", "unpair", "unpaired", "not_unpaired", "killed"}

(* A request is late only once its run has given it up.                    *)
LateWhen ==
    \A r \in late :
      /\ r[2] \in Phase => \/ pc[r[1]] = r[2] /\ reply[r[1]] = "error"
                           \/ pc[r[1]] \in {"undo", "failed", "killed"}
      /\ r[2] = "undo" => pc[r[1]] \in {"undo", "failed", "killed"}
      /\ r[2] = "unpair" => pc[r[1]] \in {"unpair", "unpaired", "not_unpaired", "killed"}

LateOnce ==
    \A p \in Proc : \A a, b \in Phase : <<p, a>> \in late /\ <<p, b>> \in late => a = b

(* A session that a late request opened after the undo gets no further.    *)
NoReopening ==
    \A p \in revoked : session.owner = p => \A a \in Phase : <<p, a>> \notin late

(* Trust the host has had from some run is still wished for by one.        *)
TrustIsFresh == trusted /\ granted # {} => \E p \in granted : p \notin revoked

(* The host dealt with an undo that was answered.                          *)
UndoDealtWith ==
    \A p \in Proc :
      (\/ pc[p] = "undo" /\ reply[p] \in {"1", "0"}
       \/ pc[p] = "failed" /\ p \notin unanswered)
      => p \in revoked

IInv == /\ TypeOK /\ GrantedWhen /\ GrantKnown /\ RevokedWhen
        /\ LateWhen /\ LateOnce /\ NoReopening
        /\ TrustIsFresh /\ UndoDealtWith

----------------------------------------------------------------------------
(* The steps in a form that is easy to use.                                *)

(* Where a run goes when it is not killed.                                 *)
Goes(p, at) ==
    \/ pc[p] = "start" /\ at \in {"no_server", "wrong_state", "out_of_memory",
                                  "getservercert", "unpair"}
    \/ pc[p] \in Phase /\ reply[p] = "1" /\ at = NextPhase(pc[p])
    \/ pc[p] \in Phase /\ reply[p] \in {"0", "error"} /\ at = "undo"
    \/ pc[p] = "undo" /\ reply[p] # "none" /\ at = "failed"
    \/ pc[p] = "unpair" /\ reply[p] # "none" /\ at \in {"unpaired", "not_unpaired"}

(* Every step of a run is one of these, or it is killed.                   *)
LEMMA ClientSteps ==
    ASSUME NEW p \in Proc, Client(p)
    PROVE  Killed(p) \/ \E at : Goes(p, at) /\ Becomes(p, at)
<1>1. CASE StartPair(p)
  <2>1. pc[p] = "start" /\ \E at \in {"no_server", "wrong_state", "getservercert",
                                      "out_of_memory"} : Becomes(p, at)
    BY <1>1 DEF StartPair
  <2> QED
    BY <2>1 DEF Goes
<1>2. CASE StartUnpair(p)
  <2>1. pc[p] = "start" /\ \E at \in {"no_server", "unpair", "out_of_memory"} : Becomes(p, at)
    BY <1>2 DEF StartUnpair
  <2> QED
    BY <2>1 DEF Goes
<1>3. CASE PairGoesOn(p)
  BY <1>3 DEF PairGoesOn, Goes
<1>4. CASE PairFails(p)
  BY <1>4 DEF PairFails, Goes
<1>5. CASE PairReturns(p)
  BY <1>5 DEF PairReturns, Goes
<1>6. CASE UnpairReturns(p)
  BY <1>6 DEF UnpairReturns, Goes
<1> QED
  BY <1>1, <1>2, <1>3, <1>4, <1>5, <1>6 DEF Client

(* The answer to a step of gs_pair leads to its next step.                 *)
LEMMA NextPhaseIs ==
    ASSUME NEW phase \in Phase
    PROVE  /\ NextPhase(phase) \in (Phase \ {"getservercert"}) \cup {"paired"}
           /\ NextPhase(phase) = "clientpairingsecret" => phase = "serverchallengeresp"
           /\ NextPhase(phase) = "pairchallenge" => phase = "clientpairingsecret"
           /\ NextPhase(phase) = "paired" => phase = "pairchallenge"
BY DEF NextPhase, Phase

(* What the host does with a request of p, as far as the proofs tell.      *)
Grants(p, request) ==
    /\ request = "clientpairingsecret" /\ session.owner = p
    /\ granted' = granted \cup {p} /\ trusted' = TRUE
    /\ revoked' = revoked /\ session' = NoSession

Revokes(p, request) ==
    /\ request \in {"undo", "unpair"}
    /\ revoked' = revoked \cup {p} /\ trusted' = FALSE
    /\ granted' = granted /\ session' = NoSession

Keeps(p, request) ==
    /\ trusted' = trusted /\ granted' = granted /\ revoked' = revoked
    /\ session' \in Session \cup {NoSession}
    /\ \/ session' = NoSession
       \/ session'.owner = session.owner
       \/ request = "getservercert" /\ session'.owner = p

HostDoes(p, request) ==
    Grants(p, request) \/ Revokes(p, request) \/ Keeps(p, request)

LEMMA HostEffects ==
    ASSUME TypeOK, NEW p \in Proc, NEW request \in Request,
           Accepts(p, request) \/ Refuses(p, request) \/ Unpairs(p, request)
    PROVE  HostDoes(p, request)
<1>1. CASE request = "getservercert" /\ TakesCert(p)
  BY <1>1 DEF TakesCert, Keeps, HostDoes, Session, Phase
<1>2. CASE request \in {"clientchallenge", "serverchallengeresp"} /\ TakesChallenge(p, request)
  <2>1. session \in Session
    BY <1>2, NoneAssumption DEF TypeOK, TakesChallenge, Follows, NoSession
  <2> QED
    BY <1>2, <2>1 DEF TakesChallenge, Keeps, HostDoes, Session, Phase
<1>3. CASE request = "clientpairingsecret" /\ TakesSecret(p)
  BY <1>3 DEF TakesSecret, Follows, Grants, HostDoes
<1>4. CASE request = "pairchallenge" /\ UNCHANGED hostVars
  BY <1>4 DEF TypeOK, hostVars, Keeps, HostDoes
<1>5. CASE Refuses(p, request)
  BY <1>5 DEF TypeOK, Refuses, Keeps, HostDoes
<1>6. CASE Unpairs(p, request)
  BY <1>6 DEF Unpairs, Revokes, HostDoes
<1> QED
  BY <1>1, <1>2, <1>3, <1>4, <1>5, <1>6 DEF Accepts

(* Nobody owns a session that is none.                                     *)
LEMMA NobodyOwnsNoSession == NoSession.owner \notin Proc
BY NoneAssumption DEF NoSession

LEMMA HostTypes ==
    ASSUME TypeOK, NEW p \in Proc, NEW request \in Request, HostDoes(p, request)
    PROVE  /\ trusted' \in BOOLEAN
           /\ session' \in Session \cup {NoSession}
           /\ granted' \subseteq Proc /\ revoked' \subseteq Proc
BY DEF TypeOK, HostDoes, Grants, Revokes, Keeps

(* A late request is one of a run.                                         *)
LEMMA LateIs ==
    ASSUME TypeOK, NEW r \in late
    PROVE  r[1] \in Proc /\ r[2] \in Request /\ r = <<r[1], r[2]>>
BY DEF TypeOK

----------------------------------------------------------------------------
(* Each action keeps the invariant.                                        *)

LEMMA InitInv == Init => IInv
<1> SUFFICES ASSUME Init PROVE IInv
  OBVIOUS
<1>1. TypeOK
  BY DEF Init, TypeOK
<1>2. GrantKnown /\ UndoDealtWith
  BY DEF Init, GrantKnown, UndoDealtWith
<1> QED
  BY <1>1, <1>2 DEF Init, IInv, GrantedWhen, RevokedWhen, LateWhen, LateOnce,
                    NoReopening, TrustIsFresh

LEMMA AnswersInv ==
    ASSUME IInv, NEW p \in Proc, HostAnswers(p)
    PROVE  IInv'
<1> USE DEF IInv
<1>1. /\ pc[p] \in Request /\ reply[p] = "none"
      /\ pc' = pc /\ late' = late /\ unanswered' = unanswered
      /\ \E a \in {"1", "0", "error"} : reply' = [reply EXCEPT ![p] = a]
  BY DEF HostAnswers, Waiting
<1>2. HostDoes(p, pc[p])
  BY <1>1, HostEffects DEF HostAnswers
<1>3. \A q \in Proc : q # p => reply'[q] = reply[q]
  BY <1>1 DEF TypeOK
<1>4. reply'[p] \in {"1", "0", "error"}
  BY <1>1 DEF TypeOK
<1>5. reply'[p] = "1" /\ pc[p] = "clientpairingsecret" => p \in granted'
  BY <1>1 DEF HostAnswers, TypeOK, Accepts, Unpairs, TakesSecret
<1>6. TypeOK'
  <2>1. reply' \in [Proc -> {"none", "1", "0", "error"}]
    BY <1>1 DEF TypeOK
  <2> QED
    BY <1>1, <1>2, <2>1, HostTypes DEF TypeOK
<1>7. GrantedWhen'
  <2> SUFFICES ASSUME NEW q \in granted'
               PROVE  /\ \/ pc[q] = "clientpairingsecret" /\ reply'[q] # "none"
                         \/ pc[q] \in {"pairchallenge", "paired", "undo", "failed", "killed"}
                      /\ <<q, "clientpairingsecret">> \notin late
    BY <1>1 DEF GrantedWhen
  <2>1. CASE q \in granted
    BY <1>3, <1>4, <2>1 DEF GrantedWhen, TypeOK
  <2>2. CASE q \notin granted
    <3>1. q = p /\ pc[p] = "clientpairingsecret"
      BY <1>2, <2>2 DEF HostDoes, Grants, Revokes, Keeps
    <3>2. <<p, "clientpairingsecret">> \notin late
      BY <1>1, <3>1 DEF LateWhen, Phase
    <3> QED
      BY <1>4, <3>1, <3>2
  <2> QED
    BY <2>1, <2>2
<1>8. GrantKnown'
  <2>1. granted \subseteq granted'
    BY <1>2 DEF HostDoes, Grants, Revokes, Keeps
  <2> QED
    BY <1>1, <1>3, <1>5, <2>1 DEF GrantKnown
<1>9. RevokedWhen'
  BY <1>1, <1>2 DEF RevokedWhen, HostDoes, Grants, Revokes, Keeps
<1>10. LateWhen'
  BY <1>1, <1>3 DEF LateWhen, TypeOK
<1>11. LateOnce'
  BY <1>1 DEF LateOnce
<1>12. NoReopening'
  <2> SUFFICES ASSUME NEW q \in revoked', session'.owner = q, NEW a \in Phase
               PROVE  <<q, a>> \notin late
    BY <1>1 DEF NoReopening
  <2>1. q \in Proc
    BY <1>6 DEF TypeOK
  <2>2. session' # NoSession
    BY <2>1, NobodyOwnsNoSession
  <2>3. q \in revoked
    BY <1>2, <2>2 DEF HostDoes, Grants, Revokes, Keeps
  <2>4. CASE session.owner = q
    BY <2>3, <2>4 DEF NoReopening
  <2>5. CASE pc[p] = "getservercert" /\ q = p
    BY <2>3, <2>5 DEF RevokedWhen
  <2> QED
    BY <1>2, <2>2, <2>4, <2>5 DEF HostDoes, Grants, Revokes, Keeps
<1>13. TrustIsFresh'
  <2>1. pc[p] = "clientpairingsecret" => p \notin revoked
    BY DEF RevokedWhen
  <2> QED
    BY <1>2, <2>1 DEF TrustIsFresh, HostDoes, Grants, Revokes, Keeps
<1>14. UndoDealtWith'
  <2>1. revoked \subseteq revoked'
    BY <1>2 DEF HostDoes, Grants, Revokes, Keeps
  <2>2. pc[p] = "undo" => p \in revoked'
    BY <1>1 DEF HostAnswers, Accepts, Refuses, Unpairs, Phase
  <2> QED
    BY <1>1, <1>3, <2>1, <2>2 DEF UndoDealtWith
<1> QED
  BY <1>6, <1>7, <1>8, <1>9, <1>10, <1>11, <1>12, <1>13, <1>14

LEMMA LateInv ==
    ASSUME IInv, HostDealsLate
    PROVE  IInv'
<1> USE DEF IInv
<1>1. PICK r \in late : /\ late' = late \ {r}
                        /\ Accepts(r[1], r[2]) \/ Refuses(r[1], r[2]) \/ Unpairs(r[1], r[2])
                        /\ UNCHANGED clientVars
  BY DEF HostDealsLate
<1>2. r[1] \in Proc /\ r[2] \in Request /\ r = <<r[1], r[2]>>
  BY LateIs
<1>3. HostDoes(r[1], r[2])
  BY <1>1, <1>2, HostEffects
<1>4. pc' = pc /\ reply' = reply /\ unanswered' = unanswered
  BY <1>1 DEF clientVars
<1>6. TypeOK'
  BY <1>1, <1>2, <1>3, <1>4, HostTypes DEF TypeOK
<1>7. GrantedWhen'
  <2> SUFFICES ASSUME NEW q \in granted'
               PROVE  /\ \/ pc[q] = "clientpairingsecret" /\ reply[q] # "none"
                         \/ pc[q] \in {"pairchallenge", "paired", "undo", "failed", "killed"}
                      /\ <<q, "clientpairingsecret">> \notin late'
    BY <1>4 DEF GrantedWhen
  <2>1. CASE q \in granted
    BY <1>1, <2>1 DEF GrantedWhen
  <2>2. CASE q \notin granted
    <3>1. q = r[1] /\ r[2] = "clientpairingsecret"
      BY <1>3, <2>2 DEF HostDoes, Grants, Revokes, Keeps
    <3> QED
      BY <1>1, <1>2, <3>1 DEF LateWhen, Phase
  <2> QED
    BY <2>1, <2>2
<1>8. GrantKnown'
  BY <1>3, <1>4 DEF GrantKnown, HostDoes, Grants, Revokes, Keeps
<1>9. RevokedWhen'
  <2> SUFFICES ASSUME NEW q \in revoked'
               PROVE  pc[q] \in {"undo", "failed", "unpair", "unpaired", "not_unpaired", "killed"}
    BY <1>4 DEF RevokedWhen
  <2>1. CASE q \in revoked
    BY <2>1 DEF RevokedWhen
  <2>2. CASE q \notin revoked
    <3>1. q = r[1] /\ r[2] \in {"undo", "unpair"}
      BY <1>3, <2>2 DEF HostDoes, Grants, Revokes, Keeps
    <3> QED
      BY <3>1 DEF LateWhen
  <2> QED
    BY <2>1, <2>2
<1>10. LateWhen'
  BY <1>1, <1>4 DEF LateWhen
<1>11. LateOnce'
  BY <1>1 DEF LateOnce
<1>12. NoReopening'
  <2> SUFFICES ASSUME NEW q \in revoked', session'.owner = q, NEW a \in Phase
               PROVE  <<q, a>> \notin late'
    BY DEF NoReopening
  <2>1. q \in Proc
    BY <1>6 DEF TypeOK
  <2>2. session' # NoSession
    BY <2>1, NobodyOwnsNoSession
  <2>3. q \in revoked
    BY <1>3, <2>2 DEF HostDoes, Grants, Revokes, Keeps
  <2>4. CASE session.owner = q
    BY <1>1, <2>3, <2>4 DEF NoReopening
  <2>5. CASE r[2] = "getservercert" /\ q = r[1]
    BY <1>1, <1>2, <2>1, <2>5 DEF LateOnce, Phase
  <2> QED
    BY <1>3, <2>2, <2>4, <2>5 DEF HostDoes, Grants, Revokes, Keeps
<1>13. TrustIsFresh'
  <2>1. r[2] = "clientpairingsecret" /\ session.owner = r[1] => r[1] \notin revoked
    BY <1>2 DEF NoReopening, Phase
  <2> QED
    BY <1>3, <2>1 DEF TrustIsFresh, HostDoes, Grants, Revokes, Keeps
<1>14. UndoDealtWith'
  BY <1>3, <1>4 DEF UndoDealtWith, HostDoes, Grants, Revokes, Keeps
<1> QED
  BY <1>6, <1>7, <1>8, <1>9, <1>10, <1>11, <1>12, <1>13, <1>14

(* A request is given up: the connection fails, or the run is killed.      *)
GivesUp(p) ==
    /\ pc[p] \in Request /\ UNCHANGED hostVars
    /\ \/ pc' = pc /\ reply' = [reply EXCEPT ![p] = "error"] /\ reply[p] = "none"
       \/ pc' = [pc EXCEPT ![p] = "killed"] /\ reply' = [reply EXCEPT ![p] = "none"]
    /\ \/ late' = late
       \/ late' = late \cup {<<p, pc[p]>>} /\ reply[p] = "none"

LEMMA GivesUpInv ==
    ASSUME IInv, NEW p \in Proc, GivesUp(p), unanswered' = unanswered
    PROVE  IInv'
<1> USE DEF IInv
<1>1. /\ trusted' = trusted /\ session' = session
      /\ granted' = granted /\ revoked' = revoked
  BY DEF GivesUp, hostVars
<1>2. \A q \in Proc : q # p => pc'[q] = pc[q] /\ reply'[q] = reply[q]
  BY DEF GivesUp, TypeOK
<1>3. \/ pc'[p] = pc[p] /\ reply'[p] = "error" /\ reply[p] = "none"
      \/ pc'[p] = "killed"
  BY DEF GivesUp, TypeOK
<1>4. TypeOK'
  BY <1>1 DEF TypeOK, GivesUp, Request, Outcome
<1>5. \A r \in late' : r \in late \/ (r = <<p, pc[p]>> /\ reply[p] = "none")
  BY DEF GivesUp
<1>6. GrantedWhen'
  <2> SUFFICES ASSUME NEW q \in granted
               PROVE  /\ \/ pc'[q] = "clientpairingsecret" /\ reply'[q] # "none"
                         \/ pc'[q] \in {"pairchallenge", "paired", "undo", "failed", "killed"}
                      /\ <<q, "clientpairingsecret">> \notin late'
    BY <1>1 DEF GrantedWhen
  <2>1. q \in Proc
    BY DEF TypeOK
  <2>2. \/ pc'[q] = "clientpairingsecret" /\ reply'[q] # "none"
        \/ pc'[q] \in {"pairchallenge", "paired", "undo", "failed", "killed"}
    BY <1>2, <1>3, <2>1 DEF GrantedWhen
  <2>3. <<q, "clientpairingsecret">> \notin late'
    BY <1>5, <2>1 DEF GrantedWhen
  <2> QED
    BY <2>2, <2>3
<1>7. GrantKnown'
  BY <1>1, <1>2, <1>3 DEF GrantKnown
<1>8. RevokedWhen'
  BY <1>1, <1>2, <1>3 DEF RevokedWhen, TypeOK
<1>9. LateWhen'
  <2> SUFFICES ASSUME NEW r \in late'
               PROVE  /\ r[2] \in Phase => \/ pc'[r[1]] = r[2] /\ reply'[r[1]] = "error"
                                           \/ pc'[r[1]] \in {"undo", "failed", "killed"}
                      /\ r[2] = "undo" => pc'[r[1]] \in {"undo", "failed", "killed"}
                      /\ r[2] = "unpair" =>
                           pc'[r[1]] \in {"unpair", "unpaired", "not_unpaired", "killed"}
    BY DEF LateWhen
  <2>1. CASE r \in late
    <3>1. r[1] \in Proc
      BY <2>1, LateIs
    <3> QED
      BY <1>2, <1>3, <2>1, <3>1 DEF LateWhen
  <2>2. CASE r = <<p, pc[p]>> /\ reply[p] = "none"
    BY <1>3, <2>2
  <2> QED
    BY <1>5, <2>1, <2>2
<1>10. LateOnce'
  <2> SUFFICES ASSUME NEW q \in Proc, NEW a \in Phase, NEW b \in Phase,
                      <<q, a>> \in late', <<q, b>> \in late'
               PROVE  a = b
    BY DEF LateOnce
  <2>1. CASE <<q, a>> \in late /\ <<q, b>> \in late
    BY <2>1 DEF LateOnce
  <2>2. CASE <<q, a>> \in late /\ q = p /\ b = pc[p] /\ reply[p] = "none"
    BY <2>2 DEF LateWhen, Phase
  <2>3. CASE <<q, b>> \in late /\ q = p /\ a = pc[p] /\ reply[p] = "none"
    BY <2>3 DEF LateWhen, Phase
  <2> QED
    BY <1>5, <2>1, <2>2, <2>3
<1>11. NoReopening'
  <2> SUFFICES ASSUME NEW q \in revoked, session.owner = q, NEW a \in Phase
               PROVE  <<q, a>> \notin late'
    BY <1>1 DEF NoReopening
  <2>1. <<q, a>> \notin late
    BY DEF NoReopening
  <2>2. q = p => a # pc[p]
    BY DEF RevokedWhen, Phase
  <2> QED
    BY <1>5, <2>1, <2>2
<1>12. TrustIsFresh'
  BY <1>1 DEF TrustIsFresh
<1>13. UndoDealtWith'
  BY <1>1, <1>2, <1>3 DEF UndoDealtWith
<1> QED
  BY <1>4, <1>6, <1>7, <1>8, <1>9, <1>10, <1>11, <1>12, <1>13

LEMMA BecomesInv ==
    ASSUME IInv, NEW p \in Proc, NEW at, Goes(p, at), Becomes(p, at)
    PROVE  IInv'
<1> USE DEF IInv
<1>1. /\ trusted' = trusted /\ session' = session /\ late' = late
      /\ granted' = granted /\ revoked' = revoked
      /\ pc' = [pc EXCEPT ![p] = at] /\ reply' = [reply EXCEPT ![p] = "none"]
      /\ unanswered' = unanswered \/ unanswered' = unanswered \cup {p}
  BY DEF Becomes, hostVars
<1>2. \A q \in Proc : q # p => pc'[q] = pc[q] /\ reply'[q] = reply[q]
  BY <1>1 DEF TypeOK
<1>3. pc'[p] = at /\ reply'[p] = "none"
  BY <1>1 DEF TypeOK
<1>4. at \in {"start"} \cup Request \cup Outcome
  BY NextPhaseIs DEF Goes, Request, Outcome, Phase
<1>5. TypeOK'
  BY <1>1, <1>4 DEF TypeOK
<1>6. GrantedWhen'
  <2> SUFFICES ASSUME NEW q \in granted
               PROVE  /\ \/ pc'[q] = "clientpairingsecret" /\ reply'[q] # "none"
                         \/ pc'[q] \in {"pairchallenge", "paired", "undo", "failed", "killed"}
                      /\ <<q, "clientpairingsecret">> \notin late
    BY <1>1 DEF GrantedWhen
  <2>1. q \in Proc
    BY DEF TypeOK
  <2>2. CASE q = p
    BY <1>3, <2>2 DEF GrantedWhen, Goes, NextPhase, Phase
  <2> QED
    BY <1>2, <2>1, <2>2 DEF GrantedWhen
<1>7. GrantKnown'
  <2>1. at \in {"pairchallenge", "paired"} => p \in granted
    BY NextPhaseIs DEF Goes, GrantKnown, Phase
  <2> QED
    BY <1>1, <1>2, <1>3, <2>1 DEF GrantKnown
<1>8. RevokedWhen'
  <2>1. p \in revoked => at \in {"undo", "failed", "unpair", "unpaired", "not_unpaired", "killed"}
    BY DEF RevokedWhen, Goes, Phase
  <2> QED
    BY <1>1, <1>2, <1>3, <2>1 DEF RevokedWhen, TypeOK
<1>9. LateWhen'
  <2> SUFFICES ASSUME NEW r \in late
               PROVE  /\ r[2] \in Phase => \/ pc'[r[1]] = r[2] /\ reply'[r[1]] = "error"
                                           \/ pc'[r[1]] \in {"undo", "failed", "killed"}
                      /\ r[2] = "undo" => pc'[r[1]] \in {"undo", "failed", "killed"}
                      /\ r[2] = "unpair" =>
                           pc'[r[1]] \in {"unpair", "unpaired", "not_unpaired", "killed"}
    BY <1>1 DEF LateWhen
  <2>1. r[1] \in Proc
    BY LateIs
  <2>2. CASE r[1] = p
    BY <1>3, <2>2 DEF LateWhen, Goes, Phase
  <2> QED
    BY <1>2, <2>1, <2>2 DEF LateWhen
<1>10. LateOnce' /\ NoReopening'
  BY <1>1 DEF LateOnce, NoReopening
<1>11. TrustIsFresh'
  BY <1>1 DEF TrustIsFresh
<1>12. UndoDealtWith'
  <2>1. at = "failed" => p \in unanswered' \/ p \in revoked
    BY DEF Goes, Becomes, UndoDealtWith, TypeOK, NextPhase, Phase
  <2> QED
    BY <1>1, <1>2, <1>3, <2>1 DEF UndoDealtWith
<1> QED
  BY <1>5, <1>6, <1>7, <1>8, <1>9, <1>10, <1>11, <1>12

LEMMA StutterInv == IInv /\ UNCHANGED vars => IInv'
BY DEF vars, IInv, TypeOK, GrantedWhen, GrantKnown, RevokedWhen, LateWhen, LateOnce,
       NoReopening, TrustIsFresh, UndoDealtWith

LEMMA NextInv == IInv /\ [Next]_vars => IInv'
<1> SUFFICES ASSUME IInv, [Next]_vars PROVE IInv'
  OBVIOUS
<1>1. CASE HostDealsLate
  BY <1>1, LateInv
<1>2. ASSUME NEW p \in Proc, HostAnswers(p) PROVE IInv'
  BY <1>2, AnswersInv
<1>3. ASSUME NEW p \in Proc, ConnectionFails(p) PROVE IInv'
  BY <1>3, GivesUpInv DEF ConnectionFails, Waiting, GivesUp
<1>4. ASSUME NEW p \in Proc, Client(p) PROVE IInv'
  <2>1. CASE Killed(p)
    BY <2>1, GivesUpInv DEF Killed, GivesUp
  <2>2. ASSUME NEW at, Goes(p, at), Becomes(p, at) PROVE IInv'
    BY <2>2, BecomesInv
  <2> QED
    BY <1>4, <2>1, <2>2, ClientSteps
<1>5. CASE UNCHANGED vars
  BY <1>5, StutterInv
<1> QED
  BY <1>1, <1>2, <1>3, <1>4, <1>5 DEF Next, Host

LEMMA InvHolds == Spec => []IInv
BY InitInv, NextInv, PTL DEF Spec

----------------------------------------------------------------------------
(* The invariants.                                                         *)

(* The variables keep their types, with any number of runs.                *)
THEOREM TypeCorrect == Spec => []TypeOK
BY InvHolds, PTL DEF IInv

(* gs_pair returns GS_OK only to a run whose own secret the host accepted  *)
(* and whose trust nobody took back since: GrantKnown and RevokedWhen.     *)
THEOREM SuccessWasGranted == Spec => []PairedWasGranted
<1>1. IInv => PairedWasGranted
  BY DEF IInv, GrantKnown, RevokedWhen, PairedWasGranted
<1> QED
  BY <1>1, InvHolds, PTL

(* No failed run leaves trust behind: at rest a run whose secret was       *)
(* accepted succeeded, or its undo was dealt with.                         *)
THEOREM NoTrustLeftBehind == Spec => []NoGhostTrust
<1>1. IInv => NoGhostTrust
  <2> SUFFICES ASSUME IInv, AtRest, trusted, granted # {}
               PROVE  \E p \in granted : pc[p] = "paired"
    BY DEF NoGhostTrust
  <2>1. PICK p \in granted : p \notin revoked
    BY DEF IInv, TrustIsFresh
  <2>2. p \in Proc
    BY DEF IInv, TypeOK
  <2>3. pc[p] \in {"paired", "failed"}
    BY <2>1, <2>2 DEF IInv, GrantedWhen, AtRest, Outcome
  <2>4. pc[p] # "failed"
    BY <2>1, <2>2 DEF IInv, UndoDealtWith, AtRest
  <2> QED
    BY <2>1, <2>3, <2>4
<1> QED
  BY <1>1, InvHolds, PTL

----------------------------------------------------------------------------
(* What a step makes of trust.                                             *)

(* Trust is granted to a run for the first time, and before it is revoked. *)
LEMMA GrantsAfresh ==
    ASSUME IInv, NEW p \in Proc, NEW request \in Request, Grants(p, request),
           \/ pc[p] = request /\ reply[p] = "none"
           \/ <<p, request>> \in late
    PROVE  /\ p \notin granted \cup revoked
           /\ pc[p] \in {"clientpairingsecret", "undo", "failed", "killed"}
<1> USE DEF IInv
<1>1. CASE pc[p] = request /\ reply[p] = "none"
  BY <1>1 DEF Grants, GrantedWhen, RevokedWhen
<1>2. CASE <<p, request>> \in late
  <2>1. request \in Phase
    BY DEF Grants, Phase
  <2>2. p \notin revoked
    BY <1>2, <2>1 DEF Grants, NoReopening
  <2>3. p \notin granted
    BY <1>2 DEF Grants, GrantedWhen
  <2>4. pc[p] \in {"clientpairingsecret", "undo", "failed", "killed"}
    BY <1>2, <2>1 DEF Grants, LateWhen
  <2> QED
    BY <2>2, <2>3, <2>4
<1> QED
  BY <1>1, <1>2

LEMMA RevokesWhenAsked ==
    ASSUME IInv, NEW p \in Proc, NEW request \in Request, Revokes(p, request),
           \/ pc[p] = request /\ reply[p] = "none"
           \/ <<p, request>> \in late
    PROVE  pc[p] \in {"undo", "failed", "unpair", "unpaired", "not_unpaired", "killed"}
BY DEF IInv, Revokes, LateWhen

(* Every step of the host deals with a request that is under way.          *)
LEMMA HostDealsWith ==
    ASSUME IInv, Host
    PROVE  /\ pc' = pc
           /\ \/ UNCHANGED hostVars
              \/ \E p \in Proc, request \in Request :
                   /\ HostDoes(p, request)
                   /\ \/ pc[p] = request /\ reply[p] = "none"
                      \/ <<p, request>> \in late
<1> USE DEF IInv
<1>1. CASE HostDealsLate
  <2>1. PICK r \in late : /\ Accepts(r[1], r[2]) \/ Refuses(r[1], r[2]) \/ Unpairs(r[1], r[2])
                          /\ UNCHANGED clientVars
    BY <1>1 DEF HostDealsLate
  <2>2. r[1] \in Proc /\ r[2] \in Request /\ <<r[1], r[2]>> \in late
    BY LateIs
  <2> QED
    BY <2>1, <2>2, HostEffects DEF clientVars
<1>2. ASSUME NEW p \in Proc, HostAnswers(p)
      PROVE  pc' = pc /\ HostDoes(p, pc[p]) /\ reply[p] = "none" /\ pc[p] \in Request
  BY <1>2, HostEffects DEF HostAnswers, Waiting
<1>3. ASSUME NEW p \in Proc, ConnectionFails(p)
      PROVE  pc' = pc /\ UNCHANGED hostVars
  BY <1>3 DEF ConnectionFails
<1> QED
  BY <1>1, <1>2, <1>3 DEF Host

LEMMA ClientLeavesHost ==
    ASSUME NEW p \in Proc, Client(p)
    PROVE  UNCHANGED hostVars
BY ClientSteps DEF Killed, Becomes

(* A run whose undo was dealt with is never trusted again, however late    *)
(* its other requests come.                                                *)
THEOREM UndoneStaysUndone == Spec => UndoneForGood
<1>1. IInv /\ [Next]_vars => [\A p \in revoked : p \in granted' => p \in granted]_vars
  <2> SUFFICES ASSUME IInv, Next, NEW q \in revoked, q \in granted'
               PROVE  q \in granted
    BY DEF vars
  <2>1. CASE UNCHANGED hostVars
    BY <2>1 DEF hostVars
  <2>2. ASSUME NEW p \in Proc, NEW request \in Request, HostDoes(p, request),
               \/ pc[p] = request /\ reply[p] = "none"
               \/ <<p, request>> \in late
        PROVE  q \in granted
    BY <2>2, GrantsAfresh DEF HostDoes, Grants, Revokes, Keeps
  <2> QED
    BY <2>1, <2>2, HostDealsWith, ClientLeavesHost DEF Next
<1> QED
  BY <1>1, InvHolds, PTL DEF Spec, UndoneForGood

----------------------------------------------------------------------------
(* Pairing implements PairingContract.                                     *)

LEMMA ContractInit == Init => Contract!Init
<1> SUFFICES ASSUME Init PROVE Contract!Init
  OBVIOUS
<1>1. StateOf("start") = "idle"
  BY DEF StateOf, Phase
<1>2. \A p \in Proc : StateOf(pc[p]) = "idle"
  BY <1>1 DEF Init
<1>3. [p \in Proc |-> StateOf(pc[p])] = [p \in Proc |-> "idle"]
  BY <1>2
<1> QED
  BY <1>3 DEF Init, Contract!Init

(* A run that comes to another place moves the state of the contract.      *)
LEMMA StateMoves ==
    ASSUME TypeOK, NEW p \in Proc, NEW at, pc' = [pc EXCEPT ![p] = at], UNCHANGED hostVars,
           NEW from, StateOf(pc[p]) \in from
    PROVE  Contract!Moves(p, from, StateOf(at))
<1>1. \A q \in Proc : pc'[q] = IF q = p THEN at ELSE pc[q]
  BY DEF TypeOK
<1>2. \A q \in Proc : StateOf(pc'[q]) = IF q = p THEN StateOf(at) ELSE StateOf(pc[q])
  BY <1>1
<1>3. [q \in Proc |-> StateOf(pc'[q])]
        = [[q \in Proc |-> StateOf(pc[q])] EXCEPT ![p] = StateOf(at)]
  BY <1>2
<1> QED
  BY <1>3 DEF Contract!Moves, hostVars

LEMMA ContractHost ==
    ASSUME IInv, Host
    PROVE  [Contract!Next]_(Contract!vars)
<1>1. pc' = pc
  BY HostDealsWith
<1>2. CASE UNCHANGED hostVars
  BY <1>1, <1>2 DEF Contract!vars, hostVars
<1>3. ASSUME NEW p \in Proc, NEW request \in Request, HostDoes(p, request),
             \/ pc[p] = request /\ reply[p] = "none"
             \/ <<p, request>> \in late
      PROVE  [Contract!Next]_(Contract!vars)
  <2>1. CASE Grants(p, request)
    <3>1. /\ p \notin granted \cup revoked
          /\ pc[p] \in {"clientpairingsecret", "undo", "failed", "killed"}
      BY <1>3, <2>1, GrantsAfresh
    <3>2. StateOf(pc[p]) \in {"pairing", "undoing", "failed", "killed"}
      BY <3>1 DEF StateOf, Phase
    <3>3. Contract!Grant(p)
      BY <1>1, <2>1, <3>1, <3>2 DEF Grants, Contract!Grant, Contract!AskedForTrust
    <3> QED
      BY <3>3 DEF Contract!Next
  <2>2. CASE Revokes(p, request)
    <3>1. pc[p] \in {"undo", "failed", "unpair", "unpaired", "not_unpaired", "killed"}
      BY <1>3, <2>2, RevokesWhenAsked
    <3>2. StateOf(pc[p]) \in {"undoing", "failed", "unpairing", "unpaired", "not_unpaired",
                              "killed"}
      BY <3>1 DEF StateOf, Phase
    <3>3. Contract!Revoke(p)
      BY <1>1, <2>2, <3>2 DEF Revokes, Contract!Revoke
    <3> QED
      BY <3>3 DEF Contract!Next
  <2>3. CASE Keeps(p, request)
    BY <1>1, <2>3 DEF Keeps, Contract!vars
  <2> QED
    BY <1>3, <2>1, <2>2, <2>3 DEF HostDoes
<1> QED
  BY <1>2, <1>3, HostDealsWith

LEMMA ContractClient ==
    ASSUME IInv, NEW p \in Proc, Client(p)
    PROVE  [Contract!Next]_(Contract!vars)
<1> USE DEF IInv
<1>1. UNCHANGED hostVars
  BY ClientLeavesHost
<1>2. CASE Killed(p)
  <2>1. StateOf(pc[p]) \in {"pairing", "undoing", "unpairing"} /\ StateOf("killed") = "killed"
    BY <1>2 DEF Killed, StateOf, Request, Phase
  <2>2. Contract!Kill(p)
    BY <1>1, <1>2, <2>1, StateMoves DEF Killed, Contract!Kill
  <2> QED
    BY <2>2 DEF Contract!Next
<1>3. ASSUME NEW at, Goes(p, at), Becomes(p, at)
      PROVE  [Contract!Next]_(Contract!vars)
  <2>1. pc' = [pc EXCEPT ![p] = at]
    BY <1>3 DEF Becomes
  <2>2. CASE pc[p] = "start" /\ at \in {"no_server", "wrong_state", "out_of_memory"}
    <3>1. StateOf(pc[p]) = "idle" /\ StateOf(at) = "declined"
      BY <2>2 DEF StateOf, Phase
    <3> QED
      BY <1>1, <2>1, <3>1, StateMoves DEF Contract!Decline, Contract!Next
  <2>3. CASE pc[p] = "start" /\ at \in {"getservercert", "unpair"}
    <3>1. StateOf(pc[p]) = "idle" /\ StateOf(at) \in {"pairing", "unpairing"}
      BY <2>3 DEF StateOf, Phase
    <3>2. Contract!Moves(p, {"idle"}, StateOf(at))
      BY <1>1, <2>1, <3>1, StateMoves
    <3> QED
      BY <3>1, <3>2 DEF Contract!Ask, Contract!Next
  <2>4. CASE pc[p] \in Phase /\ reply[p] = "1" /\ at = NextPhase(pc[p])
    <3>1. CASE at \in Phase
      <4>1. StateOf(at) = StateOf(pc[p])
        BY <2>4, <3>1 DEF StateOf, Phase
      <4>2. \A q \in Proc : StateOf(pc'[q]) = StateOf(pc[q])
        BY <2>1, <4>1 DEF TypeOK
      <4>3. [q \in Proc |-> StateOf(pc'[q])] = [q \in Proc |-> StateOf(pc[q])]
        BY <4>2
      <4> QED
        BY <1>1, <4>3 DEF Contract!vars, hostVars
    <3>2. CASE at = "paired"
      <4>1. pc[p] = "pairchallenge"
        BY <2>4, <3>2, NextPhaseIs
      <4>2. p \in granted \ revoked
        BY <4>1 DEF GrantKnown, RevokedWhen
      <4>3. StateOf(pc[p]) = "pairing" /\ StateOf(at) = "paired"
        BY <3>2, <4>1 DEF StateOf, Phase
      <4>4. Contract!Moves(p, {"pairing"}, "paired")
        BY <1>1, <2>1, <4>3, StateMoves
      <4> QED
        BY <4>2, <4>4 DEF Contract!Succeed, Contract!Next
    <3> QED
      BY <2>4, <3>1, <3>2, NextPhaseIs
  <2>5. CASE pc[p] \in Phase /\ at = "undo"
    <3>1. StateOf(pc[p]) = "pairing" /\ StateOf(at) = "undoing"
      BY <2>5 DEF StateOf, Phase
    <3>2. Contract!Moves(p, {"pairing"}, "undoing")
      BY <1>1, <2>1, <3>1, StateMoves
    <3> QED
      BY <3>2 DEF Contract!GiveUp, Contract!Next
  <2>6. CASE pc[p] = "undo" /\ at = "failed"
    <3>1. StateOf(pc[p]) = "undoing" /\ StateOf(at) = "failed"
      BY <2>6 DEF StateOf, Phase
    <3>2. Contract!Moves(p, {"undoing"}, "failed")
      BY <1>1, <2>1, <3>1, StateMoves
    <3> QED
      BY <3>2 DEF Contract!Return, Contract!Next
  <2>7. CASE pc[p] = "unpair" /\ at \in {"unpaired", "not_unpaired"}
    <3>1. StateOf(pc[p]) = "unpairing" /\ StateOf(at) = at
      BY <2>7 DEF StateOf, Phase
    <3>2. Contract!Moves(p, {"unpairing"}, at)
      BY <1>1, <2>1, <3>1, StateMoves
    <3> QED
      BY <2>7, <3>2 DEF Contract!Return, Contract!Next
  <2> QED
    BY <1>3, <2>2, <2>3, <2>4, <2>5, <2>6, <2>7 DEF Goes
<1> QED
  BY <1>2, <1>3, ClientSteps

(* Runs that pair and unpair over requests that are lost, late or killed   *)
(* off keep the promise of the contract.                                   *)
THEOREM KeepsPromise == Spec => Promise
<1>1. IInv /\ [Next]_vars => [Contract!Next]_(Contract!vars)
  <2> SUFFICES ASSUME IInv, [Next]_vars PROVE [Contract!Next]_(Contract!vars)
    OBVIOUS
  <2>1. CASE UNCHANGED vars
    BY <2>1 DEF vars, Contract!vars
  <2> QED
    BY <2>1, ContractHost, ContractClient DEF Next
<1> QED
  BY <1>1, ContractInit, InvHolds, PTL DEF Spec, Promise, Contract!Spec
=============================================================================
