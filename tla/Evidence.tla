------------------------------ MODULE Evidence ------------------------------
(* The machine evidence of one incident and the repair that rests on it:   *)
(* the provider's snapshot (provider-investigation-service.ts over         *)
(* provider-evidence-service.ts), the receiver's observations              *)
(* (receiver-investigation-service.ts over                                 *)
(* receiver-observation-service.ts), the workflow events that say where    *)
(* the snapshot comes from (incident-workflow-event-service.ts) and the    *)
(* sandbox recovery (recovery-sandbox-service.ts) that reads both.         *)
(*                                                                         *)
(* Every answer comes out of a turn: a call starts it, follows its live    *)
(* stream to the end and reads its persisted events, of which TurnEvents   *)
(* says what they may be and what is taken from them. The sessions' own    *)
(* life is SessionBinding's and RecoveryAttempt's; here an incident's      *)
(* session is bound until it gets lost.                                    *)
EXTENDS TurnEvents

CONSTANTS
    Call,        \* requests in progress, in one process or several
    MaxTurn,     \* bound: turns
    Failed,      \* the delivery GitHub says failed with 500
    Once,        \* the business state "exactly one mutation"
    Bad          \* an answer that does not normalise

ASSUME EvidenceAssumption ==
    /\ MaxTurn \in Nat /\ Bad \in Delivery \intersect Business
    /\ Failed \in Delivery \ {Bad} /\ Once \in Business \ {Bad}

VARIABLES
    bound,         \* the incident's session is bound ACTIVE
    turns,         \* TrueForge's turns, in the order they were started
    evidence,      \* provider_evidence
    observations,  \* receiver_observations, by created_at
    events,        \* incident_workflow_events that name a turn
    attempt,       \* recovery_attempts
    call

evidenceVars == <<bound, turns, evidence, observations, events, attempt, call>>

Kind == {"provider", "receiver", "recovery"}
Turn == 1..MaxTurn
Running == Refused("running")
Outcomes == [provider |-> ProviderTurns, receiver |-> ReceiverTurns, recovery |-> RecoveryTurns]

NoEvidence == [answer |-> "none", turn |-> 0]
Fresh == [state |-> "NONE", answer |-> "none", turn |-> 0]
Away == [pc |-> "idle", kind |-> "provider", attempt |-> 1, turn |-> 0, first |-> 0]
Workflow == {"INVESTIGATION_FAILED", "INVESTIGATOR_STARTED", "EVIDENCE_CAPTURED",
             "EVIDENCE_REOBSERVED", "OBSERVATION_CONFLICT"}

EvidenceTypeOK ==
    /\ bound \in BOOLEAN
    /\ Len(turns) <= MaxTurn
    /\ \A t \in DOMAIN turns :
          turns[t].kind \in Kind /\ turns[t].got \in Outcomes[turns[t].kind] \union {Running}
    /\ evidence \in {NoEvidence} \union [answer : Delivery \ {Bad}, turn : Turn]
    /\ \A n \in DOMAIN observations : observations[n] \in [answer : Business \ {Bad}, turn : Turn]
    /\ events \in SUBSET [type : Workflow, turn : Turn]
    /\ attempt \in [state : {"NONE", "RUNNING", "FAILED", "REPAIR_VERIFIED"},
                    answer : Artifact \union {"none"}, turn : 0..MaxTurn]
    /\ call \in [Call -> [pc : {"idle", "ready", "start", "live", "collect", "capture"},
                          kind : Kind, attempt : 1..2, turn : 0..MaxTurn, first : 0..MaxTurn]]

EvidenceInit ==
    /\ bound = TRUE /\ turns = <<>> /\ evidence = NoEvidence /\ observations = <<>>
    /\ events = {} /\ attempt = Fresh /\ call = [c \in Call |-> Away]

(* What the answers have to be to be kept: a delivery of the incident's    *)
(* repository under the expected id, a business state of that delivery.    *)
NormalDelivery(answer) == answer \in Delivery \ {Bad}
NormalState(answer) == answer \in Business \ {Bad}

At(c, pc) == call[c].pc = pc
Is(c, kind) == call[c].kind = kind
Got(c) == turns[call[c].turn].got
GoTo(c, pc) == call' = [call EXCEPT ![c].pc = pc]
Return(c) == call' = [call EXCEPT ![c] = Away]
Append1(type, turn) == events' = events \union {[type |-> type, turn |-> turn]}

-----------------------------------------------------------------------------
(* Requests. The provider is asked while there is no snapshot              *)
(* (incident-investigation-service.ts:284, 299), the receiver about the    *)
(* delivery of the snapshot; the recovery wants the contradiction: GitHub  *)
(* says failed, and the newest observation says the change was made once.  *)

BeginProvider(c) ==
    /\ At(c, "idle") /\ bound /\ evidence = NoEvidence
    /\ call' = [call EXCEPT ![c] = [Away EXCEPT !.pc = "start"]]
    /\ UNCHANGED <<bound, turns, evidence, observations, events, attempt>>

BeginReceiver(c) ==
    /\ At(c, "idle") /\ bound /\ evidence # NoEvidence
    /\ call' = [call EXCEPT ![c] = [Away EXCEPT !.pc = "start", !.kind = "receiver"]]
    /\ UNCHANGED <<bound, turns, evidence, observations, events, attempt>>

Contradiction ==
    /\ evidence.answer = Failed
    /\ observations # <<>> /\ Last(observations).answer = Once

BeginRecovery(c) ==
    /\ At(c, "idle") /\ attempt.state = "NONE" /\ Contradiction
    /\ call' = [call EXCEPT ![c] = [Away EXCEPT !.pc = "ready", !.kind = "recovery"]]
    /\ UNCHANGED <<bound, turns, evidence, observations, events, attempt>>

(* markRunning, when the session is there. *)
RunRecovery(c) ==
    /\ At(c, "ready")
    /\ IF attempt.state = "NONE"
       THEN attempt' = [Fresh EXCEPT !.state = "RUNNING"] /\ GoTo(c, "start")
       ELSE UNCHANGED attempt /\ Return(c)
    /\ UNCHANGED <<bound, turns, evidence, observations, events>>

-----------------------------------------------------------------------------
(* Turns. A session has one at a time. *)

Busy(kind) ==
    \E t \in DOMAIN turns : /\ turns[t].got = Running
                            /\ (turns[t].kind = "recovery") = (kind = "recovery")

StartTurn(c) ==
    LET t == Len(turns) + 1
    IN  /\ At(c, "start") /\ ~Busy(call[c].kind) /\ t \in Turn
        /\ turns' = Append(turns, [kind |-> call[c].kind, got |-> Running])
        /\ call' = [call EXCEPT ![c].pc = "live", ![c].turn = t]
        /\ UNCHANGED <<bound, evidence, observations, events, attempt>>

(* A call that finds the row RUNNING with a turn that has ended reads that *)
(* turn rather than asks for one, as its first: whose turn it was may have *)
(* died, or be reading it as well. Which turn the row names is the matter  *)
(* of Investigation; here it is any.                                       *)
Replay(c, t) ==
    /\ At(c, "start") /\ call[c].attempt = 1 /\ ~Is(c, "recovery")
    /\ turns[t].kind = call[c].kind /\ turns[t].got # Running
    /\ call' = [call EXCEPT ![c].pc = "collect", ![c].turn = t]
    /\ UNCHANGED <<bound, turns, evidence, observations, events, attempt>>

(* TrueForgeTurnInProgressError is passed on as it is. *)
TurnInProgress(c) ==
    /\ At(c, "start") /\ Busy(call[c].kind) /\ Return(c)
    /\ UNCHANGED <<bound, turns, evidence, observations, events, attempt>>

TurnEnds(t) ==
    /\ turns[t].got = Running
    /\ \E got \in Outcomes[turns[t].kind] : turns' = [turns EXCEPT ![t].got = got]
    /\ UNCHANGED <<bound, evidence, observations, events, attempt, call>>

StreamEnds(c) ==
    /\ At(c, "live") /\ Got(c) # Running /\ GoTo(c, "collect")
    /\ UNCHANGED <<bound, turns, evidence, observations, events, attempt>>

(* A request that fails: appendFailure for the provider, nothing for the   *)
(* receiver; a recovery that did not see its turn end stays RUNNING. The   *)
(* failure of a request that had no turn yet names none, and is left out.  *)
FailedEvent(c) ==
    IF Is(c, "provider") /\ call[c].turn # 0
    THEN Append1("INVESTIGATION_FAILED", call[c].turn) ELSE UNCHANGED events

Breaks(c) ==
    /\ call[c].pc \in {"start", "live", "collect"} /\ Return(c) /\ FailedEvent(c)
    /\ UNCHANGED <<bound, turns, evidence, observations, attempt>>

-----------------------------------------------------------------------------
(* The provider: collectProviderTurn, one corrective turn, the snapshot.   *)

CollectedProvider(c) ==
    /\ At(c, "collect") /\ Is(c, "provider") /\ Got(c).is = "taken"
    /\ Append1("INVESTIGATOR_STARTED", call[c].turn) /\ GoTo(c, "capture")
    /\ UNCHANGED <<bound, turns, evidence, observations, attempt>>

(* Mutants: whatever was wrong with the turn is corrected; for ever. *)
ExtraArguments_AnyRefusal(c) ==
    /\ At(c, "collect") /\ Is(c, "provider") /\ Got(c).is # "taken" /\ call[c].attempt = 1
    /\ Append1("INVESTIGATION_FAILED", call[c].turn)
    /\ call' = [call EXCEPT ![c] = [Away EXCEPT !.pc = "start", !.attempt = 2,
                                               !.first = call[c].turn]]
    /\ UNCHANGED <<bound, turns, evidence, observations, attempt>>

ExtraArguments_Again(c) ==
    /\ At(c, "collect") /\ Is(c, "provider") /\ Got(c).is = "extra"
    /\ Append1("INVESTIGATION_FAILED", call[c].turn)
    /\ call' = [call EXCEPT ![c] = [Away EXCEPT !.pc = "start", !.attempt = @ + call[c].attempt,
                                               !.first = call[c].turn]]
    /\ UNCHANGED <<bound, turns, evidence, observations, attempt>>

ExtraArguments(c) ==
    /\ At(c, "collect") /\ Is(c, "provider") /\ Got(c).is = "extra" /\ call[c].attempt = 1
    /\ Append1("INVESTIGATION_FAILED", call[c].turn)
    /\ call' = [call EXCEPT ![c] = [Away EXCEPT !.pc = "start", !.attempt = 2,
                                               !.first = call[c].turn]]
    /\ UNCHANGED <<bound, turns, evidence, observations, attempt>>

RefusedProvider(c) ==
    /\ At(c, "collect") /\ Is(c, "provider")
    /\ Got(c).is = "rejected" \/ (Got(c).is = "extra" /\ call[c].attempt = 2)
    /\ Append1("INVESTIGATION_FAILED", call[c].turn) /\ Return(c)
    /\ UNCHANGED <<bound, turns, evidence, observations, attempt>>

(* What the insert that gives way to an earlier row comes to. *)
Disposition(answer) ==
    IF evidence = NoEvidence THEN "EVIDENCE_CAPTURED"
    ELSE IF evidence.answer = answer THEN "EVIDENCE_REOBSERVED"
    ELSE "OBSERVATION_CONFLICT"

(* Mutant: the snapshot is committed before its event is appended. *)
Capture_NotAtomic(c) ==
    LET answer == Got(c).answer
        type == Disposition(answer)
    IN  /\ At(c, "capture") /\ NormalDelivery(answer)
        /\ evidence' = IF evidence = NoEvidence THEN [answer |-> answer, turn |-> call[c].turn]
                       ELSE evidence
        /\ IF Got(c).clash THEN Append1("INVESTIGATION_FAILED", call[c].turn)
           ELSE Append1(type, call[c].turn)
        /\ Return(c)
        /\ UNCHANGED <<bound, turns, observations, attempt>>

(* The event of a snapshot has the id of the answer's event. One that is   *)
(* stored already, of an earlier reading of the turn, has to be the same.  *)
Stored(turn) == {e \in events : e.turn = turn /\ e.type \in {"EVIDENCE_CAPTURED",
                                     "EVIDENCE_REOBSERVED", "OBSERVATION_CONFLICT"}}
Recordable(c) ==
    /\ NormalDelivery(Got(c).answer) /\ ~Got(c).clash
    /\ \A e \in Stored(call[c].turn) : e.type = Disposition(Got(c).answer)

(* One transaction for the snapshot and its event. An event that is refused *)
(* rolls both back; a conflict is an error after it is recorded.            *)
Capture(c) ==
    LET answer == Got(c).answer
        type == Disposition(answer)
    IN  /\ At(c, "capture") /\ Recordable(c)
        /\ evidence' = IF evidence = NoEvidence THEN [answer |-> answer, turn |-> call[c].turn]
                       ELSE evidence
        /\ events' = events \union {[type |-> type, turn |-> call[c].turn]} \union
                     (IF type # "OBSERVATION_CONFLICT" THEN {}
                      ELSE {[type |-> "INVESTIGATION_FAILED", turn |-> call[c].turn]})
        /\ Return(c)
        /\ UNCHANGED <<bound, turns, observations, attempt>>

CaptureNot(c) ==
    /\ At(c, "capture") /\ ~Recordable(c)
    /\ Append1("INVESTIGATION_FAILED", call[c].turn) /\ Return(c)
    /\ UNCHANGED <<bound, turns, evidence, observations, attempt>>

-----------------------------------------------------------------------------
(* The receiver: collectReceiverTurn and the append, which wants the       *)
(* session still bound, and knows the observation of a turn it has.        *)
Observe(c) ==
    LET got == Got(c)
    IN  /\ At(c, "collect") /\ Is(c, "receiver") /\ got # Running
        /\ observations' = IF /\ got.is = "taken" /\ NormalState(got.answer) /\ bound
                              /\ \A n \in DOMAIN observations : observations[n].turn # call[c].turn
                           THEN Append(observations, [answer |-> got.answer, turn |-> call[c].turn])
                           ELSE observations
        /\ Return(c)
        /\ UNCHANGED <<bound, turns, evidence, events, attempt>>

(* The recovery: markVerified or markFailed, of a RUNNING attempt. *)
EndRecovery(c) ==
    LET got == Got(c)
    IN  /\ At(c, "collect") /\ Is(c, "recovery")
        /\ attempt' = IF attempt.state # "RUNNING" THEN attempt
                      ELSE IF got.is = "taken"
                      THEN [state |-> "REPAIR_VERIFIED", answer |-> got.answer, turn |-> call[c].turn]
                      ELSE [attempt EXCEPT !.state = "FAILED"]
        /\ Return(c)
        /\ UNCHANGED <<bound, turns, evidence, observations, events>>

-----------------------------------------------------------------------------
SessionLost ==
    /\ bound /\ bound' = FALSE
    /\ UNCHANGED <<turns, evidence, observations, events, attempt, call>>

CallDies(c) ==
    /\ ~At(c, "idle") /\ Return(c)
    /\ UNCHANGED <<bound, turns, evidence, observations, events, attempt>>

EvidenceNext ==
    \/ \E c \in Call :
         \/ BeginProvider(c) \/ BeginReceiver(c) \/ BeginRecovery(c) \/ RunRecovery(c)
         \/ StartTurn(c) \/ TurnInProgress(c) \/ StreamEnds(c) \/ Breaks(c)
         \/ CollectedProvider(c) \/ ExtraArguments(c) \/ RefusedProvider(c)
         \/ Capture(c) \/ CaptureNot(c) \/ Observe(c) \/ EndRecovery(c)
         \/ CallDies(c) \/ \E t \in DOMAIN turns : Replay(c, t)
    \/ \E t \in DOMAIN turns : TurnEnds(t)
    \/ SessionLost

EvidenceSpec == EvidenceInit /\ [][EvidenceNext]_evidenceVars

-----------------------------------------------------------------------------
From(row, kind) ==
    /\ turns[row.turn].kind = kind
    /\ turns[row.turn].got.sound /\ turns[row.turn].got.answer = row.answer

(* Whatever the agents of a turn did, the snapshot, every observation and  *)
(* the verified repair are the answer to the one question that turn was to *)
(* ask, put by the one that was to ask it; and a repair was verified only  *)
(* for an incident whose evidence holds the contradiction.                 *)
EvidenceAttributed ==
    /\ evidence # NoEvidence => From(evidence, "provider")
    /\ \A n \in DOMAIN observations : From(observations[n], "receiver")
    /\ attempt.state = "REPAIR_VERIFIED" =>
          /\ From(attempt, "recovery") /\ evidence.answer = Failed
          /\ \E n \in DOMAIN observations : observations[n].answer = Once

(* The snapshot and the workflow events tell the same story, whatever is   *)
(* rolled back, cut off by a crash or overtaken: there is a snapshot when  *)
(* one event says that its turn captured it, no later observation changed  *)
(* it, and a later one is on record as what it was, agreeing or not.       *)
Says1(type) == {e \in events : e.type = type}
Provenance ==
    /\ Says1("EVIDENCE_CAPTURED") =
          IF evidence = NoEvidence THEN {} ELSE {[type |-> "EVIDENCE_CAPTURED", turn |-> evidence.turn]}
    /\ \A e \in Says1("EVIDENCE_REOBSERVED") : turns[e.turn].got.answer = evidence.answer
    /\ \A e \in Says1("OBSERVATION_CONFLICT") : turns[e.turn].got.answer # evidence.answer
    /\ \A e \in events : e.type \notin {"INVESTIGATION_FAILED", "INVESTIGATOR_STARTED"} =>
          [type |-> "INVESTIGATOR_STARTED", turn |-> e.turn] \in events

(* A request goes on to a second turn only when its first was refused for  *)
(* the extra arguments alone, with that on record, and nothing of the      *)
(* first is ever used; the request has no third. One that reads again the  *)
(* turn of another counts from there, so an incident may see more.         *)
CorrectedOnce ==
    \A c \in Call : call[c].attempt # 1 =>
        /\ call[c].attempt = 2 /\ turns[call[c].first].got.is = "extra"
        /\ {e \in events : e.turn = call[c].first} =
              {[type |-> "INVESTIGATION_FAILED", turn |-> call[c].first]}
=============================================================================
