---------------------------- MODULE Investigation ----------------------------
(***************************************************************************)
(* The investigation of one incident                                       *)
(* (src/src/server/incidents/incident-investigation-service.ts over        *)
(* incident-investigation-repository.ts): the calls of investigate take a  *)
(* provider stage and then a receiver stage through TrueForge turns, under *)
(* an operation token per stage that is kept in the incident's row and     *)
(* written into the turn's input.                                          *)
(*                                                                         *)
(* A call's code between two awaits is one action, commits included; an    *)
(* await ends with whatever the other side answers, or with an error.  The *)
(* sixty seconds of a creation lease may pass at any await, so a CREATING  *)
(* row may be found stale while the call that owns it is waiting.          *)
(* Turns are numbered in the order TrueForge created them; 0 is NULL.      *)
(***************************************************************************)
EXTENDS Naturals, Sequences

CONSTANTS
    Call,       \* concurrent calls of investigate
    Token,      \* operation tokens (randomUUID)
    None,       \* no token
    MaxTurns,   \* bound: turns TrueForge creates
    MaxCrashes  \* bound: crashes of the process

ASSUME InvestigationAssumption ==
    /\ None \notin Token \union {"PROVIDER", "RECEIVER"}
    /\ MaxTurns \in Nat \ {0, 1} /\ MaxCrashes \in Nat

VARIABLES
    row,        \* the row of incident_investigations
    drawn,      \* the tokens drawn so far
    evidence,   \* the turns the provider evidence was read in, the storing one first
    observed,   \* the turns of the stored receiver observations, in order
    call,       \* the calls in progress
    turns,      \* the turns TrueForge has
    late,       \* creation requests nobody waits for that may still arrive
    crashes     \* crashes so far

stored == <<row, drawn, evidence, observed>>
remote == <<turns, late>>
vars == <<stored, call, remote, crashes>>

------------------------------------------------------------------------------
Stage == {"PROVIDER", "RECEIVER"}
Busy == {"CREATING", "RUNNING", "UNCERTAIN"}
Ended == {"COMPLETED", "RETRYABLE_FAILURE"}

\* How a turn ends.  "good": its events show the one expected tool call;
\* "args": the tool was called with unexpected arguments; "bad": any other
\* events; "failed": it did not finish normally.
Ending == {"good", "args", "bad", "failed"}
TurnState == {"running"} \union Ending
TurnId == 1..MaxTurns
Turn == [stage : Stage, token : Token \union {None}, state : TurnState]
Request == [stage : Stage, token : Token]

\* The column state is a stage and a phase ("PROVIDER_RUNNING"), or a phase
\* alone: then the stage is None.
PerStage(p, r) == [s \in Stage |-> IF s = "PROVIDER" THEN p ELSE r]
NoTurns == [s \in Stage |-> 0]
NoRow == [stage |-> None, phase |-> "NONE", token |-> PerStage(None, None), turn |-> NoTurns]

Row == [stage : Stage \union {None},
        phase : {"NONE"} \union Busy \union Ended,
        token : [Stage -> Token \union {None}],
        turn  : [Stage -> {0} \union TurnId]]

\* The CHECK constraint of the table.
Checked(r) ==
    /\ (r.phase \in Busy) <=> (r.stage \in Stage)
    /\ r.stage = "PROVIDER" => r.token["PROVIDER"] # None /\ r.token["RECEIVER"] = None
    /\ r.stage = "RECEIVER" => r.token["PROVIDER"] # None /\ r.token["RECEIVER"] # None

\* What a call waits for: the list of turns ("lookup"), the events of the turn
\* the row names ("peek"), the coordinator session ("session"), the events of a
\* turn to be replayed ("replay"), the answer to a creation request ("post"),
\* the first event of its stream ("posted"), the rest of it ("running"), the
\* events of the turn that ended ("events"), its own promise after evidence or
\* an observation was stored ("captured", "observed"), and, after an error, the
\* events of a turn that may be running still ("asking").
PC == {"idle", "lookup", "peek", "session", "replay", "post", "posted", "running",
       "events", "captured", "observed", "asking"}

\* A call: the stage it works in, that stage's token, the turn it deals with
\* (before "session": the one to replay), whether evidence was stored when it
\* started, and whether its corrective turn is spent.
CallState == [pc : PC, stage : Stage, token : Token \union {None},
              turn : {0} \union TurnId, seen : BOOLEAN, corrected : BOOLEAN]

Idle == [pc |-> "idle", stage |-> "PROVIDER", token |-> None, turn |-> 0,
         seen |-> FALSE, corrected |-> FALSE]

Legacy == [stage |-> "PROVIDER", token |-> None, state |-> "good"]

\* An incident nobody investigated, or one of an earlier release: its evidence
\* and observations are there, its row is not.
Init ==
    /\ row = NoRow
    /\ drawn = {}
    /\ \/ turns = <<>> /\ evidence = <<>> /\ observed = <<>>
       \/ turns = <<Legacy>> /\ evidence = <<1>> /\ observed = <<>>
       \/ /\ turns = <<Legacy, [Legacy EXCEPT !.stage = "RECEIVER"]>>
          /\ evidence = <<1>> /\ observed = <<2>>
    /\ call = [c \in Call |-> Idle]
    /\ late = {}
    /\ crashes = 0

At(c, pc) == call[c].pc = pc
Become(c, state) == call' = [call EXCEPT ![c] = state]
GoTo(c, pc) == Become(c, [call[c] EXCEPT !.pc = pc])
Return(c) == Become(c, Idle)

Last(s) == s[Len(s)]
Has(s, e) == \E k \in DOMAIN s : s[k] = e

------------------------------------------------------------------------------
(* The statements of the repository, as functions of the row               *)

Enter(r, s, phase) == [r EXCEPT !.stage = s, !.phase = phase]
Leave(r, phase) == [r EXCEPT !.stage = None, !.phase = phase]

\* WHERE state = `s`_`phase` AND the stage's token is the caller's.
Holds(r, c, phase) ==
    /\ r.stage = call[c].stage
    /\ r.phase = phase
    /\ r.token[r.stage] = call[c].token

\* prepareNextTurn and claimTurnReplay.
Claimable(r, c) == Holds(r, c, "RUNNING") /\ r.turn[r.stage] = call[c].turn

\* Mutant: the operation token is not compared.
Attributable_AnyToken(r, c, t) ==
    /\ r.stage = call[c].stage
    /\ r.phase \in {"CREATING", "UNCERTAIN"} \/ (r.phase = "RUNNING" /\ r.turn[r.stage] = t)

\* markTurnCreated: it throws otherwise.
Attributable(r, c, t) ==
    \/ Holds(r, c, "CREATING") \/ Holds(r, c, "UNCERTAIN")
    \/ Holds(r, c, "RUNNING") /\ r.turn[r.stage] = t

Attributed(r, s, t) == [Enter(r, s, "RUNNING") EXCEPT !.turn[s] = t]

\* Mutant: a completed investigation is not spared.
Failed_EvenCompleted(r, c) ==
    IF r.token[call[c].stage] = call[c].token /\ r.phase # "UNCERTAIN"
        THEN Leave(r, "RETRYABLE_FAILURE") ELSE r

\* markRetryableFailure: only UNCERTAIN and COMPLETED are out of its reach.
Failed(r, c) ==
    IF r.token[call[c].stage] = call[c].token /\ r.phase \notin {"UNCERTAIN", "COMPLETED"}
        THEN Leave(r, "RETRYABLE_FAILURE") ELSE r

------------------------------------------------------------------------------
(* A call starts                                                           *)

\* persisted: what the incident's row names is there to be shown.
Readable ==
    /\ evidence # <<>>
    /\ IF row.turn["RECEIVER"] = 0 THEN observed # <<>>
                                   ELSE Has(observed, row.turn["RECEIVER"])

Both == evidence # <<>> /\ observed # <<>>

Completed(r) == IF r.phase = "COMPLETED" THEN r ELSE Leave(r, "COMPLETED")

\* What is stored is shown: the row is completed, and its turns are filled in
\* where none is named and none contradicts (backfillCompletedProvenance).  The
\* provider turn shown is the one whose tool answered last, which may be any.
Reads(c) ==
    LET r == Completed(row)
        shown == IF r.turn["RECEIVER"] = 0 THEN Last(observed) ELSE r.turn["RECEIVER"]
    IN
    /\ At(c, "idle")
    /\ Readable
    /\ \E k \in DOMAIN evidence :
         row' = IF r.turn["PROVIDER"] \in {0, evidence[k]}
                  THEN [r EXCEPT !.turn = PerStage(evidence[k], shown)] ELSE r
    /\ UNCHANGED <<drawn, evidence, observed, call, remote, crashes>>

\* Both are stored but the row names another receiver turn: reserve completes
\* the row, and the call throws.
CompletesUnread(c) ==
    /\ At(c, "idle")
    /\ ~Readable /\ Both
    /\ row' = Completed(row)
    /\ UNCHANGED <<drawn, evidence, observed, call, remote, crashes>>

\* The stage that is missing.
Missing == IF evidence # <<>> THEN "RECEIVER" ELSE "PROVIDER"

\* The row a reservation leaves.  A retry keeps the other stage's turn; a new
\* row has a provider token even where only the receiver is to be asked.
Reserved(p, t) ==
    LET token == IF Missing = "PROVIDER" THEN PerStage(p, None)
                 ELSE IF row.phase = "NONE" THEN PerStage(p, t)
                 ELSE [row.token EXCEPT !["RECEIVER"] = t]
    IN [Enter(row, Missing, "CREATING") EXCEPT !.token = token, !.turn[Missing] = 0]

Reserve(c) ==
    /\ At(c, "idle")
    /\ ~Both
    /\ row.phase \in {"NONE", "RETRYABLE_FAILURE"}
    /\ \E p, t \in Token \ drawn :
         /\ (p # t) <=> (row.phase = "NONE" /\ Missing = "RECEIVER")
         /\ row' = Reserved(p, t)
         /\ drawn' = drawn \union {p, t}
         /\ Become(c, [Idle EXCEPT !.pc = "session", !.stage = Missing, !.token = t,
                                   !.seen = evidence # <<>>])
    /\ UNCHANGED <<evidence, observed, remote, crashes>>

\* Somebody else's investigation is under way.  A CREATING row may be stale: it
\* becomes UNCERTAIN (markUncertainIfStale); if it is not, the call returns.
Join(c) ==
    /\ At(c, "idle")
    /\ ~Both
    /\ row.phase \in Busy
    /\ row' = IF row.phase = "CREATING" THEN [row EXCEPT !.phase = "UNCERTAIN"] ELSE row
    /\ Become(c, [Idle EXCEPT !.pc = IF row.phase = "RUNNING" THEN "peek" ELSE "lookup",
                              !.stage = row.stage,
                              !.token = row.token[row.stage],
                              !.turn = IF row.phase = "RUNNING" THEN row.turn[row.stage] ELSE 0,
                              !.seen = evidence # <<>>])
    /\ UNCHANGED <<drawn, evidence, observed, remote, crashes>>

------------------------------------------------------------------------------
(* How a stage ends                                                        *)

\* The catch block of a stage.  While the row names a turn of the stage as
\* RUNNING, that turn's events are read first (hasKnownNonterminalTurn).
Catch(c) ==
    /\ IF row.stage = call[c].stage /\ row.phase = "RUNNING"
         THEN /\ Become(c, [call[c] EXCEPT !.pc = "asking", !.turn = row.turn[row.stage]])
              /\ UNCHANGED row
         ELSE row' = Failed(row, c) /\ Return(c)
    /\ UNCHANGED <<drawn, evidence, observed>>

\* The turn runs still, or its events cannot be read: nothing is recorded.
AskAnswers(c) ==
    /\ At(c, "asking")
    /\ \/ UNCHANGED row
       \/ turns[call[c].turn].state # "running" /\ row' = Failed(row, c)
    /\ Return(c)
    /\ UNCHANGED <<drawn, evidence, observed, remote, crashes>>

InReceiver(c, t) ==
    Become(c, [call[c] EXCEPT !.pc = "session", !.stage = "RECEIVER", !.token = t,
                              !.turn = 0, !.corrected = FALSE])

\* markProviderCaptured: the row goes on to the receiver with a new token, or
\* has gone there already and the call takes the token it finds.
HandOver(c) ==
    LET mine == /\ row.stage = "PROVIDER"
                /\ row.token["PROVIDER"] = call[c].token
    IN
    \/ /\ mine
       /\ \E t \in Token \ drawn :
            /\ row' = [Enter(row, "RECEIVER", "CREATING") EXCEPT !.token["RECEIVER"] = t]
            /\ drawn' = drawn \union {t}
            /\ InReceiver(c, t)
       /\ UNCHANGED <<evidence, observed>>
    \/ /\ row.stage = "RECEIVER" /\ row.phase = "CREATING"
       /\ InReceiver(c, row.token["RECEIVER"])
       /\ UNCHANGED stored
    \/ /\ ~mine
       /\ ~(row.stage = "RECEIVER" /\ row.phase = "CREATING")
       /\ Catch(c)

\* The call resumes after the provider evidence was stored.
Captured(c) ==
    /\ At(c, "captured")
    /\ HandOver(c)
    /\ UNCHANGED <<remote, crashes>>

\* The call resumes after the receiver observation was stored (markCompleted).
Observed(c) ==
    LET mine == row.stage = "RECEIVER" /\ row.token["RECEIVER"] = call[c].token IN
    /\ At(c, "observed")
    /\ \/ mine /\ row' = Leave(row, "COMPLETED") /\ Return(c) /\ UNCHANGED <<drawn, evidence, observed>>
       \/ row.phase = "COMPLETED" /\ Return(c) /\ UNCHANGED stored
       \/ ~mine /\ row.phase # "COMPLETED" /\ Catch(c)
    /\ UNCHANGED <<remote, crashes>>

------------------------------------------------------------------------------
(* Reconciliation of what an earlier call left                             *)

Marked(c) == {k \in DOMAIN turns : turns[k].token = call[c].token}

\* The turn that carries the marker becomes the row's.
LookupFinds(c) ==
    /\ At(c, "lookup")
    /\ \E k \in Marked(c) :
         IF Attributable(row, c, k)
           THEN /\ row' = Attributed(row, call[c].stage, k)
                /\ Become(c, [call[c] EXCEPT !.pc = "peek", !.turn = k])
           ELSE UNCHANGED row /\ Return(c)
    /\ UNCHANGED <<drawn, evidence, observed, remote, crashes>>

\* No turn carries the marker (markReconciledAbsent), or the list cannot be read.
LookupEnds(c) ==
    /\ At(c, "lookup")
    /\ \/ UNCHANGED row
       \/ /\ Marked(c) = {}
          /\ row.stage = call[c].stage /\ row.phase = "UNCERTAIN"
          /\ row' = Leave(row, "RETRYABLE_FAILURE")
    /\ Return(c)
    /\ UNCHANGED <<drawn, evidence, observed, remote, crashes>>

\* The row's turn runs still, cannot be read, or has failed.
PeekEnds(c) ==
    /\ At(c, "peek")
    /\ \/ UNCHANGED row
       \/ turns[call[c].turn].state = "failed" /\ row' = Failed(row, c)
    /\ Return(c)
    /\ UNCHANGED <<drawn, evidence, observed, remote, crashes>>

\* The row's turn is done: it is to be replayed, unless it is a provider turn
\* whose evidence was stored when the call started.
PeekFinds(c) ==
    /\ At(c, "peek")
    /\ turns[call[c].turn].state \in {"good", "args", "bad"}
    /\ IF call[c].stage = "PROVIDER" /\ call[c].seen
         THEN HandOver(c)
         ELSE GoTo(c, "session") /\ UNCHANGED stored
    /\ UNCHANGED <<remote, crashes>>

------------------------------------------------------------------------------
(* The turn of a stage                                                     *)

\* The coordinator session is there: a turn to be replayed is claimed, or the
\* creation lease is renewed and the turn asked for.  Who finds the row in other
\* hands returns.
SessionAnswers(c) ==
    /\ At(c, "session")
    /\ IF call[c].turn # 0
         THEN IF Claimable(row, c)
                THEN row' = [row EXCEPT !.phase = "CREATING"] /\ GoTo(c, "replay")
                ELSE UNCHANGED row /\ Return(c)
         ELSE /\ UNCHANGED row
              /\ IF Holds(row, c, "CREATING") THEN GoTo(c, "post") ELSE Return(c)
    /\ UNCHANGED <<drawn, evidence, observed, remote, crashes>>

\* markTurnCreated, for the turn whose first event the call has got.
NamesTurn(c, next) ==
    IF Attributable(row, c, call[c].turn)
      THEN /\ row' = Attributed(row, call[c].stage, call[c].turn)
           /\ GoTo(c, next)
           /\ UNCHANGED <<drawn, evidence, observed>>
      ELSE Catch(c)

ReplayAnswers(c) ==
    /\ At(c, "replay")
    /\ NamesTurn(c, "events")
    /\ UNCHANGED <<remote, crashes>>

NewTurn(s, t) == [stage |-> s, token |-> t, state |-> "running"]

PostArrives(c) ==
    /\ At(c, "post")
    /\ Len(turns) < MaxTurns
    /\ turns' = Append(turns, NewTurn(call[c].stage, call[c].token))
    /\ Become(c, [call[c] EXCEPT !.pc = "posted", !.turn = Len(turns) + 1])
    /\ UNCHANGED <<stored, late, crashes>>

\* TrueForge refused: there is no turn.
PostRefused(c) ==
    /\ At(c, "post")
    /\ row' = Failed(row, c)
    /\ Return(c)
    /\ UNCHANGED <<drawn, evidence, observed, remote, crashes>>

\* No answer: the turn may have been created, or be created later, or never.
PostLost(c) ==
    /\ At(c, "post")
    /\ late' = late \union {[stage |-> call[c].stage, token |-> call[c].token]}
    /\ IF Holds(row, c, "CREATING")
         THEN /\ row' = [row EXCEPT !.phase = "UNCERTAIN"]
              /\ Return(c)
              /\ UNCHANGED <<drawn, evidence, observed>>
         ELSE Catch(c)
    /\ UNCHANGED <<turns, crashes>>

StreamStarts(c) ==
    /\ At(c, "posted")
    /\ NamesTurn(c, "running")
    /\ UNCHANGED <<remote, crashes>>

StreamEnds(c) ==
    /\ At(c, "running")
    /\ turns[call[c].turn].state \in {"good", "args", "bad"}
    /\ GoTo(c, "events")
    /\ UNCHANGED <<stored, remote, crashes>>

\* An error on the way: no usable session, unreadable events, a broken stream, a
\* turn that ended otherwise than expected, evidence that contradicts the stored.
Breaks(c) ==
    /\ call[c].pc \in {"session", "replay", "posted", "running", "events"}
    /\ Catch(c)
    /\ UNCHANGED <<remote, crashes>>

\* The provider's tool was called with unexpected arguments: one more turn is
\* asked for under the same token, if the row still names the first one.
AsksAgain(c) ==
    /\ At(c, "events")
    /\ call[c].stage = "PROVIDER" /\ ~call[c].corrected
    /\ turns[call[c].turn].state = "args"
    /\ IF Claimable(row, c)
         THEN /\ row' = [row EXCEPT !.phase = "CREATING"]
              /\ Become(c, [call[c] EXCEPT !.pc = "post", !.corrected = TRUE])
         ELSE UNCHANGED row /\ Return(c)
    /\ UNCHANGED <<drawn, evidence, observed, remote, crashes>>

\* The evidence is stored once, and a reading of it in another turn is recorded.
\* A second reading in the turn that stored it is an error (Breaks): its event
\* is on record as CAPTURED and cannot be appended as REOBSERVED.
StoresEvidence(c) ==
    /\ At(c, "events")
    /\ call[c].stage = "PROVIDER"
    /\ turns[call[c].turn].state = "good"
    /\ evidence # <<>> => Head(evidence) # call[c].turn
    /\ evidence' = IF Has(evidence, call[c].turn) THEN evidence
                                                 ELSE Append(evidence, call[c].turn)
    /\ GoTo(c, "captured")
    /\ UNCHANGED <<row, drawn, observed, remote, crashes>>

\* An observation is stored once per turn.
StoresObservation(c) ==
    /\ At(c, "events")
    /\ call[c].stage = "RECEIVER"
    /\ turns[call[c].turn].state = "good"
    /\ observed' = IF Has(observed, call[c].turn) THEN observed
                                                 ELSE Append(observed, call[c].turn)
    /\ GoTo(c, "observed")
    /\ UNCHANGED <<row, drawn, evidence, remote, crashes>>

------------------------------------------------------------------------------
(* TrueForge, and crashes                                                  *)

LateArrives(q) ==
    /\ q \in late
    /\ Len(turns) < MaxTurns
    /\ turns' = Append(turns, NewTurn(q.stage, q.token))
    /\ late' = late \ {q}
    /\ UNCHANGED <<stored, call, crashes>>

\* "args" concerns the provider's tool; the receiver's collector has no such case.
TurnEnds(k) ==
    /\ turns[k].state = "running"
    /\ \E e \in IF turns[k].stage = "PROVIDER" THEN Ending ELSE Ending \ {"args"} :
         turns' = [turns EXCEPT ![k].state = e]
    /\ UNCHANGED <<stored, call, late, crashes>>

\* The process dies with all its calls; a request it sent may still arrive.
Crash ==
    /\ crashes < MaxCrashes
    /\ \E c \in Call : call[c].pc # "idle"
    /\ call' = [c \in Call |-> Idle]
    /\ late' = late \union {[stage |-> call[c].stage, token |-> call[c].token] :
                             c \in {d \in Call : call[d].pc = "post"}}
    /\ crashes' = crashes + 1
    /\ UNCHANGED <<stored, turns>>

Starts(c) == Reads(c) \/ CompletesUnread(c) \/ Reserve(c) \/ Join(c)

Proceeds(c) ==
    \/ AskAnswers(c) \/ Captured(c) \/ Observed(c)
    \/ LookupFinds(c) \/ LookupEnds(c) \/ PeekEnds(c) \/ PeekFinds(c)
    \/ SessionAnswers(c) \/ ReplayAnswers(c)
    \/ PostArrives(c) \/ PostRefused(c) \/ PostLost(c)
    \/ StreamStarts(c) \/ StreamEnds(c) \/ Breaks(c)
    \/ AsksAgain(c) \/ StoresEvidence(c) \/ StoresObservation(c)

Next == \/ \E c \in Call : Starts(c) \/ Proceeds(c)
        \/ \E q \in late : LateArrives(q)
        \/ \E k \in DOMAIN turns : TurnEnds(k)
        \/ Crash

Spec == Init /\ [][Next]_vars

------------------------------------------------------------------------------
(* Properties                                                              *)

\* Every variable has its type, and the row satisfies the CHECK constraint of
\* its table, so that no statement of the repository is refused by it.
TypeOK ==
    /\ row \in Row /\ Checked(row)
    /\ drawn \subseteq Token
    /\ evidence \in Seq(1..Len(turns))
    /\ observed \in Seq(1..Len(turns))
    /\ call \in [Call -> CallState]
    /\ turns \in Seq(Turn) /\ Len(turns) <= MaxTurns
    /\ late \subseteq Request
    /\ crashes \in 0..MaxCrashes

\* The turn a row waits for was asked for under the row's own operation token
\* and for its stage: a slow caller whose reservation was taken over never puts
\* its turn under the new one.
RunningIsAttributed ==
    row.phase = "RUNNING" =>
        LET k == row.turn[row.stage] IN
        /\ k \in DOMAIN turns
        /\ turns[k].stage = row.stage
        /\ turns[k].token = row.token[row.stage]

\* However calls fail, resume and overtake each other, TrueForge is asked for a
\* receiver turn only when the provider's evidence is stored, and an
\* investigation is completed only when both its results are.
StagesInOrder ==
    /\ \A k \in DOMAIN turns : turns[k].stage = "RECEIVER" => evidence # <<>>
    /\ row.stage = "RECEIVER" => evidence # <<>>
    /\ row.phase = "COMPLETED" => Both

\* A completed investigation stays so, under its tokens: a caller that fails
\* after another one has completed, or whose turn starts then, changes nothing.
CompletedForGood ==
    [][row.phase = "COMPLETED" =>
         row'.phase = "COMPLETED" /\ row'.token = row.token]_vars

\* incident-investigation-repository.ts:172-174 says: "A retry is allowed only
\* after a terminal, recorded failure. An ambiguous remote create is represented
\* by *_UNCERTAIN and never takes this path."  So when the row offers a retry, no
\* turn that was asked for under its tokens is running.
RetryAfterTerminal ==
    row.phase = "RETRYABLE_FAILURE" =>
        \A k \in DOMAIN turns :
            turns[k].state = "running" => \A s \in Stage : turns[k].token # row.token[s]
==============================================================================
