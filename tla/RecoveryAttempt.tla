--------------------------- MODULE RecoveryAttempt ---------------------------
(***************************************************************************)
(* The sandbox recovery of one incident                                    *)
(* (src/src/server/recovery/recovery-sandbox-service.ts over               *)
(* recovery-attempt-repository.ts): a call of startOrResumeSandboxRecovery *)
(* reserves the incident's only attempt, creates a TrueForge session for   *)
(* it, gives that session the current agent specification and runs one     *)
(* turn, whose artifact becomes the verified repair.                       *)
(*                                                                         *)
(* Attempts of different incidents share nothing, so one row is modelled.  *)
(* A call's code between two awaits is one action.  An await is two steps: *)
(* what TrueForge does with the request, and the call that resumes with    *)
(* the answer.  A session is named by the token of the reservation it was  *)
(* created for.  Any time may pass between two steps, so a reservation may *)
(* be found stale (RECOVERY_SESSION_CREATION_STALE_AFTER_MS) while the     *)
(* call that made it is still waiting.                                     *)
(***************************************************************************)
EXTENDS Naturals

CONSTANTS
    Call,       \* concurrent calls
    Token,      \* creation tokens (randomUUID)
    None        \* no token, no session

ASSUME NoneAssumption == None \notin Token

VARIABLES
    row,        \* the row of recovery_attempts
    used,       \* the tokens drawn so far
    call,       \* the calls in progress
    made,       \* the sessions TrueForge ever created
    gone,       \* those it has no more
    spec,       \* the agent specification of each session
    turns       \* the turns started in each session

remote == <<made, gone, spec, turns>>
vars == <<row, used, call, remote>>

------------------------------------------------------------------------------
Reserved == {"SESSION_CREATING", "SESSION_UNCERTAIN"}
Terminal == {"REPAIR_VERIFIED", "FAILED", "SESSION_LOST"}
Version == {"old", "current"}   \* "old": written by an earlier release

NoRow == [state |-> "NONE", token |-> None, session |-> None, spec |-> "current"]

\* The shapes the CHECK constraint and the statements allow.
Row ==
    {NoRow}
    \union [state : {"SESSION_CREATING"}, token : Token, session : {None}, spec : Version]
    \union [state : {"SESSION_UNCERTAIN"}, token : Token \union {None}, session : {None},
            spec : Version]
    \union [state : {"READY", "RUNNING"} \union Terminal, token : {None}, session : Token,
            spec : Version]

Creating == {"create", "created", "createRefused", "createLost"}
Turning == {"turn", "turnDone", "valid", "invalid"}
InSession == {"lookup", "gone", "update", "updated", "run"} \union Turning
PC == {"idle"} \union Creating \union InSession

\* The reservation a call made or the session it works in, and the version of
\* the agent specification it read in the row.
CallState == [pc : PC, token : Token \union {None}, seen : Version]
Idle == [pc |-> "idle", token |-> None, seen |-> "current"]

At(c, pc) == call[c].pc = pc
Become(c, state) == call' = [call EXCEPT ![c] = state]
GoTo(c, pc) == Become(c, [call[c] EXCEPT !.pc = pc])
Return(c) == Become(c, Idle)

TypeOK ==
    /\ row \in Row
    /\ used \in SUBSET Token
    /\ call \in [Call -> CallState]
    /\ made \in SUBSET Token
    /\ gone \in SUBSET made
    /\ spec \in [Token -> Version]
    /\ turns \in [Token -> Nat]

\* No attempt, or one that an earlier release made READY.
Init ==
    /\ \/ row = NoRow /\ used = {}
       \/ \E t \in Token :
            /\ row = [state |-> "READY", token |-> None, session |-> t, spec |-> "old"]
            /\ used = {t}
    /\ made = used
    /\ gone = {}
    /\ call = [c \in Call |-> Idle]
    /\ spec = [t \in Token |-> "old"]
    /\ turns = [t \in Token |-> 0]

------------------------------------------------------------------------------
(* createOrReuseSession.  A call that finds the attempt reserved, RUNNING  *)
(* or terminal, or the evidence changed, returns or fails at once.         *)

BeginReady(c) ==
    /\ At(c, "idle")
    /\ row.state = "READY"
    /\ Become(c, [pc |-> "lookup", token |-> row.session, seen |-> row.spec])
    /\ UNCHANGED <<row, used, remote>>

\* Mutant: a stale reservation is given up, to be made again.
BeginStale_Releases(c) ==
    /\ At(c, "idle")
    /\ row.state = "SESSION_CREATING"
    /\ row' = NoRow
    /\ UNCHANGED <<used, call, remote>>

\* A stale reservation is fenced; its token stays, for its owner to come back.
BeginStale(c) ==
    /\ At(c, "idle")
    /\ row.state = "SESSION_CREATING"
    /\ row' = [row EXCEPT !.state = "SESSION_UNCERTAIN"]
    /\ UNCHANGED <<used, call, remote>>

BeginReserve(c) ==
    /\ At(c, "idle")
    /\ row.state = "NONE"
    /\ \E t \in Token \ used :
         /\ used' = used \union {t}
         /\ row' = [state |-> "SESSION_CREATING", token |-> t, session |-> None,
                    spec |-> "current"]
         /\ Become(c, [Idle EXCEPT !.pc = "create", !.token = t])
    /\ UNCHANGED remote

\* The session is created or not; a refusal (400, 404, 422 or a configuration
\* error) is told apart from an answer that leaves it open.
CreateAnswers(c) ==
    LET t == call[c].token IN
    /\ At(c, "create")
    /\ \/ /\ made' = made \union {t}
          /\ spec' = [spec EXCEPT ![t] = "current"]
          /\ \E end \in {"created", "createLost"} : GoTo(c, end)
       \/ /\ UNCHANGED <<made, spec>>
          /\ \E end \in {"createRefused", "createLost"} : GoTo(c, end)
    /\ UNCHANGED <<row, used, gone, turns>>

\* The owner of the reservation records its session, fenced meanwhile or not.
Activate(c) ==
    LET t == call[c].token IN
    /\ At(c, "created")
    /\ IF row.state \in Reserved /\ row.token = t
         THEN /\ row' = [row EXCEPT !.state = "READY", !.session = t, !.token = None]
              /\ Become(c, [pc |-> "update", token |-> t, seen |-> row.spec])
         ELSE UNCHANGED row /\ Return(c)
    /\ UNCHANGED <<used, remote>>

\* releaseCreation and markCreationUncertain.
ReleaseOrFence(c) ==
    /\ call[c].pc \in {"createRefused", "createLost"}
    /\ row' = IF row.state # "SESSION_CREATING" \/ row.token # call[c].token THEN row
              ELSE IF At(c, "createRefused") THEN NoRow
              ELSE [row EXCEPT !.state = "SESSION_UNCERTAIN", !.token = None]
    /\ Return(c)
    /\ UNCHANGED <<used, remote>>

------------------------------------------------------------------------------
(* reconcileReadySession                                                   *)

LookupAnswers(c) ==
    /\ At(c, "lookup")
    /\ \/ call[c].token \notin gone /\ GoTo(c, "update")
       \/ call[c].token \in gone /\ GoTo(c, "gone")
       \/ Return(c)
    /\ UNCHANGED <<row, used, remote>>

InState(c, state) == row.state = state /\ row.session = call[c].token

\* Mutant: the session is marked lost in whatever state the attempt is by now.
MarkSessionLost_AnyState(c) ==
    /\ At(c, "gone")
    /\ row' = IF row.session = call[c].token THEN [row EXCEPT !.state = "SESSION_LOST"] ELSE row
    /\ Return(c)
    /\ UNCHANGED <<used, remote>>

MarkSessionLost(c) ==
    /\ At(c, "gone")
    /\ row' = IF InState(c, "READY") THEN [row EXCEPT !.state = "SESSION_LOST"] ELSE row
    /\ Return(c)
    /\ UNCHANGED <<used, remote>>

\* updateSession: done and answered, done with the answer lost, or not done.
UpdateAnswers(c) ==
    LET t == call[c].token IN
    /\ At(c, "update")
    /\ \/ /\ t \notin gone
          /\ spec' = [spec EXCEPT ![t] = "current"]
          /\ GoTo(c, "updated") \/ Return(c)
       \/ UNCHANGED spec /\ Return(c)
    /\ UNCHANGED <<row, used, made, gone, turns>>

\* updateSpecVersion, if the row had another version when it was read.
RecordSpec(c) ==
    /\ At(c, "updated")
    /\ IF call[c].seen = "current" THEN UNCHANGED row /\ GoTo(c, "run")
       ELSE IF InState(c, "READY") /\ row.spec = call[c].seen
         THEN row' = [row EXCEPT !.spec = "current"] /\ GoTo(c, "run")
       ELSE UNCHANGED row /\ Return(c)
    /\ UNCHANGED <<used, remote>>

------------------------------------------------------------------------------
(* The turn                                                                *)

\* Mutant: the state the attempt is in by now is not compared.
MarkRunning_AnyState(c) ==
    /\ At(c, "run")
    /\ row' = [row EXCEPT !.state = "RUNNING"]
    /\ GoTo(c, "turn")
    /\ UNCHANGED <<used, remote>>

\* Of the calls that got here, one takes the attempt from READY to RUNNING.
MarkRunning(c) ==
    /\ At(c, "run")
    /\ IF InState(c, "READY")
         THEN row' = [row EXCEPT !.state = "RUNNING"] /\ GoTo(c, "turn")
         ELSE UNCHANGED row /\ Return(c)
    /\ UNCHANGED <<used, remote>>

\* createTurnStream: the turn runs to its end in sight of the call, or the call
\* loses sight of it, or it was never started.
TurnAnswers(c) ==
    LET t == call[c].token IN
    /\ At(c, "turn")
    /\ \/ /\ t \notin gone
          /\ turns' = [turns EXCEPT ![t] = @ + 1]
          /\ GoTo(c, "turnDone") \/ Return(c)
       \/ UNCHANGED turns /\ Return(c)
    /\ UNCHANGED <<row, used, made, gone, spec>>

\* listTurnEvents: a valid artifact, none, or the events cannot be read, which
\* leaves the attempt RUNNING.
EventsAnswer(c) ==
    /\ At(c, "turnDone")
    /\ GoTo(c, "valid") \/ GoTo(c, "invalid") \/ Return(c)
    /\ UNCHANGED <<row, used, remote>>

\* markVerified and markFailed.
EndTurn(c) ==
    /\ call[c].pc \in {"valid", "invalid"}
    /\ row' = IF ~InState(c, "RUNNING") THEN row
              ELSE [row EXCEPT !.state = IF At(c, "valid") THEN "REPAIR_VERIFIED" ELSE "FAILED"]
    /\ Return(c)
    /\ UNCHANGED <<used, remote>>

------------------------------------------------------------------------------
(* The process that serves a call dies; a session is deleted in TrueForge  *)

Crash(c) ==
    /\ ~At(c, "idle")
    /\ Return(c)
    /\ UNCHANGED <<row, used, remote>>

SessionDeleted(t) ==
    /\ t \in made \ gone
    /\ gone' = gone \union {t}
    /\ UNCHANGED <<row, used, call, made, spec, turns>>

Next ==
    \/ \E c \in Call :
         \/ BeginReady(c) \/ BeginStale(c) \/ BeginReserve(c)
         \/ CreateAnswers(c) \/ Activate(c) \/ ReleaseOrFence(c)
         \/ LookupAnswers(c) \/ MarkSessionLost(c) \/ UpdateAnswers(c) \/ RecordSpec(c)
         \/ MarkRunning(c) \/ TurnAnswers(c) \/ EventsAnswer(c) \/ EndTurn(c)
         \/ Crash(c)
    \/ \E t \in Token : SessionDeleted(t)

Spec == Init /\ [][Next]_vars
------------------------------------------------------------------------------
(* What the service guarantees                                             *)

\* However creations are refused, lost, overtaken by the stale fence or cut off
\* by a crash, TrueForge creates at most one recovery session for the incident:
\* a creation that may have happened is never tried again.
AtMostOneSession == \A s, t \in made : s = t

\* At most one recovery turn is ever started, however many calls reuse the
\* session at once and whatever dies in between.
AtMostOneTurn ==
    \A s, t \in Token : turns[s] > 0 /\ turns[t] > 0 => s = t /\ turns[s] = 1

\* A turn is started only under the durable RUNNING and with the instructions of
\* this release, whatever release the session was created by.
TurnIsFenced ==
    [][\A t \in Token :
         turns'[t] # turns[t] => /\ row.state = "RUNNING" /\ row.session = t
                                 /\ row.spec = "current" /\ spec[t] = "current"]_vars

\* A call that comes back late never revises how the attempt ended, nor
\* replaces its session: the verified repair that is deployed stays the one
\* that was verified.
Settled ==
    [][/\ row.state \in Terminal => row' = row
       /\ row.session # None => row'.session = row.session]_vars

\* The session an attempt ran in is one TrueForge made for it, and a repair is
\* verified only where a turn was run.
VerifiedByTurn ==
    /\ row.session # None => row.session \in made
    /\ row.state \in {"REPAIR_VERIFIED", "FAILED"} => turns[row.session] = 1
===============================================================================
