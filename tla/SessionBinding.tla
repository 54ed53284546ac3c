--------------------------- MODULE SessionBinding ---------------------------
(* The TrueForge session of an incident (trueforge-session-service.ts) and *)
(* the row that binds it (trueforge-session-binding-repository.ts): its    *)
(* reservation and creation, its verification before every use, and the    *)
(* update of its coordinator spec.                                         *)
(*                                                                         *)
(* TrueForge offers no way to find a session whose id got lost, so a       *)
(* creation is asked for once; a request that was not answered, or whose   *)
(* caller died, may still create a session. A creation token is the number *)
(* of the reservation, and the session that its request creates is known   *)
(* by the same number; 0 is a session of an earlier release. Age is a fact *)
(* of a row: it was written less than a minute ago (fresh).                *)
EXTENDS Naturals, FiniteSets

CONSTANTS
    Incident,
    Call,          \* calls of the service, in one process or several
    MaxToken,      \* bound: reservations of one incident
    MaxCrash,      \* bound: crashes
    None

ASSUME SessionAssumption ==
    /\ MaxToken \in Nat \ {0} /\ MaxCrash \in Nat
    /\ None \notin Incident \union (0..MaxToken)

VARIABLES
    row,        \* trueforge_session_bindings
    tokens,     \* the number of reservations made for an incident
    remote,     \* the sessions of TrueForge
    wire,       \* creation requests that TrueForge has neither done nor refused
    call,       \* the calls, each with the answer it waits for
    crashes

vars == <<row, tokens, remote, wire, call, crashes>>

Session == 0..MaxToken
Token == 1..MaxToken
Version == {"current", "prior", "foreign"}   \* coordinator_spec_version, and a spec
Accepted == {"current", "prior"}

NoRow == [state |-> "none", session |-> None, token |-> None, version |-> "current", fresh |-> FALSE]
Bound(session, version) ==
    [state |-> "ACTIVE", session |-> session, token |-> None, version |-> version, fresh |-> FALSE]
Away == [pc |-> "idle", incident |-> None, session |-> None, version |-> "current"]

NoSession == [is |-> "none", spec |-> "current"]
Live(spec) == [is |-> "live", spec |-> spec]

State == {"none", "CREATING", "CREATION_UNCERTAIN", "ACTIVE", "LOST"}
PC == {"idle", "reserve", "create", "stale", "lookup", "ensured", "update", "updated", "ready"}

TypeOK ==
    /\ row \in [Incident -> [state : State, session : Session \union {None},
                             token : Token \union {None}, version : Version, fresh : BOOLEAN]]
    /\ tokens \in [Incident -> Session]
    /\ remote \in [Incident -> [Session -> [is : {"none", "live", "gone"}, spec : Version]]]
    /\ wire \in [Incident -> SUBSET Token]
    /\ call \in [Call -> [pc : PC, incident : Incident \union {None},
                          session : Session \union {None}, version : Version]]
    /\ crashes \in 0..MaxCrash
    /\ \A i \in Incident :
          /\ (row[i].session # None) = (row[i].state \in {"ACTIVE", "LOST"})
          /\ row[i].state = "CREATING" => row[i].token # None
    /\ \A c \in Call : call[c].pc # "idle" => call[c].incident # None

(* An incident is new, or bound by an earlier release. *)
Init ==
    /\ row \in [Incident -> {NoRow, Bound(0, "prior"), Bound(0, "foreign")}]
    /\ tokens = [i \in Incident |-> 0]
    /\ remote = [i \in Incident |-> [s \in Session |->
                    IF s = 0 /\ row[i] # NoRow THEN Live(row[i].version) ELSE NoSession]]
    /\ wire = [i \in Incident |-> {}]
    /\ call = [c \in Call |-> Away] /\ crashes = 0

At(c, pc) == call[c].pc = pc
Of(c) == call[c].incident
GoTo(c, pc) == call' = [call EXCEPT ![c].pc = pc]
Return(c) == call' = [call EXCEPT ![c] = Away]
Is(i, state) == row[i].state = state
BoundTo(i, s) == Is(i, "ACTIVE") /\ row[i].session = s
Holds(i, t) == row[i].token = t

-----------------------------------------------------------------------------
(* Mutant: a reservation blocks however old it is. *)
Classify_NeverStale(c, i) ==
    \/ /\ Is(i, "ACTIVE")
       /\ call' = [call EXCEPT ![c] = [Away EXCEPT !.pc = "lookup", !.incident = i,
                                                   !.session = row[i].session]]
    \/ row[i].state \in {"CREATING", "CREATION_UNCERTAIN", "LOST"} /\ Return(c)

(* What ensure does with the row it has read: an active one is verified, a *)
(* reservation of another call may be stale, an uncertain or lost one      *)
(* blocks. reconcileExisting... begins with an active row only.            *)
Classify(c, i) ==
    \/ /\ Is(i, "ACTIVE")
       /\ call' = [call EXCEPT ![c] = [Away EXCEPT !.pc = "lookup", !.incident = i,
                                                   !.session = row[i].session]]
    \/ /\ Is(i, "CREATING") /\ ~row[i].fresh
       /\ call' = [call EXCEPT ![c] = [Away EXCEPT !.pc = "stale", !.incident = i,
                                                   !.session = row[i].token]]
    \/ /\ \/ Is(i, "CREATING") /\ row[i].fresh
          \/ row[i].state \in {"CREATION_UNCERTAIN", "LOST"}
       /\ Return(c)

Ensure(c, i) ==
    /\ At(c, "idle")
    /\ \/ /\ Is(i, "none") /\ tokens[i] < MaxToken
          /\ call' = [call EXCEPT ![c] = [Away EXCEPT !.pc = "reserve", !.incident = i]]
       \/ Classify(c, i)
    /\ UNCHANGED <<row, tokens, remote, wire, crashes>>

(* reserveCreation, and for the caller whose token is stored the request. *)
Reserve(c) ==
    LET i == Of(c)
        t == tokens[i] + 1
    IN  /\ At(c, "reserve") /\ Is(i, "none") /\ t \in Token
        /\ tokens' = [tokens EXCEPT ![i] = t]
        /\ row' = [row EXCEPT ![i] = [NoRow EXCEPT !.state = "CREATING", !.token = t,
                                                   !.fresh = TRUE]]
        /\ wire' = [wire EXCEPT ![i] = @ \union {t}]
        /\ call' = [call EXCEPT ![c].pc = "create", ![c].session = t]
        /\ UNCHANGED <<remote, crashes>>

ReserveNot(c) ==
    /\ At(c, "reserve") /\ Classify(c, Of(c))
    /\ UNCHANGED <<row, tokens, remote, wire, crashes>>

-----------------------------------------------------------------------------
(* TrueForge, and time. A request that is refused creates nothing. *)

Creates(i, t) ==
    /\ t \in wire[i] /\ wire' = [wire EXCEPT ![i] = @ \ {t}]
    /\ remote' = [remote EXCEPT ![i][t] = Live("current")]
    /\ UNCHANGED <<row, tokens, call, crashes>>

Vanishes(i, s) ==
    /\ remote[i][s].is = "live" /\ remote' = [remote EXCEPT ![i][s].is = "gone"]
    /\ UNCHANGED <<row, tokens, wire, call, crashes>>

Age(i) ==
    /\ row[i].fresh /\ row' = [row EXCEPT ![i].fresh = FALSE]
    /\ UNCHANGED <<tokens, remote, wire, call, crashes>>

-----------------------------------------------------------------------------
(* The answer to the creation. activate takes a reservation that a reader  *)
(* found stale in the meantime too, by its token.                          *)
CreateAnswered(c) ==
    LET i == Of(c)
        t == call[c].session
    IN  /\ At(c, "create") /\ remote[i][t].is # "none"
        /\ IF row[i].state \in {"CREATING", "CREATION_UNCERTAIN"} /\ Holds(i, t)
           THEN row' = [row EXCEPT ![i] = Bound(t, @.version)] /\ GoTo(c, "ensured")
           ELSE UNCHANGED row /\ Return(c)
        /\ UNCHANGED <<tokens, remote, wire, crashes>>

(* A definitive refusal: releaseCreation. *)
CreateRefused(c) ==
    LET i == Of(c)
        t == call[c].session
    IN  /\ At(c, "create") /\ t \in wire[i] /\ wire' = [wire EXCEPT ![i] = @ \ {t}]
        /\ row' = [row EXCEPT ![i] =
              IF @.state \in {"CREATING", "CREATION_UNCERTAIN"} /\ @.token = t THEN NoRow ELSE @]
        /\ Return(c)
        /\ UNCHANGED <<tokens, remote, crashes>>

(* Mutant: a creation without an answer is released like a refused one. *)
CreateUnanswered_Releases(c) ==
    LET i == Of(c)
    IN  /\ At(c, "create")
        /\ row' = [row EXCEPT ![i] =
              IF @.state = "CREATING" /\ @.token = call[c].session THEN NoRow ELSE @]
        /\ Return(c)
        /\ UNCHANGED <<tokens, remote, wire, crashes>>

(* No answer: markCreationUncertain. *)
CreateUnanswered(c) ==
    LET i == Of(c)
    IN  /\ At(c, "create")
        /\ row' = [row EXCEPT ![i] =
              IF @.state = "CREATING" /\ @.token = call[c].session
              THEN [@ EXCEPT !.state = "CREATION_UNCERTAIN", !.token = None] ELSE @]
        /\ Return(c)
        /\ UNCHANGED <<tokens, remote, wire, crashes>>

(* Mutant: the reader that finds a reservation stale drops its token too. *)
MarkStale_DropsToken(c) ==
    LET i == Of(c)
    IN  /\ At(c, "stale") /\ Return(c)
        /\ row' = [row EXCEPT ![i] =
              IF @.state = "CREATING" /\ @.token = call[c].session
              THEN [@ EXCEPT !.state = "CREATION_UNCERTAIN", !.token = None] ELSE @]
        /\ UNCHANGED <<tokens, remote, wire, crashes>>

(* markStaleCreationUncertain keeps the token, for the answer that is late. *)
MarkStale(c) ==
    LET i == Of(c)
    IN  /\ At(c, "stale")
        /\ IF Is(i, "CREATING") /\ Holds(i, call[c].session)
           THEN row' = [row EXCEPT ![i].state = "CREATION_UNCERTAIN"] /\ Return(c)
           ELSE /\ UNCHANGED row
                /\ IF Is(i, "ACTIVE") THEN Classify(c, i) ELSE Return(c)
        /\ UNCHANGED <<tokens, remote, wire, crashes>>

-----------------------------------------------------------------------------
(* verifyActiveBinding: only not-found is evidence of a loss. *)

LookupFinds(c) ==
    /\ At(c, "lookup") /\ remote[Of(c)][call[c].session].is = "live"
    /\ GoTo(c, "ensured")
    /\ UNCHANGED <<row, tokens, remote, wire, crashes>>

(* Mutant: the id of a lost session is forgotten. *)
LookupFindsNothing_ForgetsId(c) ==
    LET i == Of(c)
        s == call[c].session
    IN  /\ At(c, "lookup") /\ remote[i][s].is = "gone"
        /\ row' = [row EXCEPT ![i] =
              IF BoundTo(i, s) THEN [@ EXCEPT !.state = "LOST", !.session = None] ELSE @]
        /\ Return(c)
        /\ UNCHANGED <<tokens, remote, wire, crashes>>

LookupFindsNothing(c) ==
    LET i == Of(c)
        s == call[c].session
    IN  /\ At(c, "lookup") /\ remote[i][s].is = "gone"
        /\ row' = [row EXCEPT ![i].state = IF BoundTo(i, s) THEN "LOST" ELSE @]
        /\ Return(c)
        /\ UNCHANGED <<tokens, remote, wire, crashes>>

LookupFails(c) ==
    /\ At(c, "lookup") /\ Return(c)
    /\ UNCHANGED <<row, tokens, remote, wire, crashes>>

-----------------------------------------------------------------------------
(* ensureCoordinatorForIncident, with the result of an ensure that may be  *)
(* old: the row is read again before the session is updated.               *)
Coordinate(c) ==
    LET i == Of(c)
    IN  /\ At(c, "ensured")
        /\ IF BoundTo(i, call[c].session) /\ row[i].version \in Accepted
           THEN call' = [call EXCEPT ![c].pc = "update", ![c].version = row[i].version]
           ELSE Return(c)
        /\ UNCHANGED <<row, tokens, remote, wire, crashes>>

Updates(c) ==
    LET i == Of(c)
        s == call[c].session
    IN  /\ At(c, "update") /\ remote[i][s].is = "live"
        /\ remote' = [remote EXCEPT ![i][s].spec = "current"]
        /\ GoTo(c, "updated")
        /\ UNCHANGED <<row, tokens, wire, crashes>>

(* The version is recorded after the session has it. A call that finds the *)
(* version recorded by another is as good as one that recorded it.         *)
UpdateAnswered(c) ==
    LET i == Of(c)
        s == call[c].session
    IN  /\ At(c, "updated")
        /\ row' = [row EXCEPT ![i].version =
                      IF BoundTo(i, s) /\ @ = call[c].version THEN "current" ELSE @]
        /\ IF BoundTo(i, s) /\ row'[i].version = "current" THEN GoTo(c, "ready") ELSE Return(c)
        /\ UNCHANGED <<tokens, remote, wire, crashes>>

(* Mutant: the version is recorded although the update got no answer. *)
UpdateFails_Records(c) ==
    LET i == Of(c)
    IN  /\ call[c].pc \in {"update", "updated"} /\ Return(c)
        /\ row' = [row EXCEPT ![i].version =
                      IF BoundTo(i, call[c].session) THEN "current" ELSE @]
        /\ UNCHANGED <<tokens, remote, wire, crashes>>

UpdateFails(c) ==
    /\ call[c].pc \in {"update", "updated"} /\ Return(c)
    /\ UNCHANGED <<row, tokens, remote, wire, crashes>>

(* The session goes to the caller, which starts its turn. *)
Leave(c) ==
    /\ call[c].pc \in {"ensured", "ready"} /\ Return(c)
    /\ UNCHANGED <<row, tokens, remote, wire, crashes>>

Crash ==
    /\ crashes < MaxCrash /\ crashes' = crashes + 1
    /\ call' = [c \in Call |-> Away]
    /\ UNCHANGED <<row, tokens, remote, wire>>

-----------------------------------------------------------------------------
Proceeds(c) ==
    \/ Reserve(c) \/ ReserveNot(c)
    \/ CreateAnswered(c) \/ CreateRefused(c) \/ CreateUnanswered(c) \/ MarkStale(c)
    \/ LookupFinds(c) \/ LookupFindsNothing(c) \/ LookupFails(c)
    \/ Coordinate(c) \/ UpdateAnswered(c) \/ UpdateFails(c) \/ Leave(c)

Next ==
    \/ \E c \in Call : Proceeds(c) \/ Updates(c) \/ \E i \in Incident : Ensure(c, i)
    \/ \E i \in Incident : Age(i) \/ \E s \in Session : Creates(i, s) \/ Vanishes(i, s)
    \/ Crash

Spec == Init /\ [][Next]_vars

(* A call goes on, by its time-outs if nothing else; rows grow old; the    *)
(* incident is opened again.                                               *)
Fairness ==
    /\ \A c \in Call : WF_vars(Proceeds(c))
    /\ \A i \in Incident : WF_vars(Age(i)) /\ WF_vars(\E c \in Call : Ensure(c, i))

FairSpec == Spec /\ Fairness

-----------------------------------------------------------------------------
Created(i) == {s \in Session : remote[i][s].is # "none"}

(* TrueForge never makes two sessions for an incident, whatever request is *)
(* late, lost or repeated; and while a session is bound it is that one.    *)
OneSession ==
    \A i \in Incident :
        /\ Cardinality(Created(i)) <= 1
        /\ row[i].state \in {"ACTIVE", "LOST"} => Created(i) = {row[i].session}

(* A session that is handed out, and one whose row says so, runs the       *)
(* current coordinator spec: the row is never ahead of TrueForge.          *)
VersionIsApplied ==
    /\ \A i \in Incident : Is(i, "ACTIVE") /\ row[i].version = "current"
                              => remote[i][row[i].session].spec = "current"
    /\ \A c \in Call : At(c, "ready") => remote[Of(c)][call[c].session].spec = "current"

(* The answer that names a created session binds it, however late it is:   *)
(* a reader that found the reservation stale does not make it an orphan.   *)
(* And a session that is bound is neither exchanged nor, once lost, used   *)
(* again, so every turn of the incident goes to the session of its first.  *)
AnsweredIsBound ==
    [][/\ \A c \in Call : CreateAnswered(c) => row'[Of(c)].session = call[c].session
       /\ \A i \in Incident : row[i].session # None =>
             /\ row'[i].session = row[i].session
             /\ Is(i, "LOST") => row'[i].state = "LOST"]_vars

(* A reservation is not held for ever by a caller that is gone. *)
CreationSettles == \A i \in Incident : Is(i, "CREATING") ~> ~Is(i, "CREATING")
=============================================================================
