------------------------ MODULE SessionBindingProofs ------------------------
(* Proofs about the TrueForge session of an incident, for any incidents,   *)
(* calls and bounds. The argument: whatever TrueForge has made or may yet  *)
(* make for an incident is one session (IncidentOK), because a reservation *)
(* is only made where it neither has nor may; and a call that creates owns *)
(* the token in the row and is the only one (CallOK, Alone), so its answer *)
(* binds.                                                                  *)
EXTENDS SessionBinding, FiniteSetTheorems, TLAPS

RowState ==
    [state : State, session : Session \union {None}, token : Token \union {None},
     version : Version, fresh : BOOLEAN]
CallState ==
    [pc : PC, incident : Incident \union {None}, session : Session \union {None},
     version : Version]

Reserved == {"CREATING", "CREATION_UNCERTAIN"}
Pending(i) == Created(i) \union wire[i]

\* One session is made or may still be, and none without a row; a bound one
\* is made; and a session's spec and its version agree.
IncidentOK(i) ==
    /\ \A s, t \in Pending(i) : s = t
    /\ Created(i) \intersect wire[i] = {}
    /\ Is(i, "none") => Pending(i) = {}
    /\ row[i].session # None => row[i].session \in Created(i)
    /\ \A s \in Token : remote[i][s].spec = "current"
    /\ row[i].session # None /\ row[i].version = "current"
         => remote[i][row[i].session].spec = "current"

\* A creating call owns the reservation, a call with a session knows it.
CallOK(c) ==
    /\ At(c, "create") => /\ call[c].session \in Token
                          /\ row[Of(c)].state \in Reserved
                          /\ row[Of(c)].token = call[c].session
    /\ At(c, "stale") => call[c].session \in Token
    /\ call[c].pc \in {"lookup", "ensured", "update", "updated", "ready"} =>
         call[c].session \in Session
    /\ call[c].pc \in {"updated", "ready"} => remote[Of(c)][call[c].session].spec = "current"

\* An incident's creating call is one.
Alone ==
    \A c, d \in Call : At(c, "create") /\ At(d, "create") /\ Of(c) = Of(d) => c = d

Inv ==
    /\ TypeOK
    /\ \A i \in Incident : IncidentOK(i)
    /\ \A c \in Call : CallOK(c)
    /\ Alone

-----------------------------------------------------------------------------
(* How a step changes a call. *)

\* A token is the name of a session, and None of nothing.
LEMMA Names == Token \subseteq Session /\ None \notin Session /\ None \notin Incident
  BY SessionAssumption DEF Token, Session

\* The call that steps is in its new state, the others are as they were.
LEMMA CallStep ==
  ASSUME call \in [Call -> CallState], NEW c \in Call, NEW k \in CallState,
         call' = [call EXCEPT ![c] = k]
  PROVE  /\ call' \in [Call -> CallState] /\ call'[c] = k
         /\ \A d \in Call : d # c => call'[d] = call[d]
  OBVIOUS

\* A call that goes on keeps what it knows.
LEMMA GoToStep ==
  ASSUME call \in [Call -> CallState], NEW c \in Call, NEW p \in PC, GoTo(c, p)
  PROVE  /\ call' \in [Call -> CallState]
         /\ call'[c].pc = p /\ call'[c].incident = call[c].incident
         /\ call'[c].session = call[c].session
         /\ \A d \in Call : d # c => call'[d] = call[d]
<1> DEFINE k == [call[c] EXCEPT !.pc = p]
<1>1. k \in CallState /\ k.pc = p /\ k.incident = call[c].incident /\ k.session = call[c].session
  BY DEF CallState
<1>2. call' = [call EXCEPT ![c] = k]
  BY DEF GoTo
<1> HIDE DEF k
<1> QED BY <1>1, <1>2, CallStep

\* A call that returns is idle.
LEMMA ReturnStep ==
  ASSUME call \in [Call -> CallState], NEW c \in Call, Return(c)
  PROVE  /\ call' \in [Call -> CallState] /\ call'[c].pc = "idle"
         /\ \A d \in Call : d # c => call'[d] = call[d]
<1>1. Away \in CallState /\ Away.pc = "idle"
  BY DEF Away, CallState, PC, Version
<1> QED BY <1>1, CallStep DEF Return

\* A call that classifies the row of an incident returns or is about to look
\* up the bound session or to fence the reservation.
LEMMA ClassifyStep ==
  ASSUME Inv, NEW c \in Call, NEW i \in Incident, Classify(c, i)
  PROVE  /\ call' \in [Call -> CallState]
         /\ \/ call'[c].pc = "idle"
            \/ /\ call'[c].pc = "lookup" /\ call'[c].incident = i
               /\ call'[c].session \in Session
            \/ /\ call'[c].pc = "stale" /\ call'[c].incident = i
               /\ call'[c].session \in Token
         /\ \A d \in Call : d # c => call'[d] = call[d]
<1>1. call \in [Call -> CallState] /\ row[i] \in RowState
  BY DEF Inv, TypeOK, CallState, RowState
<1>2. CASE Is(i, "ACTIVE")
           /\ call' = [call EXCEPT ![c] = [Away EXCEPT !.pc = "lookup", !.incident = i,
                                                       !.session = row[i].session]]
  <2> DEFINE k == [Away EXCEPT !.pc = "lookup", !.incident = i, !.session = row[i].session]
  <2>1. row[i].session \in Session
    BY <1>1, <1>2 DEF Inv, TypeOK, Is, RowState
  <2>2. k \in CallState /\ k.pc = "lookup" /\ k.incident = i /\ k.session \in Session
    BY <2>1 DEF Away, CallState, PC, Version
  <2>3. call' = [call EXCEPT ![c] = k]
    BY <1>2
  <2> HIDE DEF k
  <2> QED BY <1>1, <2>2, <2>3, CallStep
<1>3. CASE Is(i, "CREATING")
           /\ call' = [call EXCEPT ![c] = [Away EXCEPT !.pc = "stale", !.incident = i,
                                                       !.session = row[i].token]]
  <2> DEFINE k == [Away EXCEPT !.pc = "stale", !.incident = i, !.session = row[i].token]
  <2>1. row[i].token \in Token
    BY <1>1, <1>3 DEF Inv, TypeOK, Is, RowState
  <2>2. k \in CallState /\ k.pc = "stale" /\ k.incident = i /\ k.session \in Token
    <3>1. row[i].token \in Session
      BY <2>1, Names
    <3> QED BY <2>1, <3>1 DEF Away, CallState, PC, Version
  <2>3. call' = [call EXCEPT ![c] = k]
    BY <1>3
  <2> HIDE DEF k
  <2> QED BY <1>1, <2>2, <2>3, CallStep
<1>4. CASE Return(c)
  BY <1>1, <1>4, ReturnStep
<1> QED BY <1>2, <1>3, <1>4 DEF Classify

-----------------------------------------------------------------------------
(* What a step has to keep. *)

\* The rows, the sessions and the requests of other incidents are as they were.
Elsewhere(i) ==
    \A j \in Incident : j # i => row'[j] = row[j] /\ remote'[j] = remote[j] /\ wire'[j] = wire[j]

\* A call that does not step is not disturbed when, should it be creating, its
\* reservation stays, and the sessions' specs do not fall back.
LEMMA OthersSafe ==
  ASSUME Inv, NEW i \in Incident, Elsewhere(i), NEW d \in Call, call'[d] = call[d],
         At(d, "create") /\ Of(d) = i =>
             row'[i].state \in Reserved /\ row'[i].token = row[i].token,
         \A s \in Session : remote[i][s].spec = "current" => remote'[i][s].spec = "current"
  PROVE  CallOK(d)'
<1>1. CallOK(d)
  BY DEF Inv
<1>2. call[d].pc # "idle" => Of(d) \in Incident
  BY DEF Inv, TypeOK, Of
<1>3. At(d, "create") => row'[Of(d)].state \in Reserved /\ row'[Of(d)].token = call[d].session
  BY <1>1, <1>2 DEF CallOK, Elsewhere, At, Of
<1>4. call[d].pc \in {"updated", "ready"} => remote'[Of(d)][call[d].session].spec = "current"
  BY <1>1, <1>2 DEF CallOK, Elsewhere, Of
<1> QED BY <1>1, <1>3, <1>4 DEF CallOK, At, Of

\* A step of a call at one incident that does not begin a creation.
LEMMA StepSafe ==
  ASSUME Inv, TypeOK', NEW i \in Incident, Elsewhere(i), NEW c \in Call,
         \A d \in Call : d # c => call'[d] = call[d],
         call'[c].pc # "create",
         IncidentOK(i)', CallOK(c)',
         \A d \in Call : d # c /\ At(d, "create") /\ Of(d) = i =>
             row'[i].state \in Reserved /\ row'[i].token = row[i].token,
         \A s \in Session : remote[i][s].spec = "current" => remote'[i][s].spec = "current"
  PROVE  Inv'
<1>1. \A j \in Incident : IncidentOK(j)'
  BY DEF Inv, IncidentOK, Elsewhere, Pending, Created, Is
<1>2. \A d \in Call : CallOK(d)'
  BY OthersSafe
<1>3. Alone'
  BY DEF Inv, Alone, At, Of
<1> QED BY <1>1, <1>2, <1>3 DEF Inv

\* A step that moves only a call.
LEMMA MoveSafe ==
  ASSUME Inv, UNCHANGED <<row, tokens, remote, wire, crashes>>, NEW c \in Call,
         call' \in [Call -> CallState],
         \A d \in Call : d # c => call'[d] = call[d],
         call'[c].pc # "create",
         call'[c].pc # "idle" => call'[c].incident \in Incident,
         call'[c].pc = "stale" => call'[c].session \in Token,
         call'[c].pc \in {"lookup", "ensured", "update", "updated", "ready"}
             => call'[c].session \in Session,
         call'[c].pc \in {"updated", "ready"}
             => remote[call'[c].incident][call'[c].session].spec = "current"
  PROVE  Inv'
<1>1. TypeOK'
  <2>1. \A d \in Call : call'[d].pc # "idle" => call'[d].incident # None
    BY SessionAssumption DEF Inv, TypeOK
  <2> QED BY <2>1 DEF Inv, TypeOK, CallState
<1>2. CallOK(c)'
  BY DEF CallOK, At, Of
<1>3. \A j \in Incident : IncidentOK(j)'
  BY DEF Inv, IncidentOK, Pending, Created, Is
<1>4. \A d \in Call : d # c => CallOK(d)'
  BY DEF Inv, CallOK, At, Of
<1>5. Alone'
  BY DEF Inv, Alone, At, Of
<1> QED BY <1>1, <1>2, <1>3, <1>4, <1>5 DEF Inv

\* A call returns.
LEMMA ReturnSafe ==
  ASSUME Inv, NEW c \in Call, Return(c), UNCHANGED <<row, tokens, remote, wire, crashes>>
  PROVE  Inv'
<1>1. call \in [Call -> CallState]
  BY DEF Inv, TypeOK, CallState
<1> QED BY <1>1, ReturnStep, MoveSafe

\* A row changes under a call that does not create afterwards.
LEMMA RowSafe ==
  ASSUME Inv, UNCHANGED <<tokens, remote, wire, crashes>>, NEW c \in Call, NEW i \in Incident,
         NEW r \in RowState, row' = [row EXCEPT ![i] = r],
         (r.session # None) = (r.state \in {"ACTIVE", "LOST"}),
         r.state = "CREATING" => r.token # None,
         r.state = "none" => Pending(i) = {},
         r.session # None => r.session \in Created(i),
         r.session # None /\ r.version = "current" => remote[i][r.session].spec = "current",
         call' \in [Call -> CallState],
         \A d \in Call : d # c => call'[d] = call[d],
         call'[c].pc # "create",
         call'[c].pc # "idle" => call'[c].incident = i,
         CallOK(c)',
         \A d \in Call : d # c /\ At(d, "create") /\ Of(d) = i =>
             r.state \in Reserved /\ r.token = row[i].token
  PROVE  Inv'
<1>1. row \in [Incident -> RowState] /\ row'[i] = r /\ \A j \in Incident : j # i => row'[j] = row[j]
  BY DEF Inv, TypeOK, RowState
<1>2. TypeOK'
  <2>1. row' \in [Incident -> RowState]
    BY <1>1
  <2>2. \A j \in Incident :
           /\ (row'[j].session # None) = (row'[j].state \in {"ACTIVE", "LOST"})
           /\ row'[j].state = "CREATING" => row'[j].token # None
    BY <1>1 DEF Inv, TypeOK
  <2>3. \A d \in Call : call'[d].pc # "idle" => call'[d].incident # None
    BY SessionAssumption DEF Inv, TypeOK
  <2> QED BY <2>1, <2>2, <2>3 DEF Inv, TypeOK, CallState, RowState
<1>3. IncidentOK(i)'
  BY <1>1 DEF Inv, IncidentOK, Pending, Created, Is
<1>4. Elsewhere(i)
  BY <1>1 DEF Elsewhere
<1> QED BY <1>1, <1>2, <1>3, <1>4, StepSafe

-----------------------------------------------------------------------------
(* The steps. *)

\* The types of the parts, of a call and of the row it deals with.
LEMMA Types ==
  ASSUME Inv
  PROVE  /\ call \in [Call -> CallState] /\ row \in [Incident -> RowState]
         /\ \A c \in Call : call[c].pc # "idle" => Of(c) \in Incident
  BY DEF Inv, TypeOK, CallState, RowState, Of

\* The initial state, with or without a session of an earlier release.
LEMMA InitInv == Init => Inv
<1> SUFFICES ASSUME Init PROVE Inv
  OBVIOUS
<1>1. Away \in CallState /\ Away.pc = "idle"
  BY DEF Away, CallState, PC, Version
<1>2. \A c \in Call : call[c].pc = "idle"
  BY <1>1 DEF Init
<1>3. 0 \in Session /\ 0 \notin Token
  BY SessionAssumption DEF Session, Token
<1>4. \A i \in Incident :
        /\ row[i] \in RowState
        /\ \/ row[i].state = "none" /\ row[i].session = None /\ row[i] = NoRow
           \/ row[i].state = "ACTIVE" /\ row[i].session = 0 /\ row[i] # NoRow
  <2>1. NoRow \in RowState /\ NoRow.state = "none" /\ NoRow.session = None
    BY DEF NoRow, RowState, State, Version
  <2>2. ASSUME NEW v \in Version
        PROVE  /\ Bound(0, v) \in RowState
               /\ Bound(0, v).state = "ACTIVE" /\ Bound(0, v).session = 0
    BY <1>3 DEF Bound, RowState, State
  <2>3. \A i \in Incident : row[i] = NoRow \/ \E v \in Version : row[i] = Bound(0, v)
    BY DEF Init, Version
  <2> QED BY <2>1, <2>2, <2>3
<1>5. \A i \in Incident, s \in Session :
        /\ remote[i][s] \in [is : {"none", "live", "gone"}, spec : Version]
        /\ remote[i][s].is # "none" <=> s = 0 /\ row[i] # NoRow
        /\ s # 0 => remote[i][s].spec = "current"
        /\ s = 0 /\ row[i] # NoRow => remote[i][s].spec = row[i].version
  BY <1>4 DEF Init, NoSession, Live, Version, RowState
<1>6. TypeOK
  <2>1. row \in [Incident -> RowState] /\ call \in [Call -> CallState]
    BY <1>1, <1>4 DEF Init
  <2>2. remote \in [Incident -> [Session -> [is : {"none", "live", "gone"}, spec : Version]]]
    BY <1>5 DEF Init
  <2>3. \A i \in Incident : /\ (row[i].session # None) = (row[i].state \in {"ACTIVE", "LOST"})
                            /\ row[i].state # "CREATING"
    BY <1>4, SessionAssumption DEF Session
  <2> QED BY <2>1, <2>2, <2>3, <1>2, <1>3, SessionAssumption
          DEF TypeOK, Init, RowState, CallState
<1>7. \A i \in Incident : IncidentOK(i)
  <2> SUFFICES ASSUME NEW i \in Incident PROVE IncidentOK(i)
    OBVIOUS
  <2>1. wire[i] = {}
    BY DEF Init
  <2>2. Created(i) = IF row[i] = NoRow THEN {} ELSE {0}
    BY <1>3, <1>5 DEF Created
  <2>3. \A s \in Token : remote[i][s].spec = "current"
    BY <1>3, <1>5 DEF Token, Session
  <2> QED BY <1>3, <1>4, <1>5, <2>1, <2>2, <2>3 DEF IncidentOK, Pending, Is
<1> QED BY <1>2, <1>6, <1>7 DEF Inv, CallOK, Alone, At

\* ensure begins with a row, or with none.
LEMMA EnsureInv ==
  ASSUME Inv, NEW c \in Call, NEW i \in Incident, Ensure(c, i)
  PROVE  Inv'
<1>1. CASE call' = [call EXCEPT ![c] = [Away EXCEPT !.pc = "reserve", !.incident = i]]
  <2> DEFINE k == [Away EXCEPT !.pc = "reserve", !.incident = i]
  <2>1. k \in CallState /\ k.pc = "reserve" /\ k.incident = i
    BY DEF Away, CallState, PC, Version
  <2>2. call' = [call EXCEPT ![c] = k]
    BY <1>1
  <2> HIDE DEF k
  <2>3. /\ call' \in [Call -> CallState] /\ call'[c] = k
        /\ \A d \in Call : d # c => call'[d] = call[d]
    BY <2>1, <2>2, Types, CallStep
  <2>4. UNCHANGED <<row, tokens, remote, wire, crashes>>
    BY DEF Ensure
  <2> QED BY <2>1, <2>3, <2>4, MoveSafe
<1>2. CASE Classify(c, i)
  BY <1>2, ClassifyStep, MoveSafe DEF Ensure
<1> QED BY <1>1, <1>2 DEF Ensure

\* A reservation that came too late.
LEMMA ReserveNotInv ==
  ASSUME Inv, NEW c \in Call, ReserveNot(c)
  PROVE  Inv'
<1>1. Of(c) \in Incident
  BY Types DEF ReserveNot, At
<1> QED BY <1>1, ClassifyStep, MoveSafe DEF ReserveNot

\* The reservation: nothing is made or asked for without a row, so the
\* request that goes out is for the one session.
LEMMA ReserveInv ==
  ASSUME Inv, NEW c \in Call, Reserve(c)
  PROVE  Inv'
<1>1. PICK i \in Incident : Of(c) = i
  BY Types DEF Reserve, At
<1> DEFINE t == tokens[i] + 1
           r == [NoRow EXCEPT !.state = "CREATING", !.token = t, !.fresh = TRUE]
           k == [[call[c] EXCEPT !.pc = "create"] EXCEPT !.session = t]
<1>2. t \in Token /\ t \in Session /\ t # None
  BY <1>1, SessionAssumption, Names DEF Reserve, Inv, TypeOK, Token, Session
<1>3. /\ r \in RowState /\ r.state = "CREATING" /\ r.token = t /\ r.session = None
      /\ r.version = "current"
  BY <1>2 DEF NoRow, RowState, State, Version
<1>4. k \in CallState /\ k.pc = "create" /\ k.session = t /\ k.incident = i
  BY <1>1, <1>2, Types DEF CallState, PC, Of
<1>5. row' = [row EXCEPT ![i] = r] /\ call' = [call EXCEPT ![c] = k]
      /\ wire' = [wire EXCEPT ![i] = @ \union {t}] /\ tokens' = [tokens EXCEPT ![i] = t]
      /\ UNCHANGED <<remote, crashes>> /\ Is(i, "none")
  BY <1>1 DEF Reserve
<1> HIDE DEF t, r, k
<1>6. /\ call' \in [Call -> CallState] /\ call'[c] = k
      /\ \A d \in Call : d # c => call'[d] = call[d]
  BY <1>4, <1>5, Types, CallStep
<1>7. /\ row' \in [Incident -> RowState] /\ row'[i] = r /\ wire'[i] = wire[i] \union {t}
      /\ wire' \in [Incident -> SUBSET Token] /\ tokens' \in [Incident -> Session]
      /\ \A j \in Incident : j # i => row'[j] = row[j] /\ wire'[j] = wire[j]
  BY <1>1, <1>2, <1>3, <1>5, Types DEF Inv, TypeOK
<1>8. TypeOK'
  <2>0. (r.session # None) = (r.state \in {"ACTIVE", "LOST"}) /\ r.token # None
    BY <1>2, <1>3
  <2>1. \A j \in Incident :
           /\ (row'[j].session # None) = (row'[j].state \in {"ACTIVE", "LOST"})
           /\ row'[j].state = "CREATING" => row'[j].token # None
    BY <1>7, <2>0 DEF Inv, TypeOK
  <2>2. \A d \in Call : call'[d].pc # "idle" => call'[d].incident # None
    BY <1>1, <1>4, <1>6, SessionAssumption DEF Inv, TypeOK
  <2> QED BY <1>5, <1>6, <1>7, <2>1, <2>2 DEF Inv, TypeOK, CallState, RowState
<1>9. \A j \in Incident : IncidentOK(j)'
  <2>1. IncidentOK(i)'
    <3>1. Pending(i) = {} /\ Created(i)' = Created(i) /\ Pending(i)' = {t} /\ Created(i) = {}
      BY <1>1, <1>5, <1>7 DEF Inv, IncidentOK, Pending, Created, Is
    <3> QED BY <1>1, <1>3, <1>5, <1>7, <3>1 DEF Inv, IncidentOK, Is
  <2>2. ASSUME NEW j \in Incident, j # i PROVE IncidentOK(j)'
    BY <1>5, <1>7, <2>2 DEF Inv, IncidentOK, Pending, Created, Is
  <2> QED BY <2>1, <2>2
<1>10. \A d \in Call : d # c => ~(At(d, "create") /\ Of(d) = i)
  BY <1>1, <1>5 DEF Inv, CallOK, Is, Reserved
<1>11. \A d \in Call : CallOK(d)'
  <2>1. CallOK(c)'
    BY <1>1, <1>2, <1>3, <1>4, <1>6, <1>7 DEF CallOK, At, Of, Reserved
  <2>2. ASSUME NEW d \in Call, d # c PROVE CallOK(d)'
    BY <1>1, <1>5, <1>6, <1>7, <1>10, <2>2, OthersSafe DEF Elsewhere
  <2> QED BY <2>1, <2>2
<1>12. Alone'
  BY <1>4, <1>6, <1>10 DEF Inv, Alone, At, Of
<1> QED BY <1>8, <1>9, <1>11, <1>12 DEF Inv

\* The answer binds: the creating call owns the reservation, and its session
\* is what TrueForge has made.
LEMMA CreateAnsweredInv ==
  ASSUME Inv, NEW c \in Call, CreateAnswered(c)
  PROVE  Inv'
<1>1. PICK i \in Incident : Of(c) = i
  BY Types DEF CreateAnswered, At
<1> DEFINE t == call[c].session
           r == Bound(t, row[i].version)
<1>0. row[i] \in RowState
  BY <1>1, Types
<1>2. t \in Token /\ t \in Session /\ t # None
  BY Names DEF Inv, CallOK, CreateAnswered
<1>3. row[i].state \in Reserved /\ row[i].token = t
  BY <1>1 DEF Inv, CallOK, CreateAnswered
<1>4. row' = [row EXCEPT ![i] = r] /\ GoTo(c, "ensured")
  BY <1>1, <1>3 DEF CreateAnswered, Holds, Reserved
<1>5. /\ r \in RowState /\ r.state = "ACTIVE" /\ r.session = t /\ r.version = row[i].version
  BY <1>0, <1>2 DEF Bound, RowState, State
<1>6. t \in Created(i) /\ remote[i][t].spec = "current"
  BY <1>1, <1>2 DEF CreateAnswered, Created, Inv, IncidentOK
<1>7. /\ call' \in [Call -> CallState] /\ call'[c].pc = "ensured" /\ call'[c].incident = i
      /\ call'[c].session = t
      /\ \A d \in Call : d # c => call'[d] = call[d]
  BY <1>1, <1>4, Types, GoToStep DEF PC, Of
<1>8. CallOK(c)'
  BY <1>2, <1>7 DEF CallOK, At
<1>9. \A d \in Call : d # c => ~(At(d, "create") /\ Of(d) = i)
  BY <1>1 DEF Inv, Alone, CreateAnswered
<1>10. UNCHANGED <<tokens, remote, wire, crashes>>
  BY DEF CreateAnswered
<1> HIDE DEF t, r
<1> QED BY <1>1, <1>2, <1>4, <1>5, <1>6, <1>7, <1>8, <1>9, <1>10, RowSafe

\* A refusal takes the request and the reservation back: nothing is left.
LEMMA CreateRefusedInv ==
  ASSUME Inv, NEW c \in Call, CreateRefused(c)
  PROVE  Inv'
<1>1. PICK i \in Incident : Of(c) = i
  BY Types DEF CreateRefused, At
<1> DEFINE t == call[c].session
<1>2. row[i].state \in Reserved /\ row[i].token = t /\ t \in wire[i]
  BY <1>1 DEF Inv, CallOK, CreateRefused
<1>3. row' = [row EXCEPT ![i] = NoRow]
  BY <1>1, <1>2 DEF CreateRefused, Reserved
<1>4. /\ wire' = [wire EXCEPT ![i] = @ \ {t}] /\ UNCHANGED <<tokens, remote, crashes>>
      /\ Return(c)
  BY <1>1 DEF CreateRefused
<1>5. NoRow \in RowState /\ NoRow.state = "none" /\ NoRow.session = None
  BY DEF NoRow, RowState, State, Version
<1> HIDE DEF t
<1>6. /\ call' \in [Call -> CallState] /\ call'[c].pc = "idle"
      /\ \A d \in Call : d # c => call'[d] = call[d]
  BY <1>4, Types, ReturnStep
<1>7. /\ row' \in [Incident -> RowState] /\ row'[i] = NoRow /\ wire'[i] = wire[i] \ {t}
      /\ wire' \in [Incident -> SUBSET Token]
      /\ \A j \in Incident : j # i => row'[j] = row[j] /\ wire'[j] = wire[j]
  BY <1>1, <1>3, <1>4, <1>5, Types DEF Inv, TypeOK
<1>8. TypeOK'
  <2>0. (NoRow.session # None) = (NoRow.state \in {"ACTIVE", "LOST"})
    BY <1>5
  <2>1. ASSUME NEW j \in Incident
        PROVE  /\ (row'[j].session # None) = (row'[j].state \in {"ACTIVE", "LOST"})
               /\ row'[j].state = "CREATING" => row'[j].token # None
    <3>1. CASE j = i
      <4>1. row'[j] = NoRow
        BY <1>7, <3>1
      <4> QED BY <1>5, <2>0, <4>1
    <3>2. CASE j # i
      <4>1. row'[j] = row[j]
        BY <1>7, <3>2
      <4> QED BY <4>1 DEF Inv, TypeOK
    <3> QED BY <3>1, <3>2
  <2>2. \A d \in Call : call'[d].pc # "idle" => call'[d].incident # None
    BY <1>6 DEF Inv, TypeOK
  <2> QED BY <1>4, <1>6, <1>7, <2>1, <2>2 DEF Inv, TypeOK, CallState, RowState
<1>9. IncidentOK(i)'
  <2>1. Pending(i) = {t} /\ Created(i) = {}
    BY <1>1, <1>2 DEF Inv, IncidentOK, Pending
  <2>2. Created(i)' = {} /\ Pending(i)' = {}
    BY <1>4, <1>7, <2>1 DEF Pending, Created
  <2> QED BY <1>1, <1>4, <1>5, <1>7, <2>2 DEF Inv, IncidentOK
<1>10. \A d \in Call : d # c => ~(At(d, "create") /\ Of(d) = i)
  BY <1>1 DEF Inv, Alone, CreateRefused
<1>11. CallOK(c)' /\ Elsewhere(i)
  BY <1>4, <1>6, <1>7 DEF CallOK, At, Elsewhere
<1> QED BY <1>1, <1>4, <1>6, <1>8, <1>9, <1>10, <1>11, StepSafe

\* Without an answer the reservation, if it still is one, becomes uncertain.
LEMMA CreateUnansweredInv ==
  ASSUME Inv, NEW c \in Call, CreateUnanswered(c)
  PROVE  Inv'
<1>1. PICK i \in Incident : Of(c) = i
  BY Types DEF CreateUnanswered, At
<1> DEFINE r == [[row[i] EXCEPT !.state = "CREATION_UNCERTAIN"] EXCEPT !.token = None]
<1>0. row[i] \in RowState
  BY <1>1, Types
<1>2. Return(c) /\ UNCHANGED <<tokens, remote, wire, crashes>>
  BY DEF CreateUnanswered
<1>3. CASE row[i].state = "CREATING" /\ row[i].token = call[c].session
  <2>1. row' = [row EXCEPT ![i] = r]
    BY <1>1, <1>3 DEF CreateUnanswered
  <2>2. /\ r \in RowState /\ r.state = "CREATION_UNCERTAIN" /\ r.session = row[i].session
        /\ r.version = row[i].version
    BY <1>0 DEF RowState, State
  <2>3. row[i].session = None
    BY <1>1, <1>3 DEF Inv, TypeOK
  <2>4. \A d \in Call : d # c => ~(At(d, "create") /\ Of(d) = i)
    BY <1>1 DEF Inv, Alone, CreateUnanswered
  <2>5. /\ call' \in [Call -> CallState] /\ call'[c].pc = "idle"
        /\ \A d \in Call : d # c => call'[d] = call[d]
    BY <1>2, Types, ReturnStep
  <2>6. CallOK(c)'
    BY <2>5 DEF CallOK, At
  <2> HIDE DEF r
  <2>7. (r.session # None) = (r.state \in {"ACTIVE", "LOST"})
    BY <2>2, <2>3
  <2> QED BY <1>2, <2>1, <2>2, <2>3, <2>4, <2>5, <2>6, <2>7, RowSafe
<1>4. CASE ~(row[i].state = "CREATING" /\ row[i].token = call[c].session)
  <2>1. row' = [row EXCEPT ![i] = row[i]]
    BY <1>1, <1>4 DEF CreateUnanswered
  <2>2. UNCHANGED row
    BY <1>1, <2>1, Types
  <2> QED BY <1>2, <2>2, ReturnSafe
<1> QED BY <1>3, <1>4

\* The fence of a stale reservation keeps its token.
LEMMA MarkStaleInv ==
  ASSUME Inv, NEW c \in Call, MarkStale(c)
  PROVE  Inv'
<1>1. PICK i \in Incident : Of(c) = i
  BY Types DEF MarkStale, At
<1> DEFINE r == [row[i] EXCEPT !.state = "CREATION_UNCERTAIN"]
<1>0. row[i] \in RowState
  BY <1>1, Types
<1>2. UNCHANGED <<tokens, remote, wire, crashes>>
  BY DEF MarkStale
<1>3. CASE Is(i, "CREATING") /\ Holds(i, call[c].session)
  <2>1. row' = [row EXCEPT ![i] = r] /\ Return(c)
    BY <1>1, <1>3 DEF MarkStale
  <2>2. /\ r \in RowState /\ r.state = "CREATION_UNCERTAIN" /\ r.session = row[i].session
        /\ r.version = row[i].version /\ r.token = row[i].token
    BY <1>0 DEF RowState, State
  <2>3. row[i].session = None
    BY <1>3 DEF Inv, TypeOK, Is
  <2>4. /\ call' \in [Call -> CallState] /\ call'[c].pc = "idle"
        /\ \A d \in Call : d # c => call'[d] = call[d]
    BY <2>1, Types, ReturnStep
  <2>5. CallOK(c)'
    BY <2>4 DEF CallOK, At
  <2> HIDE DEF r
  <2>6. (r.session # None) = (r.state \in {"ACTIVE", "LOST"})
    BY <2>2, <2>3
  <2>7. r.state \in Reserved
    BY <2>2 DEF Reserved
  <2> QED BY <1>2, <2>1, <2>2, <2>3, <2>4, <2>5, <2>6, <2>7, RowSafe
<1>4. CASE ~(Is(i, "CREATING") /\ Holds(i, call[c].session))
  <2>1. UNCHANGED row /\ (Classify(c, i) \/ Return(c))
    BY <1>1, <1>4 DEF MarkStale
  <2>2. CASE Classify(c, i)
    BY <1>1, <1>2, <2>1, <2>2, ClassifyStep, MoveSafe
  <2> QED BY <1>2, <2>1, <2>2, ReturnSafe
<1> QED BY <1>3, <1>4

\* What finds a session, or fails to, moves the call.
LEMMA LookupInv ==
  ASSUME Inv, NEW c \in Call, LookupFinds(c) \/ LookupFails(c)
  PROVE  Inv'
<1>1. CASE LookupFinds(c)
  <2>1. /\ call' \in [Call -> CallState] /\ call'[c].pc = "ensured" /\ call'[c].incident = Of(c)
        /\ call'[c].session = call[c].session
        /\ \A d \in Call : d # c => call'[d] = call[d]
    BY <1>1, Types, GoToStep DEF LookupFinds, PC, Of
  <2>2. Of(c) \in Incident /\ call[c].session \in Session
    BY <1>1, Types DEF LookupFinds, At, Inv, CallOK
  <2> QED BY <1>1, <2>1, <2>2, MoveSafe DEF LookupFinds
<1>2. CASE LookupFails(c)
  BY <1>2, ReturnSafe DEF LookupFails
<1> QED BY <1>1, <1>2

\* A session that is gone makes its row LOST, if it still is the bound one.
LEMMA LookupFindsNothingInv ==
  ASSUME Inv, NEW c \in Call, LookupFindsNothing(c)
  PROVE  Inv'
<1>1. PICK i \in Incident : Of(c) = i
  BY Types DEF LookupFindsNothing, At
<1> DEFINE s == call[c].session
           r == [row[i] EXCEPT !.state = IF BoundTo(i, s) THEN "LOST" ELSE @]
<1>0. row[i] \in RowState
  BY <1>1, Types
<1>2. row' = [row EXCEPT ![i] = r] /\ Return(c) /\ UNCHANGED <<tokens, remote, wire, crashes>>
  BY <1>1 DEF LookupFindsNothing
<1>3. /\ r \in RowState /\ r.session = row[i].session /\ r.version = row[i].version
      /\ r.token = row[i].token
      /\ \/ r.state = row[i].state
         \/ r.state = "LOST" /\ row[i].state = "ACTIVE"
  BY <1>0 DEF RowState, State, BoundTo, Is
<1>4. /\ call' \in [Call -> CallState] /\ call'[c].pc = "idle"
      /\ \A d \in Call : d # c => call'[d] = call[d]
  BY <1>2, Types, ReturnStep
<1>5. CallOK(c)'
  BY <1>4 DEF CallOK, At
<1>6. /\ (row[i].session # None) = (row[i].state \in {"ACTIVE", "LOST"})
      /\ row[i].state = "CREATING" => row[i].token # None
      /\ IncidentOK(i)
  BY DEF Inv, TypeOK
<1>7. \A d \in Call : d # c /\ At(d, "create") /\ Of(d) = i =>
         r.state \in Reserved /\ r.token = row[i].token
  BY <1>3 DEF Inv, CallOK, Reserved
<1> HIDE DEF s, r
<1>8. (r.session # None) = (r.state \in {"ACTIVE", "LOST"})
  BY <1>3, <1>6
<1>9. /\ r.state = "CREATING" => r.token # None
      /\ r.state = "none" => Pending(i) = {}
      /\ r.session # None => r.session \in Created(i)
      /\ r.session # None /\ r.version = "current" => remote[i][r.session].spec = "current"
  BY <1>3, <1>6 DEF IncidentOK, Is
<1> QED BY <1>2, <1>3, <1>4, <1>5, <1>7, <1>8, <1>9, RowSafe

\* The second read of the row: the call goes on to update the bound session.
LEMMA CoordinateInv ==
  ASSUME Inv, NEW c \in Call, Coordinate(c)
  PROVE  Inv'
<1>1. PICK i \in Incident : Of(c) = i
  BY Types DEF Coordinate, At
<1> DEFINE k == [[call[c] EXCEPT !.pc = "update"] EXCEPT !.version = row[i].version]
<1>0. row[i] \in RowState /\ call[c] \in CallState
  BY <1>1, Types
<1>2. UNCHANGED <<row, tokens, remote, wire, crashes>>
  BY DEF Coordinate
<1>3. CASE BoundTo(i, call[c].session) /\ row[i].version \in Accepted
  <2>1. call' = [call EXCEPT ![c] = k]
    BY <1>1, <1>3 DEF Coordinate
  <2>2. k \in CallState /\ k.pc = "update" /\ k.incident = i /\ k.session = call[c].session
    BY <1>0, <1>1 DEF CallState, RowState, PC, Of
  <2>3. call[c].session \in Session
    BY DEF Coordinate, At, Inv, CallOK
  <2> HIDE DEF k
  <2>4. /\ call' \in [Call -> CallState] /\ call'[c] = k
        /\ \A d \in Call : d # c => call'[d] = call[d]
    BY <2>1, <2>2, Types, CallStep
  <2> QED BY <1>1, <1>2, <2>2, <2>3, <2>4, MoveSafe
<1>4. CASE ~(BoundTo(i, call[c].session) /\ row[i].version \in Accepted)
  BY <1>1, <1>2, <1>4, ReturnSafe DEF Coordinate
<1> QED BY <1>3, <1>4

\* The update: TrueForge has the current spec before anything says so.
LEMMA UpdatesInv ==
  ASSUME Inv, NEW c \in Call, Updates(c)
  PROVE  Inv'
<1>1. PICK i \in Incident, s \in Session : Of(c) = i /\ call[c].session = s
  BY Types DEF Updates, At, Inv, CallOK
<1> DEFINE u == [remote[i][s] EXCEPT !.spec = "current"]
<1>2. UNCHANGED <<row, tokens, wire, crashes>> /\ GoTo(c, "updated")
  BY <1>1 DEF Updates
<1>3. remote' = [remote EXCEPT ![i] = [remote[i] EXCEPT ![s] = u]]
  BY <1>1 DEF Updates
<1>4. /\ remote[i] \in [Session -> [is : {"none", "live", "gone"}, spec : Version]]
      /\ remote \in [Incident -> [Session -> [is : {"none", "live", "gone"}, spec : Version]]]
  BY <1>1 DEF Inv, TypeOK
<1>5. /\ u \in [is : {"none", "live", "gone"}, spec : Version] /\ u.spec = "current"
      /\ u.is = remote[i][s].is
  BY <1>1, <1>4 DEF Version
<1>6. /\ call' \in [Call -> CallState] /\ call'[c].pc = "updated" /\ call'[c].incident = i
      /\ call'[c].session = s
      /\ \A d \in Call : d # c => call'[d] = call[d]
  BY <1>1, <1>2, Types, GoToStep DEF PC, Of
<1> HIDE DEF u
<1>7. /\ remote' \in [Incident -> [Session -> [is : {"none", "live", "gone"}, spec : Version]]]
      /\ \A j \in Incident : j # i => remote'[j] = remote[j]
      /\ \A x \in Session : /\ remote'[i][x].is = remote[i][x].is
                            /\ remote'[i][x].spec = IF x = s THEN "current" ELSE remote[i][x].spec
  BY <1>1, <1>3, <1>4, <1>5
<1>8. TypeOK'
  <2>1. \A d \in Call : call'[d].pc # "idle" => call'[d].incident # None
    BY <1>1, <1>6, SessionAssumption DEF Inv, TypeOK
  <2> QED BY <1>2, <1>6, <1>7, <2>1 DEF Inv, TypeOK, CallState
<1>9. IncidentOK(i)'
  <2>1. Created(i)' = Created(i) /\ Pending(i)' = Pending(i)
    BY <1>2, <1>7 DEF Created, Pending
  <2>2. \A x \in Token : x \in Session
    BY Names
  <2>3. IncidentOK(i) /\ (row[i].session # None => row[i].session \in Session)
    BY <1>1 DEF Inv, IncidentOK, Created
  <2> QED BY <1>2, <1>7, <2>1, <2>2, <2>3 DEF IncidentOK, Is
<1>10. CallOK(c)'
  BY <1>1, <1>6, <1>7 DEF CallOK, At, Of
<1>11. \A d \in Call : At(d, "create") /\ Of(d) = i => row'[i].state \in Reserved /\ row'[i].token = row[i].token
  BY <1>2 DEF Inv, CallOK
<1> QED BY <1>1, <1>2, <1>6, <1>7, <1>8, <1>9, <1>10, <1>11, StepSafe DEF Elsewhere

\* The version is recorded by a call whose session has it.
LEMMA UpdateAnsweredInv ==
  ASSUME Inv, NEW c \in Call, UpdateAnswered(c)
  PROVE  Inv'
<1>1. PICK i \in Incident, s \in Session : Of(c) = i /\ call[c].session = s
  BY Types DEF UpdateAnswered, At, Inv, CallOK
<1> DEFINE r == [row[i] EXCEPT !.version =
                    IF BoundTo(i, s) /\ @ = call[c].version THEN "current" ELSE @]
<1>0. row[i] \in RowState /\ remote[i][s].spec = "current"
  BY <1>1, Types DEF UpdateAnswered, At, Inv, CallOK
<1>2. row' = [row EXCEPT ![i] = r] /\ UNCHANGED <<tokens, remote, wire, crashes>>
      /\ (GoTo(c, "ready") \/ Return(c))
  BY <1>1 DEF UpdateAnswered
<1>3. /\ r \in RowState /\ r.session = row[i].session /\ r.state = row[i].state
      /\ r.token = row[i].token
      /\ r.version = row[i].version \/ (row[i].session = s /\ row[i].state = "ACTIVE")
  BY <1>0 DEF RowState, Version, BoundTo, Is
<1>4. /\ call' \in [Call -> CallState]
      /\ \/ call'[c].pc = "idle"
         \/ call'[c].pc = "ready" /\ call'[c].incident = i /\ call'[c].session = s
      /\ \A d \in Call : d # c => call'[d] = call[d]
  BY <1>1, <1>2, Types, GoToStep, ReturnStep DEF PC, Of
<1> HIDE DEF r
<1>5. CallOK(c)'
  BY <1>0, <1>2, <1>4 DEF CallOK, At, Of
<1>6. /\ (row[i].session # None) = (row[i].state \in {"ACTIVE", "LOST"})
      /\ row[i].state = "CREATING" => row[i].token # None
      /\ IncidentOK(i)
  BY DEF Inv, TypeOK
<1>7. \A d \in Call : d # c /\ At(d, "create") /\ Of(d) = i =>
         r.state \in Reserved /\ r.token = row[i].token
  BY <1>3 DEF Inv, CallOK
<1>8. (r.session # None) = (r.state \in {"ACTIVE", "LOST"})
  BY <1>3, <1>6
<1>9. /\ r.state = "CREATING" => r.token # None
      /\ r.state = "none" => Pending(i) = {}
      /\ r.session # None => r.session \in Created(i)
      /\ r.session # None /\ r.version = "current" => remote[i][r.session].spec = "current"
  BY <1>0, <1>3, <1>6 DEF IncidentOK, Is
<1> QED BY <1>2, <1>3, <1>4, <1>5, <1>7, <1>8, <1>9, RowSafe

\* A row grows old.
LEMMA AgeInv ==
  ASSUME Inv, NEW i \in Incident, Age(i)
  PROVE  Inv'
<1>1. UNCHANGED <<tokens, remote, wire, call, crashes>>
  BY DEF Age
<1>2. row' \in [Incident -> RowState]
  BY Types DEF Age, RowState
<1>3. \A j \in Incident : /\ row'[j].state = row[j].state /\ row'[j].session = row[j].session
                          /\ row'[j].token = row[j].token /\ row'[j].version = row[j].version
  BY Types DEF Age, RowState
<1>4. TypeOK'
  BY <1>1, <1>2, <1>3 DEF Inv, TypeOK, RowState
<1>5. \A j \in Incident : IncidentOK(j)'
  BY <1>1, <1>3 DEF Inv, IncidentOK, Pending, Created, Is
<1>6. \A d \in Call : CallOK(d)'
  <2> SUFFICES ASSUME NEW d \in Call PROVE CallOK(d)'
    OBVIOUS
  <2>1. CallOK(d) /\ (call[d].pc # "idle" => Of(d) \in Incident)
    BY Types DEF Inv
  <2> QED BY <1>1, <1>3, <2>1 DEF CallOK, At, Of
<1> QED BY <1>1, <1>4, <1>5, <1>6 DEF Inv, Alone, At, Of

\* TrueForge makes the session of a request, which is one nobody made.
LEMMA CreatesInv ==
  ASSUME Inv, NEW i \in Incident, NEW t \in Session, Creates(i, t)
  PROVE  Inv'
<1> DEFINE u == Live("current")
<1>1. t \in Token /\ t \in wire[i]
  BY DEF Creates, Inv, TypeOK
<1>2. /\ wire' = [wire EXCEPT ![i] = @ \ {t}] /\ UNCHANGED <<row, tokens, call, crashes>>
      /\ remote' = [remote EXCEPT ![i] = [remote[i] EXCEPT ![t] = u]]
  BY DEF Creates
<1>3. u \in [is : {"none", "live", "gone"}, spec : Version] /\ u.spec = "current" /\ u.is = "live"
  BY DEF Live, Version
<1> HIDE DEF u
<1>4. /\ remote' \in [Incident -> [Session -> [is : {"none", "live", "gone"}, spec : Version]]]
      /\ wire' \in [Incident -> SUBSET Token] /\ wire'[i] = wire[i] \ {t}
      /\ remote'[i][t] = u
      /\ \A x \in Session : x # t => remote'[i][x] = remote[i][x]
      /\ \A j \in Incident : j # i => remote'[j] = remote[j] /\ wire'[j] = wire[j]
  BY <1>2, <1>3 DEF Inv, TypeOK
<1>5. TypeOK'
  BY <1>2, <1>4 DEF Inv, TypeOK
<1>6. IncidentOK(i)'
  <2>1. Created(i)' = Created(i) \union {t}
    BY <1>3, <1>4 DEF Created
  <2>2. Pending(i)' = Pending(i)
    BY <1>1, <1>4, <2>1 DEF Pending
  <2>3. IncidentOK(i) /\ (row[i].session # None => row[i].session \in Session)
        /\ \A x \in Token : x \in Session
    BY DEF Inv, IncidentOK, Created, Token, Session
  <2>4. Created(i)' \intersect wire'[i] = {}
    BY <1>4, <2>1, <2>3 DEF IncidentOK
  <2>5. \A x \in Session : remote[i][x].spec = "current" => remote'[i][x].spec = "current"
    BY <1>3, <1>4
  <2> QED BY <1>2, <2>1, <2>2, <2>3, <2>4, <2>5 DEF IncidentOK, Is
<1>7. \A x \in Session : remote[i][x].spec = "current" => remote'[i][x].spec = "current"
  BY <1>3, <1>4
<1>8. \A j \in Incident : IncidentOK(j)'
  BY <1>2, <1>4, <1>6 DEF Inv, IncidentOK, Pending, Created, Is
<1>9. \A d \in Call : CallOK(d)'
  <2>1. \A d \in Call : At(d, "create") /\ Of(d) = i => row'[i].state \in Reserved
                                                       /\ row'[i].token = row[i].token
    BY <1>2 DEF Inv, CallOK
  <2> QED BY <1>2, <1>4, <1>7, <2>1, OthersSafe DEF Elsewhere
<1> QED BY <1>2, <1>5, <1>8, <1>9 DEF Inv, Alone, At, Of

\* A session that vanishes was made all the same.
LEMMA VanishesInv ==
  ASSUME Inv, NEW i \in Incident, NEW s \in Session, Vanishes(i, s)
  PROVE  Inv'
<1> DEFINE u == [remote[i][s] EXCEPT !.is = "gone"]
<1>1. /\ UNCHANGED <<row, tokens, wire, call, crashes>> /\ remote[i][s].is = "live"
      /\ remote' = [remote EXCEPT ![i] = [remote[i] EXCEPT ![s] = u]]
  BY DEF Vanishes
<1>2. u \in [is : {"none", "live", "gone"}, spec : Version] /\ u.spec = remote[i][s].spec
      /\ u.is = "gone"
  <2>1. remote[i][s] \in [is : {"none", "live", "gone"}, spec : Version]
    BY DEF Inv, TypeOK
  <2> HIDE DEF Version
  <2> QED BY <2>1
<1> HIDE DEF u
<1>3. /\ remote' \in [Incident -> [Session -> [is : {"none", "live", "gone"}, spec : Version]]]
      /\ \A j \in Incident : j # i => remote'[j] = remote[j]
      /\ \A x \in Session : /\ remote'[i][x].spec = remote[i][x].spec
                            /\ remote'[i][x].is # "none" <=> remote[i][x].is # "none"
  BY <1>1, <1>2 DEF Inv, TypeOK
<1>4. TypeOK'
  BY <1>1, <1>3 DEF Inv, TypeOK
<1>5. IncidentOK(i)'
  <2>1. Created(i)' = Created(i) /\ Pending(i)' = Pending(i)
    BY <1>1, <1>3 DEF Created, Pending
  <2>2. IncidentOK(i) /\ (row[i].session # None => row[i].session \in Session)
        /\ \A x \in Token : x \in Session
    BY DEF Inv, IncidentOK, Created, Token, Session
  <2> QED BY <1>1, <1>3, <2>1, <2>2 DEF IncidentOK, Is
<1>6. \A j \in Incident : IncidentOK(j)'
  BY <1>1, <1>3, <1>5 DEF Inv, IncidentOK, Pending, Created, Is
<1>7. \A d \in Call : CallOK(d)'
  <2>1. \A d \in Call : At(d, "create") /\ Of(d) = i => row'[i].state \in Reserved
                                                       /\ row'[i].token = row[i].token
    BY <1>1 DEF Inv, CallOK
  <2> QED BY <1>1, <1>3, <2>1, OthersSafe DEF Elsewhere
<1> QED BY <1>1, <1>4, <1>6, <1>7 DEF Inv, Alone, At, Of

\* A crash ends the calls; what they asked for is still on the wire.
LEMMA CrashInv ==
  ASSUME Inv, Crash
  PROVE  Inv'
<1>1. Away \in CallState /\ Away.pc = "idle"
  BY DEF Away, CallState, PC, Version
<1>2. UNCHANGED <<row, tokens, remote, wire>> /\ crashes' \in 0..MaxCrash
  BY SessionAssumption DEF Crash, Inv, TypeOK
<1>3. call' \in [Call -> CallState] /\ \A d \in Call : call'[d].pc = "idle"
  BY <1>1 DEF Crash
<1>4. TypeOK'
  BY <1>2, <1>3 DEF Inv, TypeOK, CallState
<1>5. \A j \in Incident : IncidentOK(j)'
  BY <1>2 DEF Inv, IncidentOK, Pending, Created, Is
<1> QED BY <1>3, <1>4, <1>5 DEF Inv, CallOK, Alone, At

\* Every step keeps the invariant.
LEMMA StepInv == Inv /\ [Next]_vars => Inv'
<1> SUFFICES ASSUME Inv, [Next]_vars PROVE Inv'
  OBVIOUS
<1>1. ASSUME NEW c \in Call, Proceeds(c) PROVE Inv'
  <2>1. CASE Reserve(c)
    BY <2>1, ReserveInv
  <2>2. CASE ReserveNot(c)
    BY <2>2, ReserveNotInv
  <2>3. CASE CreateAnswered(c)
    BY <2>3, CreateAnsweredInv
  <2>4. CASE CreateRefused(c)
    BY <2>4, CreateRefusedInv
  <2>5. CASE CreateUnanswered(c)
    BY <2>5, CreateUnansweredInv
  <2>6. CASE MarkStale(c)
    BY <2>6, MarkStaleInv
  <2>7. CASE LookupFinds(c) \/ LookupFails(c)
    BY <2>7, LookupInv
  <2>8. CASE LookupFindsNothing(c)
    BY <2>8, LookupFindsNothingInv
  <2>9. CASE Coordinate(c)
    BY <2>9, CoordinateInv
  <2>10. CASE UpdateAnswered(c)
    BY <2>10, UpdateAnsweredInv
  <2>11. CASE UpdateFails(c) \/ Leave(c)
    BY <2>11, ReturnSafe DEF UpdateFails, Leave
  <2> QED BY <1>1, <2>1, <2>2, <2>3, <2>4, <2>5, <2>6, <2>7, <2>8, <2>9, <2>10, <2>11
          DEF Proceeds
<1>2. ASSUME NEW c \in Call, Updates(c) PROVE Inv'
  BY <1>2, UpdatesInv
<1>3. ASSUME NEW c \in Call, NEW i \in Incident, Ensure(c, i) PROVE Inv'
  BY <1>3, EnsureInv
<1>4. ASSUME NEW i \in Incident, Age(i) PROVE Inv'
  BY <1>4, AgeInv
<1>5. ASSUME NEW i \in Incident, NEW s \in Session, Creates(i, s) \/ Vanishes(i, s) PROVE Inv'
  BY <1>5, CreatesInv, VanishesInv
<1>6. CASE Crash
  BY <1>6, CrashInv
<1>7. CASE UNCHANGED vars
  BY <1>7 DEF vars, Inv, TypeOK, IncidentOK, Pending, Created, CallOK, Alone, At, Of, Is
<1> QED BY <1>1, <1>2, <1>3, <1>4, <1>5, <1>6, <1>7 DEF Next

\* The invariant holds throughout.
LEMMA Invariance == Spec => []Inv
  BY InitInv, StepInv, PTL DEF Spec

-----------------------------------------------------------------------------
(* What follows. *)

\* The row of an incident keeps the shapes of its CHECK constraint, and every
\* variable its type.
THEOREM TypeCorrect == Spec => []TypeOK
<1>1. Inv => TypeOK
  BY DEF Inv
<1> QED BY <1>1, Invariance, PTL

\* At most one session is made for an incident, whatever creation is late,
\* lost or repeated, and while one is bound it is that one.
THEOREM OnlySession == Spec => []OneSession
<1>1. Inv => OneSession
  <2> SUFFICES ASSUME Inv, NEW i \in Incident
               PROVE  /\ Cardinality(Created(i)) <= 1
                      /\ row[i].state \in {"ACTIVE", "LOST"} => Created(i) = {row[i].session}
    BY DEF OneSession
  <2>1. \A s, t \in Created(i) : s = t
    BY DEF Inv, IncidentOK, Pending
  <2>3. ASSUME NEW s \in Created(i) PROVE Cardinality(Created(i)) = 1
    <3>1. Created(i) = {s}
      BY <2>1
    <3> QED BY <3>1, FS_Singleton
  <2>4. row[i].state \in {"ACTIVE", "LOST"} => row[i].session \in Created(i)
    BY DEF Inv, TypeOK, IncidentOK
  <2>5. Cardinality(Created(i)) = 0 \/ Cardinality(Created(i)) = 1
    BY <2>3, FS_EmptySet
  <2> QED BY <2>1, <2>4, <2>5
<1> QED BY <1>1, Invariance, PTL

\* The row, and a call that hands a session out, are never ahead of TrueForge
\* about the coordinator spec the session has.
THEOREM Applied == Spec => []VersionIsApplied
<1>1. Inv => VersionIsApplied
  BY DEF Inv, TypeOK, IncidentOK, CallOK, VersionIsApplied, Is, At
<1> QED BY <1>1, Invariance, PTL

\* An answer that names a created session binds it, and what is bound is
\* neither exchanged nor, once lost, bound again.
THEOREM Bindings == Spec => AnsweredIsBound
<1> DEFINE Binds ==
      /\ \A c \in Call : CreateAnswered(c) => row'[Of(c)].session = call[c].session
      /\ \A i \in Incident : row[i].session # None =>
            /\ row'[i].session = row[i].session
            /\ Is(i, "LOST") => row'[i].state = "LOST"
<1>1. Inv /\ [Next]_vars => [Binds]_vars
  <2> SUFFICES ASSUME Inv, Next PROVE Binds
    OBVIOUS
  <2>1. ASSUME NEW c \in Call, CreateAnswered(c) PROVE row'[Of(c)].session = call[c].session
    <3>1. Of(c) \in Incident /\ row[Of(c)].state \in Reserved /\ row[Of(c)].token = call[c].session
      BY <2>1, Types DEF CreateAnswered, At, Inv, CallOK
    <3> QED BY <2>1, <3>1, Types DEF CreateAnswered, Holds, Reserved, Bound
  <2>2. ASSUME NEW i \in Incident, row[i].session # None
        PROVE  /\ row'[i].session = row[i].session
               /\ Is(i, "LOST") => row'[i].state = "LOST"
    <3>1. row[i] \in RowState /\ row \in [Incident -> RowState]
          /\ row[i].state \in {"ACTIVE", "LOST"}
      BY <2>2, Types DEF Inv, TypeOK
    <3>2. ASSUME NEW c \in Call, Proceeds(c)
          PROVE  /\ row'[i].session = row[i].session
                 /\ Is(i, "LOST") => row'[i].state = "LOST"
      <4>1. At(c, "create") => Of(c) # i
        BY <3>1 DEF Inv, CallOK, Reserved
      <4>2. CASE Reserve(c) \/ MarkStale(c)
        BY <3>1, <4>2 DEF Reserve, MarkStale, Is
      <4>3. CASE CreateAnswered(c) \/ CreateRefused(c) \/ CreateUnanswered(c)
        <5>1. Of(c) # i /\ (UNCHANGED row \/ \E r : row' = [row EXCEPT ![Of(c)] = r])
          BY <4>1, <4>3 DEF CreateAnswered, CreateRefused, CreateUnanswered
        <5>2. row'[i] = row[i]
          BY <3>1, <5>1
        <5> QED BY <5>2 DEF Is
      <4>4. CASE LookupFindsNothing(c)
        BY <3>1, <4>4 DEF LookupFindsNothing, RowState, Is, BoundTo
      <4>5. CASE UpdateAnswered(c)
        BY <3>1, <4>5 DEF UpdateAnswered, RowState, Is
      <4>6. CASE UNCHANGED row
        BY <4>6 DEF Is
      <4> QED BY <3>2, <4>2, <4>3, <4>4, <4>5, <4>6
              DEF Proceeds, ReserveNot, LookupFinds, LookupFails, Coordinate, UpdateFails, Leave
    <3>3. CASE UNCHANGED row
      BY <3>3 DEF Is
    <3>4. ASSUME NEW j \in Incident, Age(j)
          PROVE  /\ row'[i].session = row[i].session
                 /\ Is(i, "LOST") => row'[i].state = "LOST"
      BY <3>1, <3>4 DEF Age, RowState, Is
    <3> QED BY <3>2, <3>3, <3>4 DEF Next, Updates, Ensure, Creates, Vanishes, Crash
  <2> QED BY <2>1, <2>2
<1> QED BY <1>1, Invariance, PTL DEF Spec, AnsweredIsBound
=============================================================================
