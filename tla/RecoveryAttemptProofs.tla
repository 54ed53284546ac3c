------------------------ MODULE RecoveryAttemptProofs ------------------------
(***************************************************************************)
(* Proofs about the sandbox recovery of an incident, for any calls and     *)
(* tokens.  The argument: a call that is creating a session owns the       *)
(* reservation that is in the row (Owns), so there is one such call, and   *)
(* no session before it is answered; a call in a session works in the      *)
(* session of the row (Works), which is never replaced; and the calls that *)
(* are past READY are one, since READY is left once (Turns).               *)
(***************************************************************************)
EXTENDS RecoveryAttempt, TLAPS

HasSession == {"READY", "RUNNING"} \union Terminal
AfterRunning == {"RUNNING", "REPAIR_VERIFIED", "FAILED"}

\* A creating call owns the reservation; nothing is made before its answer.
Owns ==
    /\ \A c \in Call : call[c].pc \in Creating =>
         /\ row.state \in Reserved
         /\ row.token = call[c].token
         /\ call[c].token \in Token
    /\ \A c, d \in Call : call[c].pc \in Creating /\ call[d].pc \in Creating => c = d
    /\ \A c \in Call : call[c].pc \in {"create", "createRefused"} => made = {}
    /\ \A c \in Call : call[c].pc = "created" => call[c].token \in made
    /\ row.state = "NONE" => made = {}

\* A call in a session works in the one the row names.
Works ==
    /\ row.session # None => row.session \in made
    /\ \A c \in Call : call[c].pc \in InSession =>
         /\ row.state \in HasSession
         /\ row.session = call[c].token
         /\ call[c].token \in Token

\* What a call knows of the specification stays true.
Knows ==
    \A c \in Call :
        /\ call[c].pc \in InSession /\ call[c].seen = "current" => row.spec = "current"
        /\ call[c].pc \in {"run"} \union Turning => row.spec = "current"
        /\ call[c].pc \in {"updated", "run", "turn"} => spec[call[c].token] = "current"

\* Of the calls one runs the turn, and until it is answered there is none.
Turns ==
    /\ \A c \in Call : call[c].pc \in Turning => row.state = "RUNNING"
    /\ \A c, d \in Call : call[c].pc \in Turning /\ call[d].pc \in Turning => c = d
    /\ row.state \notin AfterRunning => \A t \in Token : turns[t] = 0
    /\ \A c \in Call : call[c].pc = "turn" => \A t \in Token : turns[t] = 0
    /\ \A c \in Call : call[c].pc \in Turning \ {"turn"} => turns[call[c].token] = 1
    /\ \A t \in Token : turns[t] # 0 => t \in made /\ turns[t] = 1
    /\ row.state \in {"REPAIR_VERIFIED", "FAILED"} => turns[row.session] = 1

Inv == TypeOK /\ AtMostOneSession /\ Owns /\ Works /\ Knows /\ Turns

------------------------------------------------------------------------------
(* How a step changes a call                                               *)

\* The call that steps is in its new state, the others are as they were.
LEMMA BecomeStep ==
  ASSUME call \in [Call -> CallState], NEW c \in Call, NEW s \in CallState, Become(c, s)
  PROVE  /\ call' \in [Call -> CallState]
         /\ call'[c] = s
         /\ \A d \in Call : d # c => call'[d] = call[d]
  BY DEF Become

\* A call that goes on keeps its token and what it saw.
LEMMA GoToStep ==
  ASSUME call \in [Call -> CallState], NEW c \in Call, NEW p \in PC, GoTo(c, p)
  PROVE  /\ call' \in [Call -> CallState]
         /\ call'[c].pc = p /\ call'[c].token = call[c].token /\ call'[c].seen = call[c].seen
         /\ \A d \in Call : d # c => call'[d] = call[d]
<1> DEFINE s == [call[c] EXCEPT !.pc = p]
<1>1. s \in CallState /\ s.pc = p /\ s.token = call[c].token /\ s.seen = call[c].seen
  BY DEF CallState
<1>2. Become(c, s)
  BY DEF GoTo
<1> HIDE DEF s
<1> QED BY <1>1, <1>2, BecomeStep

\* A call that returns is idle.
LEMMA ReturnStep ==
  ASSUME call \in [Call -> CallState], NEW c \in Call, Return(c)
  PROVE  /\ call' \in [Call -> CallState]
         /\ call'[c].pc = "idle"
         /\ \A d \in Call : d # c => call'[d] = call[d]
<1>1. Idle \in CallState /\ Idle.pc = "idle"
  BY NoneAssumption DEF Idle, CallState, PC, Version
<1> QED BY <1>1, BecomeStep DEF Return

------------------------------------------------------------------------------
(* A step that only moves a call, within its session or back to idle,      *)
(* keeps the invariant.                                                    *)

\* Returning, by any call in any state.
LEMMA ReturnSafe ==
  ASSUME Inv, NEW c \in Call, Return(c), UNCHANGED <<row, used, remote>>
  PROVE  Inv'
<1>1. /\ call' \in [Call -> CallState]
      /\ call'[c].pc = "idle"
      /\ \A d \in Call : d # c => call'[d] = call[d]
  BY ReturnStep DEF Inv, TypeOK
<1>2. UNCHANGED <<row, used, made, gone, spec, turns>>
  BY DEF remote
<1>3. TypeOK' /\ AtMostOneSession'
  BY <1>1, <1>2 DEF Inv, TypeOK, AtMostOneSession
<1>4. Owns' /\ Works'
  BY <1>1, <1>2 DEF Inv, Owns, Works, Creating, InSession, Turning
<1>5. Knows' /\ Turns'
  BY <1>1, <1>2 DEF Inv, Knows, Turns, InSession, Turning
<1> QED BY <1>3, <1>4, <1>5 DEF Inv

------------------------------------------------------------------------------
(* The steps                                                               *)

\* The initial state, with or without an attempt of an earlier release.
LEMMA InitInv == Init => Inv
<1> SUFFICES ASSUME Init PROVE Inv
  OBVIOUS
<1>1. Idle \in CallState /\ Idle.pc = "idle"
  BY NoneAssumption DEF Idle, CallState, PC, Version
<1>2. \A c \in Call : call[c].pc = "idle"
  BY <1>1 DEF Init
<1>3. call \in [Call -> CallState]
  BY <1>1 DEF Init
<1>4. row \in Row
  BY NoneAssumption DEF Init, Row, NoRow, Version, Terminal
<1>5. TypeOK
  BY <1>3, <1>4 DEF Init, TypeOK, Version
<1>6. AtMostOneSession
  BY DEF Init, AtMostOneSession
<1>7. Owns /\ Works
  BY <1>2, NoneAssumption DEF Init, Owns, Works, NoRow, Creating, InSession, Turning
<1>8. Knows /\ Turns
  BY <1>2 DEF Init, Knows, Turns, NoRow, InSession, Turning, AfterRunning
<1> QED BY <1>5, <1>6, <1>7, <1>8 DEF Inv

\* A call that finds the attempt READY looks its session up.
LEMMA ReadySafe ==
  ASSUME Inv, NEW c \in Call, BeginReady(c)
  PROVE  Inv'
<1> DEFINE s == [pc |-> "lookup", token |-> row.session, seen |-> row.spec]
<1>1. row.session \in Token /\ row.spec \in Version
  BY NoneAssumption DEF Inv, TypeOK, Row, NoRow, BeginReady, Version
<1>2. s \in CallState /\ s.pc = "lookup" /\ s.token = row.session /\ s.seen = row.spec
  BY <1>1 DEF CallState, PC, InSession
<1>3. Become(c, s) /\ UNCHANGED <<row, used, made, gone, spec, turns>>
  BY DEF BeginReady, remote
<1> HIDE DEF s
<1>4. /\ call' \in [Call -> CallState]
      /\ call'[c] = s
      /\ \A d \in Call : d # c => call'[d] = call[d]
  BY <1>2, <1>3, BecomeStep DEF Inv, TypeOK
<1>5. TypeOK' /\ AtMostOneSession'
  BY <1>3, <1>4 DEF Inv, TypeOK, AtMostOneSession
<1>6. Owns' /\ Works'
  BY <1>1, <1>2, <1>3, <1>4
     DEF Inv, Owns, Works, BeginReady, Creating, InSession, Turning, HasSession
<1>7. Knows' /\ Turns'
  BY <1>2, <1>3, <1>4 DEF Inv, Knows, Turns, InSession, Turning
<1> QED BY <1>5, <1>6, <1>7 DEF Inv

\* Fencing a stale reservation leaves it to its owner.
LEMMA StaleSafe ==
  ASSUME Inv, NEW c \in Call, BeginStale(c)
  PROVE  Inv'
<1>1. /\ row.state = "SESSION_CREATING" /\ row.token \in Token /\ row.session = None
      /\ row.spec \in Version
  BY DEF Inv, TypeOK, Row, NoRow, BeginStale, Terminal
<1>2. row' = [state |-> "SESSION_UNCERTAIN", token |-> row.token, session |-> None,
              spec |-> row.spec]
  BY <1>1 DEF Inv, TypeOK, Row, NoRow, BeginStale, Terminal
<1>3. UNCHANGED <<call, used, made, gone, spec, turns>>
  BY DEF BeginStale, remote
<1>4. row' \in Row
  BY <1>1, <1>2 DEF Row
<1>5. TypeOK' /\ AtMostOneSession'
  BY <1>3, <1>4 DEF Inv, TypeOK, AtMostOneSession
<1>6. Owns' /\ Works'
  BY <1>1, <1>2, <1>3 DEF Inv, Owns, Works, Reserved, HasSession, Terminal
<1>7. Knows' /\ Turns'
  BY <1>1, <1>2, <1>3 DEF Inv, Knows, Turns, AfterRunning
<1> QED BY <1>5, <1>6, <1>7 DEF Inv

\* A reservation is made only where there is none, so by nobody's side.
LEMMA ReserveSafe ==
  ASSUME Inv, NEW c \in Call, BeginReserve(c)
  PROVE  Inv'
<1> PICK t \in Token \ used :
      /\ used' = used \union {t}
      /\ row' = [state |-> "SESSION_CREATING", token |-> t, session |-> None,
                 spec |-> "current"]
      /\ Become(c, [Idle EXCEPT !.pc = "create", !.token = t])
  BY DEF BeginReserve
<1> DEFINE s == [Idle EXCEPT !.pc = "create", !.token = t]
<1>1. s \in CallState /\ s.pc = "create" /\ s.token = t
  BY DEF CallState, Idle, PC, Creating, Version
<1>2. Become(c, s)
  OBVIOUS
<1> HIDE DEF s
<1>3. /\ call' \in [Call -> CallState]
      /\ call'[c] = s
      /\ \A d \in Call : d # c => call'[d] = call[d]
  BY <1>1, <1>2, BecomeStep DEF Inv, TypeOK
<1>4. row.state = "NONE" /\ UNCHANGED <<made, gone, spec, turns>>
  BY DEF BeginReserve, remote
<1>5. row' \in Row
  BY DEF Row, Version
<1>6. TypeOK' /\ AtMostOneSession'
  BY <1>3, <1>4, <1>5 DEF Inv, TypeOK, AtMostOneSession
<1>7. \A d \in Call : call[d].pc \notin Creating /\ call[d].pc \notin InSession
  BY <1>4 DEF Inv, Owns, Works, Reserved, HasSession, Terminal
<1>8. Owns'
  BY <1>1, <1>3, <1>4, <1>7 DEF Inv, Owns, Reserved
<1>9. Works'
  BY <1>1, <1>3, <1>4, <1>7, NoneAssumption DEF Inv, Works, InSession, Turning
<1>10. Knows' /\ Turns'
  BY <1>1, <1>3, <1>4, <1>7 DEF Inv, Knows, Turns, InSession, Turning, AfterRunning
<1> QED BY <1>6, <1>8, <1>9, <1>10 DEF Inv

\* The session of the one creating call is the only one.
LEMMA CreateSafe ==
  ASSUME Inv, NEW c \in Call, CreateAnswers(c)
  PROVE  Inv'
<1> DEFINE t == call[c].token
<1>1. /\ call[c].pc = "create" /\ t \in Token /\ made = {}
      /\ row.state \in Reserved /\ row.token = t
      /\ UNCHANGED <<row, used, gone, turns>>
  BY DEF Inv, Owns, CreateAnswers, At, Creating
<1>2. PICK p \in {"created", "createRefused", "createLost"} :
        /\ GoTo(c, p)
        /\ \/ made' = {t} /\ spec' = [spec EXCEPT ![t] = "current"] /\ p # "createRefused"
           \/ UNCHANGED <<made, spec>> /\ p # "created"
  BY <1>1 DEF CreateAnswers
<1>3. /\ call' \in [Call -> CallState]
      /\ call'[c].pc = p /\ call'[c].token = t /\ call'[c].seen = call[c].seen
      /\ \A d \in Call : d # c => call'[d] = call[d]
  BY <1>2, GoToStep DEF Inv, TypeOK, PC, Creating
<1>4. TypeOK' /\ AtMostOneSession'
  BY <1>1, <1>2, <1>3 DEF Inv, TypeOK, AtMostOneSession, Version
<1>5. \A d \in Call : call[d].pc \notin InSession
  BY <1>1 DEF Inv, Works, Reserved, HasSession, Terminal
<1>6. \A d \in Call : d # c => call[d].pc \notin Creating
  BY <1>1 DEF Inv, Owns, Creating
<1>7. Owns'
  BY <1>1, <1>2, <1>3, <1>6 DEF Owns, Creating, Reserved
<1>8. row.session = None
  BY <1>1 DEF Inv, TypeOK, Row, NoRow, Reserved, Terminal
<1>9. Works' /\ Knows'
  BY <1>1, <1>2, <1>3, <1>5, <1>8 DEF Works, Knows, InSession, Turning
<1>10. Turns'
  BY <1>1, <1>2, <1>3, <1>5, <1>8
     DEF Inv, Turns, InSession, Turning, Reserved, AfterRunning
<1> QED BY <1>4, <1>7, <1>9, <1>10 DEF Inv

\* The owner of the reservation turns it into a session.
LEMMA ActivateSafe ==
  ASSUME Inv, NEW c \in Call, Activate(c)
  PROVE  Inv'
<1> DEFINE t == call[c].token
           s == [pc |-> "update", token |-> t, seen |-> row.spec]
<1>1. /\ call[c].pc = "created" /\ t \in Token /\ t \in made
      /\ row.state \in Reserved /\ row.token = t
      /\ UNCHANGED <<used, made, gone, spec, turns>>
  BY DEF Inv, Owns, Activate, At, Creating, remote
<1>2. row.session = None /\ row.spec \in Version
  BY <1>1 DEF Inv, TypeOK, Row, NoRow, Reserved, Terminal
<1>3. row' = [state |-> "READY", token |-> None, session |-> t, spec |-> row.spec]
  BY <1>1, <1>2 DEF Activate, Inv, TypeOK, Row, NoRow, Reserved, Terminal
<1>4. Become(c, s)
  BY <1>1 DEF Activate
<1>5. s \in CallState /\ s.pc = "update" /\ s.token = t /\ s.seen = row.spec
  BY <1>1, <1>2 DEF CallState, PC, InSession
<1> HIDE DEF s
<1>6. /\ call' \in [Call -> CallState]
      /\ call'[c] = s
      /\ \A d \in Call : d # c => call'[d] = call[d]
  BY <1>4, <1>5, BecomeStep DEF Inv, TypeOK
<1>7. row' \in Row
  BY <1>1, <1>2, <1>3 DEF Row
<1>8. TypeOK' /\ AtMostOneSession'
  BY <1>1, <1>6, <1>7 DEF Inv, TypeOK, AtMostOneSession
<1>9. \A d \in Call : call[d].pc \notin InSession
  BY <1>1 DEF Inv, Works, Reserved, HasSession, Terminal
<1>10. \A d \in Call : d # c => call[d].pc \notin Creating
  BY <1>1 DEF Inv, Owns, Creating
<1>11. Owns'
  BY <1>1, <1>3, <1>5, <1>6, <1>10 DEF Inv, Owns, Creating
<1>12. Works'
  BY <1>1, <1>3, <1>5, <1>6, <1>9 DEF Works, HasSession
<1>13. Knows'
  BY <1>1, <1>3, <1>5, <1>6, <1>9 DEF Knows, InSession, Turning
<1>14. Turns'
  BY <1>1, <1>3, <1>5, <1>6, <1>9
     DEF Inv, Turns, InSession, Turning, Reserved, AfterRunning
<1> QED BY <1>8, <1>11, <1>12, <1>13, <1>14 DEF Inv

\* A refused creation leaves no session and no row, a lost one the fence.
LEMMA ReleaseSafe ==
  ASSUME Inv, NEW c \in Call, ReleaseOrFence(c)
  PROVE  Inv'
<1>1. /\ call[c].pc \in {"createRefused", "createLost"}
      /\ call[c].token \in Token /\ row.state \in Reserved /\ row.token = call[c].token
      /\ Return(c) /\ UNCHANGED <<used, made, gone, spec, turns>>
  BY DEF Inv, Owns, ReleaseOrFence, Creating, remote
<1>2. CASE row' = row
  BY <1>1, <1>2, ReturnSafe DEF remote
<1>3. CASE row' # row
  <2>1. row.state = "SESSION_CREATING"
    BY <1>1, <1>3 DEF ReleaseOrFence
  <2>2. row.session = None /\ row.spec \in Version
    BY <2>1 DEF Inv, TypeOK, Row, NoRow, Terminal
  <2>3. \/ row' = NoRow /\ made = {}
        \/ row' = [state |-> "SESSION_UNCERTAIN", token |-> None, session |-> None,
                   spec |-> row.spec]
    BY <1>1, <1>3, <2>1, <2>2
       DEF Inv, Owns, ReleaseOrFence, At, TypeOK, Row, NoRow, Terminal
  <2>4. /\ call' \in [Call -> CallState]
        /\ call'[c].pc = "idle"
        /\ \A d \in Call : d # c => call'[d] = call[d]
    BY <1>1, ReturnStep DEF Inv, TypeOK
  <2>5. row' \in Row
    BY <2>2, <2>3 DEF Row
  <2>6. TypeOK' /\ AtMostOneSession'
    BY <1>1, <2>4, <2>5 DEF Inv, TypeOK, AtMostOneSession
  <2>7. \A d \in Call : call'[d].pc \notin Creating /\ call'[d].pc \notin InSession
    <3>1. \A d \in Call : call[d].pc \notin InSession
      BY <1>1 DEF Inv, Works, Reserved, HasSession, Terminal
    <3>2. \A d \in Call : d # c => call[d].pc \notin Creating
      BY <1>1 DEF Inv, Owns, Creating
    <3> QED BY <2>4, <3>1, <3>2 DEF Creating, InSession, Turning
  <2>8. Owns' /\ Works'
    BY <1>1, <2>3, <2>7 DEF Owns, Works, NoRow, Creating
  <2>9. Knows' /\ Turns'
    BY <1>1, <2>1, <2>3, <2>7
       DEF Inv, Knows, Turns, NoRow, InSession, Turning, AfterRunning
  <2> QED BY <2>6, <2>8, <2>9 DEF Inv
<1> QED BY <1>2, <1>3

\* Looking the session up moves the call only.
LEMMA LookupSafe ==
  ASSUME Inv, NEW c \in Call, LookupAnswers(c)
  PROVE  Inv'
<1>1. call[c].pc = "lookup" /\ UNCHANGED <<row, used, made, gone, spec, turns>>
  BY DEF LookupAnswers, At, remote
<1>2. CASE Return(c)
  BY <1>1, <1>2, ReturnSafe DEF remote
<1>3. ASSUME NEW p \in {"update", "gone"}, GoTo(c, p) PROVE Inv'
  <2>1. /\ call' \in [Call -> CallState]
        /\ call'[c].pc = p /\ call'[c].token = call[c].token /\ call'[c].seen = call[c].seen
        /\ \A d \in Call : d # c => call'[d] = call[d]
    BY <1>3, GoToStep DEF Inv, TypeOK, PC, InSession
  <2>2. TypeOK' /\ AtMostOneSession'
    BY <1>1, <2>1 DEF Inv, TypeOK, AtMostOneSession
  <2>3. Owns' /\ Works'
    BY <1>1, <2>1 DEF Inv, Owns, Works, Creating, InSession, Turning
  <2>4. Knows' /\ Turns'
    BY <1>1, <2>1 DEF Inv, Knows, Turns, InSession, Turning
  <2> QED BY <2>2, <2>3, <2>4 DEF Inv
<1> QED BY <1>2, <1>3 DEF LookupAnswers

\* What the row becomes when only its state changes.
LEMMA RowStep ==
  ASSUME row \in Row, row.state \in HasSession, NEW x \in HasSession
  PROVE  LET new == [row EXCEPT !.state = x]
         IN  /\ new \in Row /\ new.state = x /\ new.token = None
             /\ new.session = row.session /\ new.spec = row.spec
             /\ row.session \in Token
<1>1. row \in [state : HasSession, token : {None}, session : Token, spec : Version]
  BY DEF Row, NoRow, HasSession, Terminal
<1>2. [row EXCEPT !.state = x] = [state |-> x, token |-> None, session |-> row.session,
                                  spec |-> row.spec]
  BY <1>1
<1> QED BY <1>1, <1>2 DEF Row, HasSession

\* A session that is gone is lost for the attempt if it is still READY.
LEMMA LostSafe ==
  ASSUME Inv, NEW c \in Call, MarkSessionLost(c)
  PROVE  Inv'
<1>1. /\ call[c].pc = "gone" /\ row.state \in HasSession /\ row.session = call[c].token
      /\ Return(c) /\ UNCHANGED <<used, made, gone, spec, turns>>
  BY DEF Inv, Works, MarkSessionLost, At, remote, InSession
<1>2. CASE row' = row
  BY <1>1, <1>2, ReturnSafe DEF remote
<1>3. CASE row' # row
  <2>1. row.state = "READY" /\ row' = [row EXCEPT !.state = "SESSION_LOST"]
    BY <1>3 DEF MarkSessionLost, InState
  <2>2. /\ row' \in Row /\ row'.state = "SESSION_LOST"
        /\ row'.session = row.session /\ row'.spec = row.spec
    BY <1>1, <2>1, RowStep DEF Inv, TypeOK, HasSession, Terminal
  <2>3. /\ call' \in [Call -> CallState]
        /\ call'[c].pc = "idle"
        /\ \A d \in Call : d # c => call'[d] = call[d]
    BY <1>1, ReturnStep DEF Inv, TypeOK
  <2>4. TypeOK' /\ AtMostOneSession'
    BY <1>1, <2>2, <2>3 DEF Inv, TypeOK, AtMostOneSession
  <2>5. Owns' /\ Works'
    BY <1>1, <2>1, <2>2, <2>3
       DEF Inv, Owns, Works, Creating, InSession, Turning, Reserved, HasSession, Terminal
  <2>6. Knows' /\ Turns'
    BY <1>1, <2>1, <2>2, <2>3 DEF Inv, Knows, Turns, InSession, Turning, AfterRunning
  <2> QED BY <2>4, <2>5, <2>6 DEF Inv
<1> QED BY <1>2, <1>3

\* Updating the session makes its specification the current one.
LEMMA UpdateSafe ==
  ASSUME Inv, NEW c \in Call, UpdateAnswers(c)
  PROVE  Inv'
<1>1. /\ call[c].pc = "update" /\ call[c].token \in Token
      /\ UNCHANGED <<row, used, made, gone, turns>>
  BY DEF Inv, Works, UpdateAnswers, At, InSession
<1>2. spec' \in [Token -> Version] /\ \A t \in Token : spec[t] = "current" => spec'[t] = "current"
  BY <1>1 DEF UpdateAnswers, Inv, TypeOK, Version
<1>3. CASE Return(c)
  <2>1. /\ call' \in [Call -> CallState]
        /\ call'[c].pc = "idle"
        /\ \A d \in Call : d # c => call'[d] = call[d]
    BY <1>3, ReturnStep DEF Inv, TypeOK
  <2>2. TypeOK' /\ AtMostOneSession'
    BY <1>1, <1>2, <2>1 DEF Inv, TypeOK, AtMostOneSession
  <2>3. Owns' /\ Works'
    BY <1>1, <2>1 DEF Inv, Owns, Works, Creating, InSession, Turning
  <2>4. Knows'
    BY <1>1, <1>2, <2>1 DEF Inv, Knows, Works, InSession, Turning
  <2>5. Turns'
    BY <1>1, <2>1 DEF Inv, Turns, Turning
  <2> QED BY <2>2, <2>3, <2>4, <2>5 DEF Inv
<1>4. CASE GoTo(c, "updated") /\ spec' = [spec EXCEPT ![call[c].token] = "current"]
  <2>1. /\ call' \in [Call -> CallState]
        /\ call'[c].pc = "updated" /\ call'[c].token = call[c].token
        /\ call'[c].seen = call[c].seen
        /\ \A d \in Call : d # c => call'[d] = call[d]
    BY <1>4, GoToStep DEF Inv, TypeOK, PC, InSession
  <2>2. spec'[call[c].token] = "current"
    BY <1>1, <1>4 DEF Inv, TypeOK
  <2>3. TypeOK' /\ AtMostOneSession'
    BY <1>1, <1>2, <2>1 DEF Inv, TypeOK, AtMostOneSession
  <2>4. Owns' /\ Works'
    BY <1>1, <2>1 DEF Inv, Owns, Works, Creating, InSession, Turning
  <2>5. Knows'
    BY <1>1, <1>2, <2>1, <2>2 DEF Inv, Knows, Works, InSession, Turning
  <2>6. Turns'
    BY <1>1, <2>1 DEF Inv, Turns, Turning
  <2> QED BY <2>3, <2>4, <2>5, <2>6 DEF Inv
<1> QED BY <1>3, <1>4 DEF UpdateAnswers

\* A call goes on to the turn only when the row has the current version.
LEMMA RecordSafe ==
  ASSUME Inv, NEW c \in Call, RecordSpec(c)
  PROVE  Inv'
<1>1. /\ call[c].pc = "updated" /\ call[c].token \in Token
      /\ row.state \in HasSession /\ row.session = call[c].token
      /\ spec[call[c].token] = "current"
      /\ UNCHANGED <<used, made, gone, spec, turns>>
  BY DEF Inv, Works, Knows, RecordSpec, At, InSession, remote
<1>2. CASE Return(c) /\ UNCHANGED row
  BY <1>1, <1>2, ReturnSafe DEF remote
<1>3. CASE /\ GoTo(c, "run")
           /\ \/ UNCHANGED row /\ call[c].seen = "current"
              \/ row' = [row EXCEPT !.spec = "current"]
  <2>1. /\ call' \in [Call -> CallState]
        /\ call'[c].pc = "run" /\ call'[c].token = call[c].token
        /\ call'[c].seen = call[c].seen
        /\ \A d \in Call : d # c => call'[d] = call[d]
    BY <1>3, GoToStep DEF Inv, TypeOK, PC, InSession
  <2>2. /\ row' \in Row /\ row'.state = row.state /\ row'.session = row.session
        /\ row'.spec = "current"
    <3>1. row \in [state : HasSession, token : {None}, session : Token, spec : Version]
      BY <1>1 DEF Inv, TypeOK, Row, NoRow, HasSession, Terminal
    <3>2. CASE UNCHANGED row /\ call[c].seen = "current"
      BY <1>1, <3>2 DEF Inv, TypeOK, Knows, InSession
    <3>3. CASE row' = [row EXCEPT !.spec = "current"]
      BY <3>1, <3>3 DEF Row, HasSession, Version
    <3> QED BY <1>3, <3>2, <3>3
  <2>3. TypeOK' /\ AtMostOneSession'
    BY <1>1, <2>1, <2>2 DEF Inv, TypeOK, AtMostOneSession
  <2>4. Owns' /\ Works'
    BY <1>1, <2>1, <2>2
       DEF Inv, Owns, Works, Creating, InSession, Turning, Reserved, HasSession, Terminal
  <2>5. Knows' /\ Turns'
    BY <1>1, <2>1, <2>2 DEF Inv, Knows, Turns, InSession, Turning
  <2> QED BY <2>3, <2>4, <2>5 DEF Inv
<1> QED BY <1>2, <1>3 DEF RecordSpec

\* READY is left once, and by one call.
LEMMA RunningSafe ==
  ASSUME Inv, NEW c \in Call, MarkRunning(c)
  PROVE  Inv'
<1>1. /\ call[c].pc = "run" /\ row.state \in HasSession /\ row.session = call[c].token
      /\ row.spec = "current" /\ spec[call[c].token] = "current" /\ call[c].token \in Token
      /\ UNCHANGED <<used, made, gone, spec, turns>>
  BY DEF Inv, Works, Knows, MarkRunning, At, remote, InSession
<1>2. CASE Return(c) /\ UNCHANGED row
  BY <1>1, <1>2, ReturnSafe DEF remote
<1>3. CASE row.state = "READY" /\ row' = [row EXCEPT !.state = "RUNNING"] /\ GoTo(c, "turn")
  <2>1. /\ row' \in Row /\ row'.state = "RUNNING"
        /\ row'.session = row.session /\ row'.spec = row.spec
    BY <1>1, <1>3, RowStep DEF Inv, TypeOK, HasSession
  <2>2. /\ call' \in [Call -> CallState]
        /\ call'[c].pc = "turn" /\ call'[c].token = call[c].token
        /\ call'[c].seen = call[c].seen
        /\ \A d \in Call : d # c => call'[d] = call[d]
    BY <1>3, GoToStep DEF Inv, TypeOK, PC, InSession, Turning
  <2>3. TypeOK' /\ AtMostOneSession'
    BY <1>1, <2>1, <2>2 DEF Inv, TypeOK, AtMostOneSession
  <2>4. \A d \in Call : call[d].pc \notin Turning /\ call[d].pc \notin Creating
    BY <1>3 DEF Inv, Turns, Owns, Reserved
  <2>5. Owns' /\ Works'
    BY <1>1, <2>1, <2>2, <2>4
       DEF Inv, Owns, Works, Creating, InSession, Turning, HasSession
  <2>6. Knows'
    BY <1>1, <2>1, <2>2 DEF Inv, Knows, InSession, Turning
  <2>7. Turns'
    BY <1>1, <1>3, <2>1, <2>2, <2>4 DEF Inv, Turns, Turning, AfterRunning
  <2> QED BY <2>3, <2>5, <2>6, <2>7 DEF Inv
<1> QED BY <1>2, <1>3 DEF MarkRunning, InState

\* The one call that runs the turn starts the first turn.
LEMMA TurnSafe ==
  ASSUME Inv, NEW c \in Call, TurnAnswers(c)
  PROVE  Inv'
<1> DEFINE t == call[c].token
<1>1. /\ call[c].pc = "turn" /\ t \in Token /\ row.state = "RUNNING" /\ row.session = t
      /\ t \in made /\ \A u \in Token : turns[u] = 0
      /\ UNCHANGED <<row, used, made, gone, spec>>
  BY NoneAssumption DEF Inv, Works, Turns, TurnAnswers, At, InSession, Turning
<1>2. CASE Return(c) /\ UNCHANGED turns
  BY <1>1, <1>2, ReturnSafe DEF remote
<1>3. CASE turns' = [turns EXCEPT ![t] = @ + 1] /\ (GoTo(c, "turnDone") \/ Return(c))
  <2>1. turns' \in [Token -> Nat] /\ turns'[t] = 1 /\ \A u \in Token : u # t => turns'[u] = 0
    BY <1>1, <1>3 DEF Inv, TypeOK
  <2>2. /\ call' \in [Call -> CallState]
        /\ \/ call'[c].pc = "idle"
           \/ call'[c].pc = "turnDone" /\ call'[c].token = t /\ call'[c].seen = call[c].seen
        /\ \A d \in Call : d # c => call'[d] = call[d]
    BY <1>3, GoToStep, ReturnStep DEF Inv, TypeOK, PC, InSession, Turning
  <2>3. TypeOK' /\ AtMostOneSession'
    BY <1>1, <2>1, <2>2 DEF Inv, TypeOK, AtMostOneSession
  <2>4. Owns' /\ Works'
    BY <1>1, <2>2 DEF Inv, Owns, Works, Creating, InSession, Turning
  <2>5. Knows'
    BY <1>1, <2>2 DEF Inv, Knows, InSession, Turning
  <2>6. \A d \in Call : d # c => call[d].pc \notin Turning
    BY <1>1 DEF Inv, Turns, Turning
  <2>7. Turns'
    BY <1>1, <2>1, <2>2, <2>6 DEF Turns, Turning, AfterRunning
  <2> QED BY <2>3, <2>4, <2>5, <2>7 DEF Inv
<1> QED BY <1>2, <1>3 DEF TurnAnswers

\* Reading the events moves the call only.
LEMMA EventsSafe ==
  ASSUME Inv, NEW c \in Call, EventsAnswer(c)
  PROVE  Inv'
<1>1. call[c].pc = "turnDone" /\ UNCHANGED <<row, used, made, gone, spec, turns>>
  BY DEF EventsAnswer, At, remote
<1>2. CASE Return(c)
  BY <1>1, <1>2, ReturnSafe DEF remote
<1>3. ASSUME NEW p \in {"valid", "invalid"}, GoTo(c, p) PROVE Inv'
  <2>1. /\ call' \in [Call -> CallState]
        /\ call'[c].pc = p /\ call'[c].token = call[c].token /\ call'[c].seen = call[c].seen
        /\ \A d \in Call : d # c => call'[d] = call[d]
    BY <1>3, GoToStep DEF Inv, TypeOK, PC, InSession, Turning
  <2>2. TypeOK' /\ AtMostOneSession'
    BY <1>1, <2>1 DEF Inv, TypeOK, AtMostOneSession
  <2>3. Owns' /\ Works'
    BY <1>1, <2>1 DEF Inv, Owns, Works, Creating, InSession, Turning
  <2>4. Knows' /\ Turns'
    BY <1>1, <2>1 DEF Inv, Knows, Turns, InSession, Turning
  <2> QED BY <2>2, <2>3, <2>4 DEF Inv
<1> QED BY <1>2, <1>3 DEF EventsAnswer

\* The turn's end is recorded by the call that ran it.
LEMMA EndSafe ==
  ASSUME Inv, NEW c \in Call, EndTurn(c)
  PROVE  Inv'
<1>1. /\ call[c].pc \in {"valid", "invalid"} /\ call[c].token \in Token
      /\ row.state = "RUNNING" /\ row.session = call[c].token /\ turns[row.session] = 1
      /\ Return(c) /\ UNCHANGED <<used, made, gone, spec, turns>>
  BY DEF Inv, Works, Turns, EndTurn, remote, InSession, Turning
<1>2. PICK x \in {"REPAIR_VERIFIED", "FAILED"} : row' = [row EXCEPT !.state = x]
  BY <1>1 DEF EndTurn, InState
<1>3. /\ row' \in Row /\ row'.state = x
      /\ row'.session = row.session /\ row'.spec = row.spec
  BY <1>1, <1>2, RowStep DEF Inv, TypeOK, HasSession, Terminal
<1>4. /\ call' \in [Call -> CallState]
      /\ call'[c].pc = "idle"
      /\ \A d \in Call : d # c => call'[d] = call[d]
  BY <1>1, ReturnStep DEF Inv, TypeOK
<1>5. TypeOK' /\ AtMostOneSession'
  BY <1>1, <1>3, <1>4 DEF Inv, TypeOK, AtMostOneSession
<1>6. Owns' /\ Works'
  BY <1>1, <1>3, <1>4
     DEF Inv, Owns, Works, Creating, InSession, Turning, Reserved, HasSession, Terminal
<1>7. Knows'
  BY <1>1, <1>3, <1>4 DEF Inv, Knows, InSession, Turning
<1>8. \A d \in Call : d # c => call[d].pc \notin Turning
  BY <1>1 DEF Inv, Turns, Turning
<1>9. Turns'
  BY <1>1, <1>3, <1>4, <1>8 DEF Inv, Turns, Turning, AfterRunning
<1> QED BY <1>5, <1>6, <1>7, <1>9 DEF Inv

\* A session that is deleted stays among those that were made.
LEMMA DeletedSafe ==
  ASSUME Inv, NEW t \in Token, SessionDeleted(t)
  PROVE  Inv'
<1>1. gone' \in SUBSET made /\ UNCHANGED <<row, used, call, made, spec, turns>>
  BY DEF SessionDeleted, Inv, TypeOK
<1>2. TypeOK' /\ AtMostOneSession' /\ Owns'
  BY <1>1 DEF Inv, TypeOK, AtMostOneSession, Owns
<1>3. Works' /\ Knows' /\ Turns'
  BY <1>1 DEF Inv, Works, Knows, Turns
<1> QED BY <1>2, <1>3 DEF Inv

\* Every step keeps the invariant.
LEMMA NextInv == Inv /\ [Next]_vars => Inv'
<1> SUFFICES ASSUME Inv, [Next]_vars PROVE Inv'
  OBVIOUS
<1>1. CASE UNCHANGED vars
  BY <1>1 DEF vars, remote, Inv, TypeOK, AtMostOneSession, Owns, Works, Knows, Turns
<1>2. ASSUME NEW c \in Call, BeginReady(c) \/ BeginStale(c) \/ BeginReserve(c) PROVE Inv'
  BY <1>2, ReadySafe, StaleSafe, ReserveSafe
<1>3. ASSUME NEW c \in Call, CreateAnswers(c) \/ Activate(c) \/ ReleaseOrFence(c) PROVE Inv'
  BY <1>3, CreateSafe, ActivateSafe, ReleaseSafe
<1>4. ASSUME NEW c \in Call,
             LookupAnswers(c) \/ MarkSessionLost(c) \/ UpdateAnswers(c) \/ RecordSpec(c)
      PROVE  Inv'
  BY <1>4, LookupSafe, LostSafe, UpdateSafe, RecordSafe
<1>5. ASSUME NEW c \in Call,
             MarkRunning(c) \/ TurnAnswers(c) \/ EventsAnswer(c) \/ EndTurn(c)
      PROVE  Inv'
  BY <1>5, RunningSafe, TurnSafe, EventsSafe, EndSafe
<1>6. ASSUME NEW c \in Call, Crash(c) PROVE Inv'
  BY <1>6, ReturnSafe DEF Crash
<1>7. ASSUME NEW t \in Token, SessionDeleted(t) PROVE Inv'
  BY <1>7, DeletedSafe
<1> QED BY <1>1, <1>2, <1>3, <1>4, <1>5, <1>6, <1>7 DEF Next

------------------------------------------------------------------------------
(* The theorems                                                            *)

\* The inductive invariant holds in every state of every behaviour.
THEOREM Invariance == Spec => []Inv
<1>1. Init => Inv
  BY InitInv
<1>2. Inv /\ [Next]_vars => Inv'
  BY NextInv
<1> QED BY <1>1, <1>2, PTL DEF Spec

\* Every variable keeps its type, the row the shapes of its CHECK constraint.
THEOREM TypeCorrect == Spec => []TypeOK
<1>1. Inv => TypeOK
  BY DEF Inv
<1> QED BY <1>1, Invariance, PTL

\* TrueForge creates at most one recovery session for an incident, whatever
\* creations are refused, lost, fenced or cut off.
THEOREM OneSession == Spec => []AtMostOneSession
<1>1. Inv => AtMostOneSession
  BY DEF Inv
<1> QED BY <1>1, Invariance, PTL

\* At most one recovery turn is started for an incident.
THEOREM OneTurn == Spec => []AtMostOneTurn
<1>1. Inv => AtMostOneTurn
  BY DEF Inv, TypeOK, AtMostOneSession, Turns, AtMostOneTurn
<1> QED BY <1>1, Invariance, PTL

\* A repair is verified, or failed, only by a turn of the attempt's session.
THEOREM TurnVerifies == Spec => []VerifiedByTurn
<1>1. Inv => VerifiedByTurn
  BY DEF Inv, Works, Turns, VerifiedByTurn
<1> QED BY <1>1, Invariance, PTL

\* A turn is started only under the durable RUNNING and with the current
\* specification.
THEOREM TurnFenced == Spec => TurnIsFenced
<1> DEFINE Fenced == \A t \in Token :
             turns'[t] # turns[t] => /\ row.state = "RUNNING" /\ row.session = t
                                     /\ row.spec = "current" /\ spec[t] = "current"
<1>1. Inv /\ [Next]_vars => Fenced
  <2> SUFFICES ASSUME Inv, [Next]_vars, NEW t \in Token, turns'[t] # turns[t]
               PROVE  /\ row.state = "RUNNING" /\ row.session = t
                      /\ row.spec = "current" /\ spec[t] = "current"
    OBVIOUS
  <2>1. PICK c \in Call : TurnAnswers(c)
    BY DEF Next, vars, remote, BeginReady, BeginStale, BeginReserve, CreateAnswers, Activate,
           ReleaseOrFence, LookupAnswers, MarkSessionLost, UpdateAnswers, RecordSpec,
           MarkRunning, EventsAnswer, EndTurn, Crash, SessionDeleted
  <2>2. call[c].pc = "turn" /\ call[c].token = t
    BY <2>1 DEF TurnAnswers, At, Inv, TypeOK
  <2> QED BY <2>2 DEF Inv, Works, Knows, Turns, InSession, Turning
<1> QED BY <1>1, Invariance, PTL DEF Spec, TurnIsFenced

\* The attempt's end is never revised nor its session replaced.
THEOREM EndSettled == Spec => Settled
<1> DEFINE Kept == /\ row.state \in Terminal => row' = row
                   /\ row.session # None => row'.session = row.session
<1>1. Inv /\ [Next]_vars => Kept
  <2> SUFFICES ASSUME Inv, [Next]_vars, row' # row
               PROVE  /\ row.state \notin Terminal
                      /\ row.session # None => row'.session = row.session
    OBVIOUS
  <2>0. row.state \in Reserved \union {"NONE"} => row.session = None
    BY DEF Inv, TypeOK, Row, NoRow, Reserved, Terminal
  <2>1. ASSUME NEW c \in Call, BeginStale(c) \/ BeginReserve(c) \/ Activate(c)
        PROVE  row.state \in Reserved \union {"NONE"}
    BY <2>1 DEF BeginStale, BeginReserve, Activate, Reserved
  <2>2. ASSUME NEW c \in Call, ReleaseOrFence(c)
        PROVE  row.state \in Reserved
    BY <2>2 DEF ReleaseOrFence, Reserved
  <2>3. ASSUME NEW c \in Call,
               MarkSessionLost(c) \/ RecordSpec(c) \/ MarkRunning(c) \/ EndTurn(c)
        PROVE  row.state \in {"READY", "RUNNING"} /\ row'.session = row.session
    <3>1. row.state \in {"READY", "RUNNING"}
      BY <2>3 DEF MarkSessionLost, RecordSpec, MarkRunning, EndTurn, InState
    <3>2. row \in [state : HasSession, token : {None}, session : Token, spec : Version]
      BY <3>1 DEF Inv, TypeOK, Row, NoRow, HasSession, Terminal
    <3>3. \/ \E x \in HasSession : row' = [row EXCEPT !.state = x]
          \/ row' = [row EXCEPT !.spec = "current"]
      BY <2>3 DEF MarkSessionLost, RecordSpec, MarkRunning, EndTurn, InState,
                  HasSession, Terminal
    <3> QED BY <3>1, <3>2, <3>3
  <2>4. \E c \in Call : \/ BeginStale(c) \/ BeginReserve(c) \/ Activate(c)
                        \/ ReleaseOrFence(c)
                        \/ MarkSessionLost(c) \/ RecordSpec(c) \/ MarkRunning(c) \/ EndTurn(c)
    BY DEF Next, vars, BeginReady, CreateAnswers, LookupAnswers, UpdateAnswers, TurnAnswers,
           EventsAnswer, Crash, SessionDeleted
  <2> QED BY <2>0, <2>1, <2>2, <2>3, <2>4 DEF Reserved, Terminal
<1> QED BY <1>1, Invariance, PTL DEF Spec, Settled
===============================================================================
