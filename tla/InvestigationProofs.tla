------------------------- MODULE InvestigationProofs -------------------------
(***************************************************************************)
(* Proofs about the investigation of an incident, for any calls, tokens    *)
(* and bounds.  The argument: a token is drawn before it is used (Drawn)   *)
(* and for one stage (OneStage), so whoever holds the row's token may put  *)
(* a turn with that token into the row; a call deals only with a turn of   *)
(* its own stage and token, and works for the receiver only when the       *)
(* evidence is stored (CallsOK, LateOK); and a row that a retry starts     *)
(* from has a provider token (ProviderFirst).                              *)
(***************************************************************************)
EXTENDS Investigation, TLAPS

USE InvestigationAssumption

-----------------------------------------------------------------------------
(* The inductive invariant                                                  *)

\* Turn k was asked for by stage s under token t.
Asked(k, s, t) == k \in DOMAIN turns /\ turns[k].stage = s /\ turns[k].token = t

\* Where a token is: in the row, at a call, on a turn or on a late request.
Use(s, t) ==
    \/ row.token[s] = t
    \/ \E c \in Call : call[c].stage = s /\ call[c].token = t
    \/ \E k \in DOMAIN turns : turns[k].stage = s /\ turns[k].token = t
    \/ \E q \in late : q.stage = s /\ q.token = t

\* A token was drawn before it was used, and for one stage.
Drawn == \A s \in Stage, t \in Token : Use(s, t) => t \in drawn
OneStage == \A t \in Token : ~(Use("PROVIDER", t) /\ Use("RECEIVER", t))

\* The provider's token is the first.
ProviderFirst(r) ==
    r.phase = "RETRYABLE_FAILURE" \/ r.token["RECEIVER"] # None => r.token["PROVIDER"] # None

\* What a row says is so: the turn it waits for is its own, and what its stage
\* or its completion rests on is stored.  A retry finds a provider token.
RowFits(r) ==
    /\ Checked(r)
    /\ ProviderFirst(r)
    /\ r.phase = "RUNNING" => Asked(r.turn[r.stage], r.stage, r.token[r.stage])
    /\ r.stage = "RECEIVER" => evidence # <<>>
    /\ r.phase = "COMPLETED" => Both

\* A call has a token, deals with a turn of its own stage and token, and has the
\* evidence behind it when it is in the receiver stage, saw it or stored it.
InTurn == {"replay", "posted", "running", "events"}
CallFits(x) ==
    /\ x.pc # "idle" => x.token \in Token
    /\ x.pc \in InTurn => Asked(x.turn, x.stage, x.token)
    /\ x.stage = "RECEIVER" \/ x.seen \/ x.pc = "captured" => evidence # <<>>
    /\ x.pc = "observed" => Both

CallsOK == \A c \in Call : CallFits(call[c])
LateOK == \A q \in late : q.stage = "RECEIVER" => evidence # <<>>

Inv == /\ TypeOK
       /\ RunningIsAttributed
       /\ StagesInOrder /\ ProviderFirst(row)
       /\ CallsOK /\ LateOK
       /\ Drawn /\ OneStage

-----------------------------------------------------------------------------
(* Rows and calls                                                          *)

LEMMA StageFacts ==
  /\ Stage = {"PROVIDER", "RECEIVER"} /\ None \notin Stage /\ None \notin Token
  /\ 0 \notin TurnId /\ "PROVIDER" # "RECEIVER"
BY DEF Stage, TurnId

\* The row that is in the hands of stage s.
LEMMA EnterRow ==
  ASSUME NEW r \in Row, NEW s \in Stage, NEW p \in Busy
  PROVE  /\ Enter(r, s, p) \in Row
         /\ Enter(r, s, p).stage = s /\ Enter(r, s, p).phase = p
         /\ Enter(r, s, p).token = r.token /\ Enter(r, s, p).turn = r.turn
BY DEF Row, Enter, Busy

\* The row that nobody works on.
LEMMA LeaveRow ==
  ASSUME NEW r \in Row, NEW p \in Ended
  PROVE  /\ Leave(r, p) \in Row /\ Checked(Leave(r, p))
         /\ Leave(r, p).stage = None /\ Leave(r, p).phase = p
         /\ Leave(r, p).token = r.token /\ Leave(r, p).turn = r.turn
<1>1. /\ Leave(r, p) \in Row
      /\ Leave(r, p).stage = None /\ Leave(r, p).phase = p
      /\ Leave(r, p).token = r.token /\ Leave(r, p).turn = r.turn
  BY DEF Row, Leave, Ended
<1>2. Leave(r, p).phase \notin Busy
  BY <1>1 DEF Ended, Busy
<1> HIDE DEF Leave
<1> QED BY <1>1, <1>2, StageFacts DEF Checked

\* A stage goes on to another phase.
LEMMA PhaseRow ==
  ASSUME NEW r \in Row, Checked(r), r.phase \in Busy, NEW p \in Busy
  PROVE  LET q == [r EXCEPT !.phase = p] IN
         /\ q \in Row /\ Checked(q) /\ q.stage = r.stage /\ q.phase = p
         /\ q.token = r.token /\ q.turn = r.turn
BY DEF Row, Checked, Busy

\* What a turn put into a row changes, and a token.
LEMMA TurnRow ==
  ASSUME NEW r \in Row, NEW s \in Stage, NEW k \in {0} \union TurnId
  PROVE  LET q == [r EXCEPT !.turn[s] = k] IN
         /\ q \in Row /\ q.turn[s] = k
         /\ q.stage = r.stage /\ q.phase = r.phase /\ q.token = r.token
BY DEF Row

LEMMA TokenRow ==
  ASSUME NEW r \in Row, NEW s \in Stage, NEW t \in Token
  PROVE  LET q == [r EXCEPT !.token[s] = t] IN
         /\ q \in Row /\ q.token[s] = t
         /\ \A z \in Stage : z # s => q.token[z] = r.token[z]
         /\ q.stage = r.stage /\ q.phase = r.phase /\ q.turn = r.turn
BY DEF Row

\* markTurnCreated.
LEMMA AttributedRow ==
  ASSUME NEW r \in Row, Checked(r), NEW k \in TurnId, r.stage \in Stage
  PROVE  LET q == Attributed(r, r.stage, k) IN
         /\ q \in Row /\ Checked(q) /\ q.stage = r.stage /\ q.phase = "RUNNING"
         /\ q.token = r.token /\ q.turn[r.stage] = k
<1> DEFINE e == Enter(r, r.stage, "RUNNING")
           q == [e EXCEPT !.turn[r.stage] = k]
<1>1. e \in Row /\ e.stage = r.stage /\ e.phase = "RUNNING" /\ e.token = r.token
  BY EnterRow DEF Busy
<1>2. /\ q \in Row /\ q.turn[r.stage] = k
      /\ q.stage = e.stage /\ q.phase = e.phase /\ q.token = e.token
  <2> HIDE DEF e
  <2> QED BY <1>1, TurnRow
<1>3. q = Attributed(r, r.stage, k)
  BY DEF Attributed
<1>4. Checked(q)
  <2> HIDE DEF q, e
  <2> QED BY <1>1, <1>2 DEF Checked, Busy
<1> HIDE DEF q, e
<1> QED BY <1>1, <1>2, <1>3, <1>4

\* markRetryableFailure.
LEMMA FailedRow ==
  ASSUME NEW r \in Row, Checked(r), NEW c \in Call
  PROVE  LET q == Failed(r, c) IN
         /\ q \in Row /\ Checked(q) /\ q.token = r.token
         /\ q = r \/ (q.phase = "RETRYABLE_FAILURE" /\ q.stage = None /\ r.phase # "COMPLETED")
BY LeaveRow DEF Failed, Ended

\* The completion of a row, whatever it says.
LEMMA CompletedRow ==
  ASSUME NEW r \in Row, Checked(r)
  PROVE  LET q == Completed(r) IN
         /\ q \in Row /\ Checked(q) /\ q.token = r.token /\ q.turn = r.turn
         /\ q.phase = "COMPLETED" /\ q.stage = None
<1>1. r.phase = "COMPLETED" => r.stage = None
  BY StageFacts DEF Checked, Busy, Row
<1> QED BY <1>1, LeaveRow DEF Completed, Ended

\* The call that steps is in its new state, the others are as they were.
LEMMA BecomeStep ==
  ASSUME call \in [Call -> CallState], NEW c \in Call, NEW x \in CallState, Become(c, x)
  PROVE  /\ call' \in [Call -> CallState]
         /\ call'[c] = x
         /\ \A d \in Call : d # c => call'[d] = call[d]
BY Zenon DEF Become

LEMMA IdleCall ==
  Idle \in CallState /\ Idle.pc = "idle" /\ Idle.stage = "PROVIDER" /\ Idle.token = None /\ ~Idle.seen
<1>1. None \in Token \union {None} /\ 0 \in {0} \union TurnId /\ "PROVIDER" \in Stage
      /\ "idle" \in PC /\ FALSE \in BOOLEAN
  BY DEF Stage, PC
<1>2. Idle \in CallState
  BY <1>1, Zenon DEF Idle, CallState
<1> QED BY <1>2 DEF Idle

\* A call that goes on, with the turn it has or another one.
LEMMA GoOn ==
  ASSUME NEW x \in CallState, NEW p \in PC, NEW y, y = [x EXCEPT !.pc = p]
  PROVE  /\ y \in CallState
         /\ y.pc = p /\ y.stage = x.stage /\ y.token = x.token /\ y.turn = x.turn
         /\ y.seen = x.seen
BY Zenon DEF CallState

-----------------------------------------------------------------------------
(* When a step keeps the invariant                                          *)

\* A step of call c, which leaves the row r and the call in state x, draws the
\* tokens n and may leave its creation request behind: it is enough to look at
\* what it changed.
LEMMA StepSafe ==
  ASSUME Inv, NEW c \in Call, NEW r \in Row, NEW x \in CallState, NEW n \in SUBSET (Token \ drawn),
         row' = r, Become(c, x), drawn' = drawn \union n, turns' = turns, crashes' = crashes,
         Checked(r), ProviderFirst(r),
         r.phase = "RUNNING" => Asked(r.turn[r.stage], r.stage, r.token[r.stage]),
         r.stage = "RECEIVER" => evidence' # <<>>,
         r.phase = "COMPLETED" => evidence' # <<>> /\ observed' # <<>>,
         \A s \in Stage, t \in Token : r.token[s] = t => Use(s, t) \/ t \in n,
         \A t \in n : ~(r.token["PROVIDER"] = t /\ r.token["RECEIVER"] = t),
         x.pc # "idle" => x.token \in Token,
         x.token \in Token => Use(x.stage, x.token) \/ (x.token \in n /\ r.token[x.stage] = x.token),
         x.pc \in InTurn => Asked(x.turn, x.stage, x.token),
         x.stage = "RECEIVER" \/ x.seen \/ x.pc = "captured" => evidence' # <<>>,
         x.pc = "observed" => evidence' # <<>> /\ observed' # <<>>,
         evidence' \in Seq(1..Len(turns)), evidence # <<>> => evidence' # <<>>,
         observed' \in Seq(1..Len(turns)), observed # <<>> => observed' # <<>>,
         late' \subseteq Request,
         \A q \in late' : q \in late \/ (q.stage = call[c].stage /\ q.token = call[c].token)
  PROVE  Inv'
<1>1. /\ call' \in [Call -> CallState]
      /\ call'[c] = x
      /\ \A d \in Call : d # c => call'[d] = call[d]
  BY BecomeStep, Zenon DEF Inv, TypeOK
<1>2. TypeOK'
  BY <1>1 DEF Inv, TypeOK, Checked
<1>11. ProviderFirst(row)'
  BY DEF ProviderFirst
<1>3. RunningIsAttributed'
  BY DEF RunningIsAttributed, Asked
<1>4. StagesInOrder'
  BY DEF Inv, StagesInOrder, Both
<1>5. CallsOK'
  <2> SUFFICES ASSUME NEW d \in Call PROVE CallFits(call[d])'
    BY DEF CallsOK
  <2>1. CASE d = c
    BY <2>1, <1>1 DEF CallFits, Asked, Both
  <2>2. CASE d # c
    BY <2>2, <1>1 DEF Inv, CallsOK, CallFits, Asked, Both
  <2> QED BY <2>1, <2>2
<1>6. LateOK'
  BY DEF Inv, LateOK, CallsOK, CallFits
<1>7. ASSUME NEW s \in Stage, NEW t \in Token, Use(s, t)'
      PROVE  Use(s, t) \/ (t \in n /\ r.token[s] = t)
  <2>1. CASE row'.token[s] = t
    BY <2>1
  <2>2. CASE \E d \in Call : call'[d].stage = s /\ call'[d].token = t
    BY <2>2, <1>1 DEF Use
  <2>3. CASE \E k \in DOMAIN turns : turns[k].stage = s /\ turns[k].token = t
    BY <2>3 DEF Use
  <2>4. CASE \E q \in late' : q.stage = s /\ q.token = t
    BY <2>4 DEF Use
  <2> QED BY <1>7, <2>1, <2>2, <2>3, <2>4 DEF Use
<1>8. Drawn'
  BY <1>7 DEF Inv, Drawn
<1>9. OneStage'
  <2> SUFFICES ASSUME NEW t \in Token, Use("PROVIDER", t)', Use("RECEIVER", t)' PROVE FALSE
    BY DEF OneStage
  <2>1. CASE t \in n
    BY <2>1, <1>7, StageFacts DEF Inv, Drawn
  <2>2. CASE t \notin n
    BY <2>2, <1>7, StageFacts DEF Inv, OneStage
  <2> QED BY <2>1, <2>2
<1> QED BY <1>2, <1>3, <1>4, <1>5, <1>6, <1>8, <1>9, <1>11 DEF Inv

\* A step that moves a call and its row under the tokens they have.
LEMMA RowStep ==
  ASSUME Inv, NEW c \in Call, NEW r \in Row, NEW x \in CallState,
         row' = r, Become(c, x), UNCHANGED <<drawn, evidence, observed, turns, crashes>>,
         RowFits(r), r.token = row.token,
         CallFits(x), x.token \in Token => Use(x.stage, x.token),
         late' \subseteq Request,
         \A q \in late' : q \in late \/ (q.stage = call[c].stage /\ q.token = call[c].token)
  PROVE  Inv'
<1>1. {} \in SUBSET (Token \ drawn) /\ drawn' = drawn \union {}
  OBVIOUS
<1>2. /\ evidence' \in Seq(1..Len(turns)) /\ observed' \in Seq(1..Len(turns))
      /\ \A s \in Stage, t \in Token : r.token[s] = t => Use(s, t)
  BY DEF Inv, TypeOK, Use
<1> QED BY <1>1, <1>2, StepSafe DEF RowFits, CallFits, Both

\* The invariant, for the row and the call at hand.
LEMMA Fits ==
  ASSUME Inv, NEW c \in Call
  PROVE  /\ row \in Row /\ RowFits(row)
         /\ call[c] \in CallState /\ CallFits(call[c])
         /\ call[c].token \in Token => Use(call[c].stage, call[c].token)
         /\ Idle \in CallState /\ CallFits(Idle) /\ Idle.token \notin Token
         /\ late \subseteq Request
<1>1. RowFits(row)
  BY DEF Inv, TypeOK, RowFits, RunningIsAttributed, StagesInOrder, Asked
<1>2. CallFits(Idle)
  BY IdleCall, StageFacts DEF CallFits, InTurn
<1>3. Idle.token \notin Token
  BY IdleCall, StageFacts
<1> QED BY <1>1, <1>2, <1>3, IdleCall DEF Inv, TypeOK, CallsOK, Use

\* Marking the row as failed.
LEMMA FailedFits ==
  ASSUME Inv, NEW c \in Call, call[c].pc # "idle"
  PROVE  /\ Failed(row, c) \in Row /\ RowFits(Failed(row, c)) /\ Failed(row, c).token = row.token
<1>1. row \in Row /\ RowFits(row) /\ Checked(row) /\ call[c] \in CallState /\ CallFits(call[c])
  BY Fits DEF RowFits
<1>2. call[c].token # None /\ call[c].stage \in Stage
  BY <1>1, StageFacts DEF CallFits, CallState
<1>3. ProviderFirst(Failed(row, c))
  <2>1. CASE Failed(row, c) = row
    BY <1>1, <2>1 DEF RowFits
  <2>2. CASE Failed(row, c) # row
    <3>1. row.token[call[c].stage] # None
      BY <1>2, <2>2 DEF Failed
    <3>2. row.token["PROVIDER"] # None
      BY <1>1, <1>2, <3>1, StageFacts DEF RowFits, ProviderFirst
    <3> QED BY <1>1, <3>2, FailedRow DEF ProviderFirst
  <2> QED BY <2>1, <2>2
<1>4. RowFits(Failed(row, c))
  BY <1>1, <1>3, FailedRow, StageFacts DEF RowFits
<1> QED BY <1>1, <1>4, FailedRow

\* Completing it.
LEMMA CompletedFits ==
  ASSUME Inv, Both
  PROVE  /\ Completed(row) \in Row /\ RowFits(Completed(row))
         /\ Completed(row).token = row.token /\ Completed(row).turn = row.turn
         /\ Completed(row).phase = "COMPLETED" /\ Completed(row).stage = None
<1>1. row \in Row /\ Checked(row) /\ ProviderFirst(row)
  BY DEF Inv, TypeOK
<1>2. RowFits(Completed(row))
  BY <1>1, CompletedRow, StageFacts DEF RowFits, ProviderFirst
<1> QED BY <1>1, <1>2, CompletedRow

\* The call returns, the row as it is, failed, or left otherwise.
LEMMA ReturnStep ==
  ASSUME Inv, NEW c \in Call, NEW r \in Row, RowFits(r), r.token = row.token, row' = r, Return(c),
         UNCHANGED <<drawn, evidence, observed, turns, crashes, late>>
  PROVE  Inv'
BY Fits, RowStep DEF Return

LEMMA CatchStep ==
  ASSUME Inv, NEW c \in Call, Catch(c), call[c].pc # "idle", UNCHANGED <<turns, crashes>>,
         late' \subseteq Request,
         \A q \in late' : q \in late \/ (q.stage = call[c].stage /\ q.token = call[c].token)
  PROVE  Inv'
<1>1. CASE row.stage = call[c].stage /\ row.phase = "RUNNING"
  <2> DEFINE x == [call[c] EXCEPT !.pc = "asking", !.turn = row.turn[row.stage]]
  <2>1. row.turn[row.stage] \in {0} \union TurnId
    BY Fits, <1>1 DEF Row, CallState
  <2>2. /\ x \in CallState
        /\ x.pc = "asking" /\ x.stage = call[c].stage /\ x.token = call[c].token
        /\ x.seen = call[c].seen
    <3>1. "asking" \in PC /\ call[c] \in CallState
      BY Fits DEF PC
    <3> QED BY <2>1, <3>1, Zenon DEF CallState
  <2>3. Become(c, x) /\ row' = row /\ UNCHANGED <<drawn, evidence, observed>>
    BY <1>1 DEF Catch
  <2> HIDE DEF x
  <2>4. CallFits(x)
    BY <2>2, Fits DEF CallFits, InTurn
  <2> QED BY <2>2, <2>3, <2>4, Fits, RowStep
<1>2. CASE ~(row.stage = call[c].stage /\ row.phase = "RUNNING")
  <2>1. row' = Failed(row, c) /\ Become(c, Idle) /\ UNCHANGED <<drawn, evidence, observed>>
    BY <1>2 DEF Catch, Return
  <2> QED BY <2>1, Fits, FailedFits, RowStep
<1> QED BY <1>1, <1>2

\* The call goes on to p, the row as it is or changed under its tokens.
LEMMA GoToStep ==
  ASSUME Inv, NEW c \in Call, NEW p \in PC, GoTo(c, p), call[c].pc # "idle",
         NEW r \in Row, RowFits(r), r.token = row.token, row' = r,
         p \in InTurn => Asked(call[c].turn, call[c].stage, call[c].token),
         p \notin {"captured", "observed"},
         UNCHANGED <<drawn, evidence, observed, turns, crashes, late>>
  PROVE  Inv'
<1> DEFINE x == [call[c] EXCEPT !.pc = p]
<1>1. call[c] \in CallState /\ CallFits(call[c])
  BY Fits
<1>2. /\ x \in CallState /\ x.pc = p /\ x.stage = call[c].stage /\ x.token = call[c].token
      /\ x.turn = call[c].turn /\ x.seen = call[c].seen
  BY <1>1, Zenon DEF CallState
<1>3. Become(c, x)
  BY DEF GoTo
<1> HIDE DEF x
<1>4. CallFits(x)
  BY <1>1, <1>2 DEF CallFits
<1> QED BY <1>2, <1>3, <1>4, Fits, RowStep

-----------------------------------------------------------------------------
(* The start of a call                                                      *)

\* A step that only changes the row.
LEMMA RowOnly ==
  ASSUME Inv, NEW c \in Call, NEW r \in Row, RowFits(r), r.token = row.token, row' = r,
         UNCHANGED <<drawn, evidence, observed, call, turns, crashes, late>>
  PROVE  Inv'
<1>1. Become(c, call[c])
  BY DEF Inv, TypeOK, Become
<1> QED BY <1>1, Fits, RowStep

LEMMA Stored ==
  ASSUME Inv
  PROVE  /\ \A k \in DOMAIN evidence : evidence[k] \in TurnId
         /\ \A k \in DOMAIN observed : observed[k] \in TurnId
         /\ observed # <<>> => Last(observed) \in TurnId
<1>1. /\ Len(turns) \in Nat /\ Len(turns) <= MaxTurns
      /\ evidence \in Seq(1..Len(turns)) /\ observed \in Seq(1..Len(turns))
  BY DEF Inv, TypeOK
<1>2. 1..Len(turns) \subseteq TurnId
  BY <1>1 DEF TurnId
<1>3. ASSUME NEW S, S \subseteq TurnId, NEW z \in Seq(S)
      PROVE  /\ \A k \in DOMAIN z : z[k] \in TurnId
             /\ z # <<>> => Last(z) \in TurnId
  BY <1>3 DEF Last
<1> QED BY <1>1, <1>2, <1>3

LEMMA ReadsSafe ==
  ASSUME Inv, NEW c \in Call, Reads(c)
  PROVE  Inv'
<1>1. Both
  BY DEF Reads, Readable, Both, Has
<1> DEFINE r == Completed(row)
           shown == IF r.turn["RECEIVER"] = 0 THEN Last(observed) ELSE r.turn["RECEIVER"]
<1>2. r \in Row /\ RowFits(r) /\ r.token = row.token /\ r.turn = row.turn
      /\ r.phase = "COMPLETED" /\ r.stage = None
  BY <1>1, CompletedFits
<1>3. PICK k \in DOMAIN evidence :
        row' = IF r.turn["PROVIDER"] \in {0, evidence[k]}
                 THEN [r EXCEPT !.turn = PerStage(evidence[k], shown)] ELSE r
  BY DEF Reads
<1>4. UNCHANGED <<drawn, evidence, observed, call, turns, crashes, late>>
  BY DEF Reads, remote
<1> DEFINE q == [r EXCEPT !.turn = PerStage(evidence[k], shown)]
<1>5. evidence[k] \in TurnId /\ shown \in {0} \union TurnId
  <2>1. r.turn["RECEIVER"] \in {0} \union TurnId
    BY <1>2, StageFacts DEF Row
  <2> HIDE DEF r
  <2> QED BY <1>1, <2>1, Stored DEF Both
<1>6. PerStage(evidence[k], shown) \in [Stage -> {0} \union TurnId]
  <2> HIDE DEF r, shown
  <2> QED BY <1>5 DEF PerStage
<1>7. q \in Row /\ q.token = r.token /\ q.phase = r.phase /\ q.stage = r.stage
  <2> HIDE DEF r, shown
  <2> QED BY <1>2, <1>6 DEF Row
<1>8. RowFits(q)
  <2> HIDE DEF r, q
  <2> QED BY <1>1, <1>2, <1>7, StageFacts DEF RowFits, Checked, ProviderFirst
<1>9. row' = q \/ row' = r
  BY <1>3
<1> HIDE DEF q, r
<1>10. CASE row' = q
  BY <1>2, <1>4, <1>7, <1>8, <1>10, RowOnly
<1>11. CASE row' = r
  BY <1>2, <1>4, <1>11, RowOnly
<1> QED BY <1>9, <1>10, <1>11

LEMMA CompletesUnreadSafe ==
  ASSUME Inv, NEW c \in Call, CompletesUnread(c)
  PROVE  Inv'
BY CompletedFits, RowOnly DEF CompletesUnread, remote

\* A reservation puts tokens into the row that nothing carried before.
LEMMA ReserveSafe ==
  ASSUME Inv, NEW c \in Call, Reserve(c)
  PROVE  Inv'
<1> DEFINE m == Missing
<1>1. PICK p \in Token \ drawn, t \in Token \ drawn :
        /\ (p # t) <=> (row.phase = "NONE" /\ m = "RECEIVER")
        /\ row' = Reserved(p, t)
        /\ drawn' = drawn \union {p, t}
        /\ Become(c, [Idle EXCEPT !.pc = "session", !.stage = m, !.token = t,
                                  !.seen = evidence # <<>>])
  BY DEF Reserve
<1>2. UNCHANGED <<evidence, observed, turns, late, crashes>> /\ row.phase \in {"NONE", "RETRYABLE_FAILURE"}
  BY DEF Reserve, remote
<1>3. /\ m \in Stage /\ (m = "RECEIVER" <=> evidence # <<>>)
      /\ row \in Row /\ row.token \in [Stage -> Token \union {None}]
      /\ ProviderFirst(row)
  BY StageFacts DEF Missing, Inv, TypeOK, Row
<1> DEFINE tk == IF m = "PROVIDER" THEN PerStage(p, None)
                 ELSE IF row.phase = "NONE" THEN PerStage(p, t)
                 ELSE [row.token EXCEPT !["RECEIVER"] = t]
           x == [Idle EXCEPT !.pc = "session", !.stage = m, !.token = t, !.seen = evidence # <<>>]
           q == [Enter(row, m, "CREATING") EXCEPT !.token = tk, !.turn[m] = 0]
<1>4. row' = q /\ Become(c, x)
  BY <1>1 DEF Reserved
<1>5. /\ x \in CallState
      /\ x.pc = "session" /\ x.stage = m /\ x.token = t /\ x.seen = (evidence # <<>>)
  <2>1. "session" \in PC /\ (evidence # <<>>) \in BOOLEAN /\ t \in Token \union {None}
    BY <1>1 DEF PC
  <2> HIDE DEF m
  <2> QED BY <1>3, <2>1, IdleCall, Zenon DEF CallState
<1> HIDE DEF m, x
<1>6. /\ tk \in [Stage -> Token \union {None}]
      /\ tk[m] = t
      /\ tk["PROVIDER"] # None /\ (m = "PROVIDER" => tk["RECEIVER"] = None)
      /\ \A s \in Stage, u \in Token : tk[s] = u => Use(s, u) \/ u \in {p, t}
      /\ \A u \in {p, t} : ~(tk["PROVIDER"] = u /\ tk["RECEIVER"] = u)
  <2>1. CASE m = "PROVIDER"
    BY <1>1, <2>1, StageFacts DEF PerStage
  <2>2. CASE m # "PROVIDER" /\ row.phase = "NONE"
    BY <1>1, <1>3, <2>2, StageFacts DEF PerStage
  <2>3. CASE m # "PROVIDER" /\ row.phase # "NONE"
    <3>1. tk = [row.token EXCEPT !["RECEIVER"] = t] /\ m = "RECEIVER"
      BY <1>3, <2>3, StageFacts
    <3>2. row.token["PROVIDER"] # None /\ row.token["PROVIDER"] # t /\ p = t
      BY <1>1, <1>2, <1>3, <2>3, StageFacts DEF ProviderFirst, Inv, Drawn, Use
    <3> HIDE DEF tk
    <3> QED BY <1>1, <1>3, <3>1, <3>2, StageFacts DEF Use
  <2> QED BY <2>1, <2>2, <2>3
<1> HIDE DEF tk
<1>7. q \in Row /\ q.stage = m /\ q.phase = "CREATING" /\ q.token = tk
  <2> DEFINE e == Enter(row, m, "CREATING")
             f == [e EXCEPT !.token = tk]
  <2>1. e \in Row /\ e.stage = m /\ e.phase = "CREATING"
    BY <1>3, EnterRow DEF Busy
  <2>2. f \in Row /\ f.stage = m /\ f.phase = "CREATING" /\ f.token = tk
    <3> HIDE DEF e
    <3> QED BY <2>1, <1>6 DEF Row
  <2> DEFINE g == [f EXCEPT !.turn[m] = 0]
  <2>3. q = g
    OBVIOUS
  <2>4. g \in Row /\ g.stage = f.stage /\ g.phase = f.phase /\ g.token = f.token
    <3>1. m \in Stage /\ 0 \in {0} \union TurnId
      BY <1>3
    <3> HIDE DEF f
    <3> QED BY <2>2, <3>1, TurnRow
  <2> HIDE DEF f, g, q
  <2> QED BY <2>2, <2>3, <2>4
<1> HIDE DEF q
<1>8. Checked(q) /\ ProviderFirst(q)
  BY <1>3, <1>6, <1>7, <1>1, StageFacts DEF Checked, ProviderFirst, Busy
<1>9. {p, t} \in SUBSET (Token \ drawn)
  BY <1>1
<1>10. evidence \in Seq(1..Len(turns)) /\ observed \in Seq(1..Len(turns)) /\ late \subseteq Request
  BY DEF Inv, TypeOK
<1>11. "session" \notin InTurn /\ t \in Token
  BY <1>1 DEF InTurn
<1> QED BY <1>1, <1>2, <1>3, <1>4, <1>5, <1>6, <1>7, <1>8, <1>9, <1>10, <1>11, StepSafe

\* A call that finds an investigation under way takes its stage and token.
LEMMA JoinSafe ==
  ASSUME Inv, NEW c \in Call, Join(c)
  PROVE  Inv'
<1> DEFINE r == IF row.phase = "CREATING" THEN [row EXCEPT !.phase = "UNCERTAIN"] ELSE row
           pc == IF row.phase = "RUNNING" THEN "peek" ELSE "lookup"
           k == IF row.phase = "RUNNING" THEN row.turn[row.stage] ELSE 0
           x == [Idle EXCEPT !.pc = pc, !.stage = row.stage, !.token = row.token[row.stage],
                             !.turn = k, !.seen = evidence # <<>>]
<1>1. row' = r /\ Become(c, x) /\ UNCHANGED <<drawn, evidence, observed, turns, late, crashes>>
  BY DEF Join, remote
<1>2. row \in Row /\ RowFits(row) /\ Checked(row) /\ row.phase \in Busy
  BY Fits DEF RowFits, Join
<1>3. row.stage \in Stage /\ row.token[row.stage] \in Token
  BY <1>2, StageFacts DEF Checked, Row
<1>4. r \in Row /\ RowFits(r) /\ r.token = row.token
  <2>1. CASE row.phase = "CREATING"
    BY <1>2, <2>1, PhaseRow DEF RowFits, ProviderFirst, Busy
  <2>2. CASE row.phase # "CREATING"
    BY <1>2, <2>2
  <2> QED BY <2>1, <2>2
<1>5. /\ x \in CallState
      /\ x.pc \in {"peek", "lookup"} /\ x.stage = row.stage /\ x.token = row.token[row.stage]
      /\ x.seen = (evidence # <<>>)
  <2>1. pc \in PC /\ pc \in {"peek", "lookup"}
    BY DEF PC
  <2>2. k \in {0} \union TurnId /\ row.token[row.stage] \in Token \union {None}
    BY <1>2, <1>3 DEF Row
  <2>3. (evidence # <<>>) \in BOOLEAN
    OBVIOUS
  <2> HIDE DEF pc, k
  <2> QED BY <1>3, <2>1, <2>2, <2>3, IdleCall, Zenon DEF CallState
<1> HIDE DEF x, r
<1>6. CallFits(x)
  BY <1>2, <1>3, <1>5 DEF CallFits, RowFits, InTurn
<1>7. Use(x.stage, x.token)
  BY <1>5 DEF Use
<1> QED BY <1>1, <1>4, <1>5, <1>6, <1>7, Fits, RowStep

-----------------------------------------------------------------------------
(* The end of a stage                                                       *)

\* The call goes over to the receiver's stage under token t.
LEMMA ReceiverCall ==
  ASSUME Inv, NEW c \in Call, NEW t \in Token, InReceiver(c, t)
  PROVE  \E x \in CallState :
           /\ Become(c, x)
           /\ x.pc = "session" /\ x.stage = "RECEIVER" /\ x.token = t /\ x.seen = call[c].seen
<1> DEFINE x == [call[c] EXCEPT !.pc = "session", !.stage = "RECEIVER", !.token = t,
                                !.turn = 0, !.corrected = FALSE]
<1>1. /\ "session" \in PC /\ "RECEIVER" \in Stage /\ t \in Token \union {None}
      /\ 0 \in {0} \union TurnId /\ FALSE \in BOOLEAN /\ call[c] \in CallState
  BY Fits, StageFacts DEF PC
<1>2. /\ x \in CallState
      /\ x.pc = "session" /\ x.stage = "RECEIVER" /\ x.token = t /\ x.seen = call[c].seen
  BY <1>1, Zenon DEF CallState
<1>3. Become(c, x)
  BY DEF InReceiver
<1> HIDE DEF x
<1> QED BY <1>2, <1>3

LEMMA HandOverSafe ==
  ASSUME Inv, NEW c \in Call, call[c].pc # "idle", evidence # <<>>, HandOver(c),
         UNCHANGED <<turns, late, crashes>>
  PROVE  Inv'
<1> DEFINE mine == row.stage = "PROVIDER" /\ row.token["PROVIDER"] = call[c].token
           there == row.stage = "RECEIVER" /\ row.phase = "CREATING"
<1>1. /\ row \in Row /\ RowFits(row) /\ Checked(row) /\ ProviderFirst(row)
      /\ row.token \in [Stage -> Token \union {None}]
      /\ call[c] \in CallState /\ CallFits(call[c])
      /\ late \subseteq Request
      /\ evidence \in Seq(1..Len(turns)) /\ observed \in Seq(1..Len(turns))
  BY Fits DEF RowFits, Row, Inv, TypeOK
<1>2. CASE mine /\ UNCHANGED <<evidence, observed>> /\ \E t \in Token \ drawn :
             /\ row' = [Enter(row, "RECEIVER", "CREATING") EXCEPT !.token["RECEIVER"] = t]
             /\ drawn' = drawn \union {t}
             /\ InReceiver(c, t)
  <2>1. PICK t \in Token \ drawn :
             /\ row' = [Enter(row, "RECEIVER", "CREATING") EXCEPT !.token["RECEIVER"] = t]
             /\ drawn' = drawn \union {t}
             /\ InReceiver(c, t)
    BY <1>2
  <2>2. PICK x \in CallState :
           /\ Become(c, x)
           /\ x.pc = "session" /\ x.stage = "RECEIVER" /\ x.token = t /\ x.seen = call[c].seen
    BY <2>1, ReceiverCall
  <2> DEFINE e == Enter(row, "RECEIVER", "CREATING")
             q == [e EXCEPT !.token["RECEIVER"] = t]
  <2>3. e \in Row /\ e.stage = "RECEIVER" /\ e.phase = "CREATING" /\ e.token = row.token
    BY <1>1, EnterRow, StageFacts DEF Busy
  <2>4. /\ q \in Row /\ q.token["RECEIVER"] = t /\ q.token["PROVIDER"] = e.token["PROVIDER"]
        /\ q.stage = e.stage /\ q.phase = e.phase
    <3>1. "RECEIVER" \in Stage /\ "PROVIDER" \in Stage /\ "PROVIDER" # "RECEIVER"
      BY StageFacts
    <3> HIDE DEF e
    <3> QED BY <2>3, <3>1, TokenRow
  <2>5. row' = q
    BY <2>1
  <2> HIDE DEF e, q
  <2>6. row.token["PROVIDER"] # None /\ row.token["PROVIDER"] # t
    BY <1>1, <1>2, StageFacts DEF Checked, Inv, Drawn, Use
  <2>7. Checked(q) /\ ProviderFirst(q) /\ q.phase \notin {"RUNNING", "COMPLETED"}
    BY <2>3, <2>4, <2>6, StageFacts DEF Checked, ProviderFirst, Busy
  <2>8. \A s \in Stage, u \in Token : q.token[s] = u => Use(s, u) \/ u \in {t}
    BY <2>3, <2>4, StageFacts DEF Use
  <2>9. {t} \in SUBSET (Token \ drawn) /\ "session" \notin InTurn
    BY DEF InTurn
  <2>10. x.pc \notin InTurn /\ x.pc \notin {"captured", "observed"} /\ evidence' = evidence /\ observed' = observed
    BY <1>2, <2>2, <2>9
  <2>11. \A u \in {t} : ~(q.token["PROVIDER"] = u /\ q.token["RECEIVER"] = u)
    BY <2>3, <2>4, <2>6
  <2> QED BY <1>1, <2>1, <2>2, <2>3, <2>4, <2>5, <2>7, <2>8, <2>9, <2>10, <2>11, StepSafe
<1>3. CASE there /\ InReceiver(c, row.token["RECEIVER"]) /\ UNCHANGED stored
  <2>1. row.token["RECEIVER"] \in Token
    BY <1>1, <1>3, StageFacts DEF Checked
  <2>2. PICK x \in CallState :
           /\ Become(c, x)
           /\ x.pc = "session" /\ x.stage = "RECEIVER" /\ x.token = row.token["RECEIVER"]
           /\ x.seen = call[c].seen
    BY <1>3, <2>1, ReceiverCall
  <2>3. CallFits(x) /\ Use(x.stage, x.token)
    BY <2>1, <2>2, StageFacts DEF CallFits, InTurn, Use
  <2>4. UNCHANGED <<row, drawn, evidence, observed>>
    BY <1>3 DEF stored
  <2> QED BY <1>1, <2>2, <2>3, <2>4, RowStep
<1>4. CASE Catch(c)
  BY <1>1, <1>4, CatchStep
<1> QED BY <1>2, <1>3, <1>4 DEF HandOver

LEMMA CapturedSafe ==
  ASSUME Inv, NEW c \in Call, Captured(c)
  PROVE  Inv'
<1>1. call[c].pc = "captured" /\ HandOver(c) /\ UNCHANGED <<turns, late, crashes>>
  BY DEF Captured, At, remote
<1>2. evidence # <<>>
  BY <1>1, Fits DEF CallFits
<1> QED BY <1>1, <1>2, HandOverSafe

LEMMA ObservedSafe ==
  ASSUME Inv, NEW c \in Call, Observed(c)
  PROVE  Inv'
<1>1. /\ row \in Row /\ RowFits(row) /\ Both /\ late \subseteq Request
      /\ call[c].pc = "observed" /\ UNCHANGED <<turns, late, crashes>>
  BY Fits DEF CallFits, Observed, At, remote
<1>2. CASE /\ row.stage = "RECEIVER" /\ row.token["RECEIVER"] = call[c].token
           /\ row' = Leave(row, "COMPLETED") /\ Return(c) /\ UNCHANGED <<drawn, evidence, observed>>
  <2> DEFINE q == Leave(row, "COMPLETED")
  <2>1. /\ q \in Row /\ Checked(q) /\ q.stage = None /\ q.phase = "COMPLETED" /\ q.token = row.token
    BY <1>1, LeaveRow DEF Ended
  <2> HIDE DEF q
  <2>2. RowFits(q)
    BY <1>1, <2>1, StageFacts DEF RowFits, ProviderFirst
  <2>3. row' = q
    BY <1>2 DEF q
  <2> QED BY <1>1, <1>2, <2>1, <2>2, <2>3, ReturnStep
<1>3. CASE Return(c) /\ UNCHANGED stored
  BY <1>1, <1>3, ReturnStep DEF stored
<1>4. CASE Catch(c)
  BY <1>1, <1>4, CatchStep
<1> QED BY <1>2, <1>3, <1>4 DEF Observed

LEMMA AskAnswersSafe ==
  ASSUME Inv, NEW c \in Call, AskAnswers(c)
  PROVE  Inv'
<1>1. /\ call[c].pc # "idle" /\ row' \in {row, Failed(row, c)} /\ Return(c)
      /\ UNCHANGED <<drawn, evidence, observed, turns, late, crashes>>
  BY DEF AskAnswers, At, remote
<1> QED BY <1>1, Fits, FailedFits, ReturnStep

-----------------------------------------------------------------------------
(* Reconciliation                                                           *)

\* The turns, and their bound.
LEMMA Turns ==
  ASSUME Inv
  PROVE  /\ Len(turns) \in Nat /\ DOMAIN turns = 1..Len(turns) /\ DOMAIN turns \subseteq TurnId
         /\ turns \in Seq(Turn) /\ \A k \in DOMAIN turns : turns[k] \in Turn
<1>1. turns \in Seq(Turn) /\ Len(turns) <= MaxTurns
  BY DEF Inv, TypeOK
<1>2. \A k \in DOMAIN turns : turns[k] \in Turn
  BY <1>1
<1> QED BY <1>1, <1>2 DEF TurnId

\* A row takes a turn of its own stage and token.
LEMMA AttributedFits ==
  ASSUME Inv, NEW c \in Call, NEW k \in TurnId, Attributable(row, c, k),
         Asked(k, call[c].stage, call[c].token)
  PROVE  LET q == Attributed(row, call[c].stage, k) IN
         q \in Row /\ RowFits(q) /\ q.token = row.token
<1>1. row \in Row /\ RowFits(row) /\ Checked(row) /\ ProviderFirst(row) /\ call[c] \in CallState
  BY Fits DEF RowFits
<1>2. /\ row.stage = call[c].stage /\ row.stage \in Stage
      /\ row.token[row.stage] = call[c].token
  BY <1>1 DEF Attributable, Holds, CallState
<1> DEFINE q == Attributed(row, row.stage, k)
<1>3. /\ q \in Row /\ Checked(q) /\ q.stage = row.stage /\ q.phase = "RUNNING"
      /\ q.token = row.token /\ q.turn[row.stage] = k
  BY <1>1, <1>2, AttributedRow
<1> HIDE DEF q
<1>4. RowFits(q)
  BY <1>1, <1>2, <1>3 DEF RowFits, ProviderFirst
<1> QED BY <1>2, <1>3, <1>4 DEF q

LEMMA LookupFindsSafe ==
  ASSUME Inv, NEW c \in Call, LookupFinds(c)
  PROVE  Inv'
<1>1. /\ call[c].pc = "lookup" /\ UNCHANGED <<drawn, evidence, observed, turns, late, crashes>>
      /\ late \subseteq Request /\ row \in Row /\ RowFits(row)
      /\ call[c] \in CallState /\ CallFits(call[c]) /\ call[c].token \in Token
      /\ Use(call[c].stage, call[c].token)
  BY Fits DEF LookupFinds, At, remote, CallFits
<1>2. PICK k \in Marked(c) :
         IF Attributable(row, c, k)
           THEN /\ row' = Attributed(row, call[c].stage, k)
                /\ Become(c, [call[c] EXCEPT !.pc = "peek", !.turn = k])
           ELSE UNCHANGED row /\ Return(c)
  BY DEF LookupFinds
<1>3. k \in DOMAIN turns /\ k \in TurnId /\ turns[k].token = call[c].token /\ turns[k].stage \in Stage
  <2>1. k \in DOMAIN turns /\ turns[k].token = call[c].token
    BY <1>2 DEF Marked
  <2>2. turns[k] \in Turn
    BY <2>1, Turns
  <2> QED BY <2>1, <2>2, Turns DEF Turn
\* The token was drawn for one stage, so the turn is of the call's.
<1>4. Asked(k, call[c].stage, call[c].token)
  <2>1. Use(turns[k].stage, call[c].token)
    BY <1>3 DEF Use
  <2>2. call[c].stage \in Stage
    BY <1>1 DEF CallState
  <2> QED BY <1>1, <1>3, <2>1, <2>2, StageFacts DEF Inv, OneStage, Asked
<1>5. CASE Attributable(row, c, k)
  <2> DEFINE x == [call[c] EXCEPT !.pc = "peek", !.turn = k]
  <2>1. /\ x \in CallState /\ x.pc = "peek" /\ x.stage = call[c].stage /\ x.token = call[c].token
        /\ x.seen = call[c].seen
    <3>1. "peek" \in PC /\ k \in {0} \union TurnId
      BY <1>3 DEF PC
    <3> QED BY <1>1, <3>1, Zenon DEF CallState
  <2>2. Become(c, x)
    BY <1>2, <1>5
  <2> HIDE DEF x
  <2>3. CallFits(x)
    BY <1>1, <2>1 DEF CallFits, InTurn
  <2> DEFINE q == Attributed(row, call[c].stage, k)
  <2>4. q \in Row /\ RowFits(q) /\ q.token = row.token /\ row' = q
    BY <1>2, <1>3, <1>4, <1>5, AttributedFits
  <2> HIDE DEF q
  <2> QED BY <1>1, <2>1, <2>2, <2>3, <2>4, RowStep
<1>6. CASE ~Attributable(row, c, k)
  BY <1>1, <1>2, <1>6, ReturnStep
<1> QED BY <1>5, <1>6

LEMMA LookupEndsSafe ==
  ASSUME Inv, NEW c \in Call, LookupEnds(c)
  PROVE  Inv'
<1>1. /\ row \in Row /\ RowFits(row) /\ Checked(row) /\ call[c] \in CallState /\ Return(c)
      /\ UNCHANGED <<drawn, evidence, observed, turns, late, crashes>>
  BY Fits DEF LookupEnds, remote, RowFits
<1>2. CASE UNCHANGED row
  BY <1>1, <1>2, ReturnStep
<1>3. CASE row.stage = call[c].stage /\ row' = Leave(row, "RETRYABLE_FAILURE")
  <2> DEFINE q == Leave(row, "RETRYABLE_FAILURE")
  <2>1. /\ q \in Row /\ Checked(q) /\ q.stage = None /\ q.phase = "RETRYABLE_FAILURE"
        /\ q.token = row.token /\ row' = q
    BY <1>1, <1>3, LeaveRow DEF Ended
  <2> HIDE DEF q
  <2>2. row.token["PROVIDER"] # None
    BY <1>1, <1>3, StageFacts DEF Checked, CallState
  <2>3. RowFits(q)
    BY <1>1, <2>1, <2>2, StageFacts DEF RowFits, ProviderFirst
  <2> QED BY <1>1, <2>1, <2>3, ReturnStep
<1> QED BY <1>2, <1>3 DEF LookupEnds

LEMMA PeekEndsSafe ==
  ASSUME Inv, NEW c \in Call, PeekEnds(c)
  PROVE  Inv'
<1>1. /\ call[c].pc # "idle" /\ row' \in {row, Failed(row, c)} /\ Return(c)
      /\ UNCHANGED <<drawn, evidence, observed, turns, late, crashes>>
  BY DEF PeekEnds, At, remote
<1> QED BY <1>1, Fits, FailedFits, ReturnStep

LEMMA PeekFindsSafe ==
  ASSUME Inv, NEW c \in Call, PeekFinds(c)
  PROVE  Inv'
<1>1. call[c].pc = "peek" /\ UNCHANGED <<turns, late, crashes>>
  BY DEF PeekFinds, At, remote
<1>2. CASE call[c].seen /\ HandOver(c)
  BY <1>1, <1>2, Fits, HandOverSafe DEF CallFits
<1>3. CASE GoTo(c, "session") /\ UNCHANGED stored
  <2>1. "session" \in PC /\ "session" \notin InTurn /\ UNCHANGED <<row, drawn, evidence, observed>>
    BY <1>3 DEF PC, InTurn, stored
  <2> QED BY <1>1, <1>3, <2>1, Fits, GoToStep
<1> QED BY <1>2, <1>3 DEF PeekFinds

-----------------------------------------------------------------------------
(* The turn of a stage                                                      *)

\* A turn is claimed for a further request under its own token.
LEMMA ClaimedFits ==
  ASSUME Inv, NEW c \in Call, Claimable(row, c)
  PROVE  /\ LET q == [row EXCEPT !.phase = "CREATING"] IN
             q \in Row /\ RowFits(q) /\ q.token = row.token
         /\ Asked(call[c].turn, call[c].stage, call[c].token)
<1>1. row \in Row /\ RowFits(row) /\ Checked(row) /\ ProviderFirst(row)
  BY Fits DEF RowFits
<1>2. row.phase = "RUNNING" /\ Asked(call[c].turn, call[c].stage, call[c].token)
  BY <1>1 DEF Claimable, Holds, RowFits
<1> DEFINE q == [row EXCEPT !.phase = "CREATING"]
<1>3. q \in Row /\ Checked(q) /\ q.stage = row.stage /\ q.phase = "CREATING" /\ q.token = row.token
  BY <1>1, <1>2, PhaseRow DEF Busy
<1> HIDE DEF q
<1>4. RowFits(q)
  BY <1>1, <1>3 DEF RowFits, ProviderFirst
<1> QED BY <1>2, <1>3, <1>4 DEF q

LEMMA SessionAnswersSafe ==
  ASSUME Inv, NEW c \in Call, SessionAnswers(c)
  PROVE  Inv'
<1>1. /\ call[c].pc # "idle" /\ UNCHANGED <<drawn, evidence, observed, turns, late, crashes>>
      /\ row \in Row /\ RowFits(row)
  BY Fits DEF SessionAnswers, At, remote
<1>2. {"replay", "post"} \subseteq PC /\ "post" \notin InTurn
  BY DEF PC, InTurn
<1>3. CASE Claimable(row, c) /\ row' = [row EXCEPT !.phase = "CREATING"] /\ GoTo(c, "replay")
  <2> DEFINE q == [row EXCEPT !.phase = "CREATING"]
  <2>1. q \in Row /\ RowFits(q) /\ q.token = row.token /\ row' = q
        /\ Asked(call[c].turn, call[c].stage, call[c].token)
    BY <1>3, ClaimedFits
  <2> HIDE DEF q
  <2> QED BY <1>1, <1>2, <1>3, <2>1, GoToStep
<1>4. CASE UNCHANGED row /\ GoTo(c, "post")
  BY <1>1, <1>2, <1>4, GoToStep
<1>5. CASE UNCHANGED row /\ Return(c)
  BY <1>1, <1>5, ReturnStep
<1> QED BY <1>3, <1>4, <1>5 DEF SessionAnswers

\* markTurnCreated for the turn a call has in hand.
LEMMA NamesTurnSafe ==
  ASSUME Inv, NEW c \in Call, NEW p \in {"events", "running"}, call[c].pc \in InTurn, NamesTurn(c, p),
         UNCHANGED <<turns, late, crashes>>
  PROVE  Inv'
<1>1. /\ Asked(call[c].turn, call[c].stage, call[c].token) /\ call[c].pc # "idle"
      /\ late \subseteq Request
  BY Fits DEF CallFits, InTurn
<1>2. call[c].turn \in TurnId
  BY <1>1, Turns DEF Asked
<1>3. CASE Attributable(row, c, call[c].turn)
  <2> DEFINE q == Attributed(row, call[c].stage, call[c].turn)
  <2>1. q \in Row /\ RowFits(q) /\ q.token = row.token
    BY <1>1, <1>2, <1>3, AttributedFits
  <2>2. row' = q /\ GoTo(c, p) /\ UNCHANGED <<drawn, evidence, observed>>
    BY <1>3 DEF NamesTurn
  <2>3. p \in PC /\ p \notin {"captured", "observed"}
    BY DEF PC
  <2> HIDE DEF q
  <2> QED BY <1>1, <2>1, <2>2, <2>3, GoToStep
<1>4. CASE ~Attributable(row, c, call[c].turn)
  BY <1>1, <1>4, CatchStep DEF NamesTurn
<1> QED BY <1>3, <1>4

LEMMA ReplayAnswersSafe ==
  ASSUME Inv, NEW c \in Call, ReplayAnswers(c) \/ StreamStarts(c)
  PROVE  Inv'
BY NamesTurnSafe DEF ReplayAnswers, StreamStarts, At, InTurn, remote

LEMMA PostRefusedSafe ==
  ASSUME Inv, NEW c \in Call, PostRefused(c)
  PROVE  Inv'
<1>1. /\ call[c].pc # "idle" /\ row' = Failed(row, c) /\ Return(c)
      /\ UNCHANGED <<drawn, evidence, observed, turns, late, crashes>>
  BY DEF PostRefused, At, remote
<1> QED BY <1>1, FailedFits, ReturnStep

\* The request that is left behind carries the call's stage and token.
LEMMA PostLostSafe ==
  ASSUME Inv, NEW c \in Call, PostLost(c)
  PROVE  Inv'
<1> DEFINE q == [stage |-> call[c].stage, token |-> call[c].token]
<1>1. /\ call[c].pc = "post" /\ late' = late \union {q} /\ UNCHANGED <<turns, crashes>>
      /\ row \in Row /\ RowFits(row) /\ Checked(row) /\ late \subseteq Request
      /\ call[c] \in CallState /\ call[c].token \in Token
  BY Fits DEF PostLost, At, RowFits, CallFits
<1>2. q \in Request /\ q.stage = call[c].stage /\ q.token = call[c].token
  BY <1>1 DEF Request, CallState
<1> HIDE DEF q
<1>3. /\ late' \subseteq Request
      /\ \A z \in late' : z \in late \/ (z.stage = call[c].stage /\ z.token = call[c].token)
  BY <1>1, <1>2
<1>4. CASE Holds(row, c, "CREATING")
  <2> DEFINE r == [row EXCEPT !.phase = "UNCERTAIN"]
  <2>1. r \in Row /\ Checked(r) /\ r.stage = row.stage /\ r.phase = "UNCERTAIN" /\ r.token = row.token
    BY <1>1, <1>4, PhaseRow DEF Holds, Busy
  <2>2. row' = r /\ Become(c, Idle) /\ UNCHANGED <<drawn, evidence, observed>>
    BY <1>4 DEF PostLost, Return
  <2> HIDE DEF r
  <2>3. RowFits(r)
    BY <1>1, <2>1 DEF RowFits, ProviderFirst
  <2> QED BY <1>1, <1>3, <2>1, <2>2, <2>3, Fits, RowStep
<1>5. CASE ~Holds(row, c, "CREATING")
  BY <1>1, <1>3, <1>5, CatchStep DEF PostLost
<1> QED BY <1>4, <1>5

LEMMA StreamEndsSafe ==
  ASSUME Inv, NEW c \in Call, StreamEnds(c)
  PROVE  Inv'
<1>1. /\ call[c].pc = "running" /\ GoTo(c, "events")
      /\ UNCHANGED <<row, drawn, evidence, observed, turns, late, crashes>>
  BY DEF StreamEnds, At, stored, remote
<1>2. "events" \in PC /\ Asked(call[c].turn, call[c].stage, call[c].token)
  BY <1>1, Fits DEF PC, CallFits, InTurn
<1> QED BY <1>1, <1>2, Fits, GoToStep

LEMMA BreaksSafe ==
  ASSUME Inv, NEW c \in Call, Breaks(c)
  PROVE  Inv'
<1>1. call[c].pc # "idle" /\ Catch(c) /\ UNCHANGED <<turns, late, crashes>> /\ late \subseteq Request
  BY Fits DEF Breaks, remote
<1> QED BY <1>1, CatchStep

LEMMA AsksAgainSafe ==
  ASSUME Inv, NEW c \in Call, AsksAgain(c)
  PROVE  Inv'
<1>1. /\ call[c].pc = "events" /\ UNCHANGED <<drawn, evidence, observed, turns, late, crashes>>
      /\ row \in Row /\ RowFits(row) /\ late \subseteq Request
      /\ call[c] \in CallState /\ CallFits(call[c])
  BY Fits DEF AsksAgain, At, remote
<1>2. CASE Claimable(row, c)
  <2> DEFINE x == [call[c] EXCEPT !.pc = "post", !.corrected = TRUE]
  <2>1. /\ x \in CallState /\ x.pc = "post" /\ x.stage = call[c].stage /\ x.token = call[c].token
        /\ x.seen = call[c].seen
    <3>1. "post" \in PC /\ TRUE \in BOOLEAN
      BY DEF PC
    <3> QED BY <1>1, <3>1, Zenon DEF CallState
  <2>2. Become(c, x) /\ row' = [row EXCEPT !.phase = "CREATING"]
    BY <1>2 DEF AsksAgain
  <2> HIDE DEF x
  <2>3. CallFits(x)
    BY <1>1, <2>1 DEF CallFits, InTurn
  <2> DEFINE q == [row EXCEPT !.phase = "CREATING"]
  <2>4. q \in Row /\ RowFits(q) /\ q.token = row.token /\ row' = q
    BY <1>2, <2>2, ClaimedFits
  <2> HIDE DEF q
  <2> QED BY <1>1, <2>1, <2>2, <2>3, <2>4, Fits, RowStep
<1>3. CASE ~Claimable(row, c)
  BY <1>1, <1>3, ReturnStep DEF AsksAgain
<1> QED BY <1>2, <1>3

\* What a call stores is a turn that is there, and no stored turn goes.
LEMMA StoredTurn ==
  ASSUME Inv, NEW S, NEW z \in Seq(S), NEW k \in S, NEW y,
         y = IF Has(z, k) THEN z ELSE Append(z, k)
  PROVE  y \in Seq(S) /\ y # <<>>
<1>1. CASE Has(z, k)
  BY <1>1 DEF Has
<1>2. CASE ~Has(z, k)
  BY <1>2
<1> QED BY <1>1, <1>2

\* Result p of the turn in hand is stored.
LEMMA StoresSafe ==
  ASSUME Inv, NEW c \in Call, NEW p \in {"captured", "observed"}, GoTo(c, p), call[c].pc = "events",
         evidence' \in Seq(1..Len(turns)), evidence # <<>> => evidence' # <<>>,
         observed' \in Seq(1..Len(turns)), observed # <<>> => observed' # <<>>,
         evidence' # <<>>, p = "observed" => observed' # <<>>,
         UNCHANGED <<row, drawn, turns, late, crashes>>
  PROVE  Inv'
<1> DEFINE x == [call[c] EXCEPT !.pc = p]
<1>1. /\ row \in Row /\ RowFits(row) /\ Checked(row) /\ ProviderFirst(row)
      /\ call[c] \in CallState /\ CallFits(call[c]) /\ late \subseteq Request
      /\ Use(call[c].stage, call[c].token) /\ call[c].token \in Token
  BY Fits DEF CallFits, RowFits
<1>2. x \in CallState /\ x.pc = p /\ x.stage = call[c].stage /\ x.token = call[c].token
  <2>1. p \in PC
    BY DEF PC
  <2> QED BY <1>1, <2>1, Zenon DEF CallState
<1>3. Become(c, x) /\ p \notin InTurn
  BY DEF GoTo, InTurn
<1> HIDE DEF x
<1>4. {} \in SUBSET (Token \ drawn) /\ drawn' = drawn \union {}
  OBVIOUS
<1>5. \A s \in Stage, t \in Token : row.token[s] = t => Use(s, t)
  BY DEF Use
<1>6. row.phase = "COMPLETED" => evidence' # <<>> /\ observed' # <<>>
  BY <1>1 DEF RowFits, Both
<1>7. row.phase = "RUNNING" => Asked(row.turn[row.stage], row.stage, row.token[row.stage])
  BY <1>1 DEF RowFits
<1>8. x.pc \notin InTurn /\ (x.pc = "observed" => evidence' # <<>> /\ observed' # <<>>) /\ Use(x.stage, x.token)
      /\ x.token \in Token
  BY <1>1, <1>2, <1>3
<1> QED BY <1>1, <1>2, <1>3, <1>4, <1>5, <1>6, <1>7, <1>8, StepSafe

LEMMA StoresEvidenceSafe ==
  ASSUME Inv, NEW c \in Call, StoresEvidence(c)
  PROVE  Inv'
<1>1. /\ call[c].pc = "events" /\ GoTo(c, "captured") /\ UNCHANGED <<row, drawn, observed, turns, late, crashes>>
      /\ evidence' = IF Has(evidence, call[c].turn) THEN evidence ELSE Append(evidence, call[c].turn)
  BY DEF StoresEvidence, At, remote
<1>2. call[c].turn \in 1..Len(turns)
  BY <1>1, Fits, Turns DEF CallFits, InTurn, Asked
<1>3. evidence \in Seq(1..Len(turns)) /\ observed \in Seq(1..Len(turns))
  BY DEF Inv, TypeOK
<1>4. evidence' \in Seq(1..Len(turns)) /\ evidence' # <<>>
  BY <1>1, <1>2, <1>3, StoredTurn
<1> QED BY <1>1, <1>3, <1>4, StoresSafe

LEMMA StoresObservationSafe ==
  ASSUME Inv, NEW c \in Call, StoresObservation(c)
  PROVE  Inv'
<1>1. /\ call[c].pc = "events" /\ GoTo(c, "observed") /\ UNCHANGED <<row, drawn, evidence, turns, late, crashes>>
      /\ observed' = IF Has(observed, call[c].turn) THEN observed ELSE Append(observed, call[c].turn)
      /\ call[c].stage = "RECEIVER"
  BY DEF StoresObservation, At, remote
<1>2. call[c].turn \in 1..Len(turns) /\ evidence # <<>>
  BY <1>1, Fits, Turns DEF CallFits, InTurn, Asked
<1>3. evidence \in Seq(1..Len(turns)) /\ observed \in Seq(1..Len(turns))
  BY DEF Inv, TypeOK
<1>4. observed' \in Seq(1..Len(turns)) /\ observed' # <<>>
  BY <1>1, <1>2, <1>3, StoredTurn
<1> QED BY <1>1, <1>2, <1>3, <1>4, StoresSafe

-----------------------------------------------------------------------------
(* TrueForge                                                                *)

\* A turn under a stage and a token that are in use already.
LEMMA NewTurnSafe ==
  ASSUME Inv, NEW s \in Stage, NEW t \in Token, Use(s, t), s = "RECEIVER" => evidence # <<>>,
         Len(turns) < MaxTurns, turns' = Append(turns, NewTurn(s, t)),
         UNCHANGED <<row, drawn, evidence, observed, crashes>>,
         late' \subseteq late, call' \in [Call -> CallState],
         \A c \in Call : CallFits(call[c])',
         \A c \in Call : call'[c].stage = call[c].stage /\ call'[c].token = call[c].token
  PROVE  Inv'
<1> DEFINE new == NewTurn(s, t)
           n == Len(turns)
<1>1. new \in Turn /\ new.stage = s /\ new.token = t
  BY DEF NewTurn, Turn, TurnState
<1>2. /\ turns' \in Seq(Turn) /\ Len(turns') = n + 1 /\ DOMAIN turns' = 1..(n + 1)
      /\ turns'[n + 1] = new /\ \A k \in 1..n : turns'[k] = turns[k]
      /\ n \in Nat /\ DOMAIN turns = 1..n
  <2> HIDE DEF new
  <2> QED BY <1>1, Turns DEF new
<1> HIDE DEF new
<1>3. \A k \in DOMAIN turns' : (k \in DOMAIN turns /\ turns'[k] = turns[k]) \/ turns'[k] = new
  BY <1>2
<1>4. \A k \in DOMAIN turns : k \in DOMAIN turns' /\ turns'[k] = turns[k]
  BY <1>2
<1>5. TypeOK'
  <2>1. evidence \in Seq(1..Len(turns')) /\ observed \in Seq(1..Len(turns'))
    <3>1. evidence \in Seq(1..n) /\ observed \in Seq(1..n)
      BY DEF Inv, TypeOK
    <3>2. 1..n \subseteq 1..Len(turns')
      BY <1>2
    <3>3. ASSUME NEW A, NEW B, A \subseteq B, NEW z \in Seq(A) PROVE z \in Seq(B)
      BY <3>3
    <3> HIDE DEF n
    <3> QED BY <3>1, <3>2, <3>3
  <2> QED BY <1>2, <2>1 DEF Inv, TypeOK
<1>6. RunningIsAttributed' /\ ProviderFirst(row)' /\ StagesInOrder' /\ LateOK'
  BY <1>1, <1>3, <1>4 DEF Inv, RunningIsAttributed, ProviderFirst, StagesInOrder, LateOK, Both
<1>7. CallsOK'
  BY DEF CallsOK
<1>8. \A z \in Stage, u \in Token : Use(z, u)' => Use(z, u)
  BY <1>1, <1>3 DEF Use
<1>9. Drawn' /\ OneStage'
  BY <1>8, StageFacts DEF Inv, Drawn, OneStage
<1> QED BY <1>5, <1>6, <1>7, <1>9 DEF Inv

\* Turns that are there stay, with their stages and tokens.
LEMMA FitsStill ==
  ASSUME Inv, NEW d \in Call, call'[d] = call[d], UNCHANGED <<evidence, observed>>,
         \A k \in DOMAIN turns :
            /\ k \in DOMAIN turns'
            /\ turns'[k].stage = turns[k].stage /\ turns'[k].token = turns[k].token
  PROVE  CallFits(call[d])'
<1>1. CallFits(call[d])
  BY Fits
<1> QED BY <1>1 DEF CallFits, Asked, Both

LEMMA Appended ==
  ASSUME Inv, NEW e \in Turn, turns' = Append(turns, e)
  PROVE  /\ \A k \in DOMAIN turns : k \in DOMAIN turns' /\ turns'[k] = turns[k]
         /\ Len(turns) + 1 \in DOMAIN turns' /\ turns'[Len(turns) + 1] = e
BY Turns

LEMMA PostArrivesSafe ==
  ASSUME Inv, NEW c \in Call, PostArrives(c)
  PROVE  Inv'
<1> DEFINE k == Len(turns) + 1
           x == [call[c] EXCEPT !.pc = "posted", !.turn = k]
           new == NewTurn(call[c].stage, call[c].token)
<1>1. /\ call[c].pc = "post" /\ Len(turns) < MaxTurns /\ turns' = Append(turns, new) /\ Become(c, x)
      /\ UNCHANGED <<row, drawn, evidence, observed, late, crashes>>
  BY DEF PostArrives, At, stored
<1>2. /\ call[c] \in CallState /\ CallFits(call[c]) /\ call[c].token \in Token
      /\ call[c].stage \in Stage /\ Use(call[c].stage, call[c].token)
      /\ call \in [Call -> CallState]
  BY <1>1, Fits DEF CallFits, CallState, Inv, TypeOK
<1>3. /\ x \in CallState /\ x.pc = "posted" /\ x.stage = call[c].stage /\ x.token = call[c].token
      /\ x.seen = call[c].seen /\ x.turn = k
  <2>1. "posted" \in PC
    BY DEF PC
  <2>2. k \in {0} \union TurnId
    BY <1>1, Turns DEF TurnId
  <2> HIDE DEF k
  <2> QED BY <1>2, <2>1, <2>2, Zenon DEF CallState
<1> HIDE DEF x
<1>4. call' \in [Call -> CallState] /\ call'[c] = x /\ \A d \in Call : d # c => call'[d] = call[d]
  BY <1>1, <1>2, <1>3, BecomeStep, Zenon
<1>5. new \in Turn /\ new.stage = call[c].stage /\ new.token = call[c].token
  BY <1>2 DEF NewTurn, Turn, TurnState
<1>6. /\ \A j \in DOMAIN turns : j \in DOMAIN turns' /\ turns'[j] = turns[j]
      /\ k \in DOMAIN turns' /\ turns'[k] = new
  <2> HIDE DEF new
  <2> QED BY <1>1, <1>5, Appended
<1>7. CallFits(call[c])'
  <2> HIDE DEF new, k
  <2> QED BY <1>1, <1>2, <1>3, <1>4, <1>5, <1>6 DEF CallFits, Asked, Both
<1>8. \A d \in Call : CallFits(call[d])'
  <2> SUFFICES ASSUME NEW d \in Call PROVE CallFits(call[d])'
    OBVIOUS
  <2>1. CASE d = c
    BY <1>7, <2>1
  <2>2. CASE d # c
    <3> HIDE DEF new, k
    <3> QED BY <1>1, <1>4, <1>6, <2>2, FitsStill
  <2> QED BY <2>1, <2>2
<1>9. \A d \in Call : call'[d].stage = call[d].stage /\ call'[d].token = call[d].token
  BY <1>3, <1>4
<1>10. call[c].stage = "RECEIVER" => evidence # <<>>
  BY <1>2 DEF CallFits
<1> HIDE DEF k
<1> QED BY <1>1, <1>2, <1>4, <1>8, <1>9, <1>10, NewTurnSafe

\* A request nobody waits for arrives.
LEMMA LateArrivesSafe ==
  ASSUME Inv, NEW q \in late, LateArrives(q)
  PROVE  Inv'
<1> DEFINE new == NewTurn(q.stage, q.token)
<1>1. /\ Len(turns) < MaxTurns /\ turns' = Append(turns, new) /\ late' \subseteq late
      /\ UNCHANGED <<row, drawn, evidence, observed, call, crashes>>
  BY DEF LateArrives, stored
<1>2. /\ q.stage \in Stage /\ q.token \in Token /\ Use(q.stage, q.token)
      /\ (q.stage = "RECEIVER" => evidence # <<>>)
      /\ call \in [Call -> CallState]
  BY DEF Inv, TypeOK, Request, LateOK, Use
<1>3. new \in Turn
  BY <1>2 DEF NewTurn, Turn, TurnState
<1>4. \A j \in DOMAIN turns : j \in DOMAIN turns' /\ turns'[j] = turns[j]
  <2> HIDE DEF new
  <2> QED BY <1>1, <1>3, Appended
<1>5. ASSUME NEW d \in Call PROVE CallFits(call[d])'
  BY <1>1, <1>4, FitsStill
<1> QED BY <1>1, <1>2, <1>5, NewTurnSafe

\* A turn ends, which changes neither its stage nor its token.
LEMMA TurnEndsSafe ==
  ASSUME Inv, NEW k \in DOMAIN turns, TurnEnds(k)
  PROVE  Inv'
<1>1. PICK e \in Ending : turns' = [turns EXCEPT ![k].state = e]
  BY DEF TurnEnds
<1>2. UNCHANGED <<row, drawn, evidence, observed, call, late, crashes>>
  BY DEF TurnEnds, stored
<1>3. /\ turns' \in Seq(Turn) /\ Len(turns') = Len(turns) /\ DOMAIN turns' = DOMAIN turns
      /\ \A j \in DOMAIN turns : turns'[j].stage = turns[j].stage /\ turns'[j].token = turns[j].token
  <2>1. turns[k] \in Turn /\ e \in TurnState
    BY Turns DEF TurnState
  <2>2. [turns[k] EXCEPT !.state = e] \in Turn
    BY <2>1 DEF Turn
  <2>3. /\ DOMAIN turns' = DOMAIN turns
        /\ turns'[k] = [turns[k] EXCEPT !.state = e]
        /\ \A j \in DOMAIN turns : j # k => turns'[j] = turns[j]
    BY <1>1
  <2>4. turns'[k].stage = turns[k].stage /\ turns'[k].token = turns[k].token
    BY <2>1, <2>3 DEF Turn
  <2>5. turns' \in Seq(Turn) /\ Len(turns') = Len(turns)
    BY <1>1, <2>2, Turns
  <2> QED BY <2>3, <2>4, <2>5
<1>4. TypeOK'
  BY <1>2, <1>3 DEF Inv, TypeOK
<1>5. RunningIsAttributed' /\ StagesInOrder' /\ ProviderFirst(row)' /\ LateOK'
  BY <1>2, <1>3 DEF Inv, RunningIsAttributed, StagesInOrder, Both, ProviderFirst, LateOK
<1>6. CallsOK'
  <2> SUFFICES ASSUME NEW d \in Call PROVE CallFits(call[d])'
    BY DEF CallsOK
  <2> QED BY <1>2, <1>3, FitsStill
<1>7. \A s \in Stage, t \in Token : Use(s, t)' => Use(s, t)
  BY <1>2, <1>3 DEF Use
<1>8. Drawn' /\ OneStage'
  BY <1>2, <1>7, StageFacts DEF Inv, Drawn, OneStage
<1> QED BY <1>4, <1>5, <1>6, <1>8 DEF Inv

\* What a crash leaves behind are requests the calls had sent.
LEMMA CrashSafe ==
  ASSUME Inv, Crash
  PROVE  Inv'
<1> DEFINE left == {[stage |-> call[c].stage, token |-> call[c].token] :
                      c \in {d \in Call : call[d].pc = "post"}}
<1>1. /\ call' = [c \in Call |-> Idle] /\ late' = late \union left /\ crashes' \in 0..MaxCrashes
      /\ UNCHANGED <<row, drawn, evidence, observed, turns>>
  BY DEF Crash, stored, Inv, TypeOK
<1>2. ASSUME NEW q \in left
      PROVE  q \in Request /\ (q.stage = "RECEIVER" => evidence # <<>>) /\ Use(q.stage, q.token)
  <2>1. PICK c \in Call : call[c].pc = "post" /\ q = [stage |-> call[c].stage, token |-> call[c].token]
    OBVIOUS
  <2>2. call[c] \in CallState /\ CallFits(call[c])
    BY Fits
  <2>3. q.stage = call[c].stage /\ q.token = call[c].token /\ q.stage \in Stage /\ q.token \in Token
    BY <2>1, <2>2 DEF CallFits, CallState
  <2>4. q \in Request
    BY <2>1, <2>3 DEF Request
  <2> QED BY <2>2, <2>3, <2>4 DEF CallFits, Use
<1> HIDE DEF left
<1>3. call' \in [Call -> CallState] /\ \A c \in Call : call'[c] = Idle
  BY <1>1, IdleCall
<1>4. TypeOK'
  BY <1>1, <1>2, <1>3 DEF Inv, TypeOK
<1>5. RunningIsAttributed' /\ StagesInOrder' /\ ProviderFirst(row)' /\ LateOK'
  BY <1>1, <1>2 DEF Inv, RunningIsAttributed, StagesInOrder, Both, ProviderFirst, LateOK
<1>6. CallsOK'
  BY <1>1, <1>3, IdleCall, StageFacts DEF CallsOK, CallFits, InTurn
<1>7. ASSUME NEW s \in Stage, NEW t \in Token, Use(s, t)' PROVE Use(s, t)
  <2>1. CASE \E q \in late' : q.stage = s /\ q.token = t
    BY <1>1, <1>2, <2>1 DEF Use
  <2>2. CASE ~\E q \in late' : q.stage = s /\ q.token = t
    BY <1>1, <1>3, <1>7, <2>2, IdleCall, StageFacts DEF Use
  <2> QED BY <2>1, <2>2
<1>8. Drawn' /\ OneStage'
  BY <1>1, <1>7, StageFacts DEF Inv, Drawn, OneStage
<1> QED BY <1>4, <1>5, <1>6, <1>8 DEF Inv

-----------------------------------------------------------------------------
(* The invariant, and what follows from it                                  *)

\* The incident may have been investigated by an earlier release.
LEMMA InitInv == Init => Inv
<1> SUFFICES ASSUME Init PROVE Inv
  OBVIOUS
<1> DEFINE other == [Legacy EXCEPT !.stage = "RECEIVER"]
<1>1. /\ NoRow \in Row /\ NoRow.stage = None /\ NoRow.phase = "NONE"
      /\ \A s \in Stage : NoRow.token[s] = None
  BY StageFacts DEF NoRow, Row, PerStage, NoTurns
<1>2. Checked(row) /\ ProviderFirst(row) /\ row = NoRow
  BY <1>1, StageFacts DEF Init, Checked, ProviderFirst, Busy
<1>3. /\ Legacy \in Turn /\ other \in Turn /\ other.stage = "RECEIVER" /\ other.token = None
      /\ Legacy.stage = "PROVIDER" /\ Legacy.token = None
  BY StageFacts DEF Legacy, Turn, TurnState, Ending
<1> HIDE DEF other
<1>4. /\ turns \in Seq(Turn) /\ Len(turns) <= MaxTurns
      /\ evidence \in Seq(1..Len(turns)) /\ observed \in Seq(1..Len(turns))
      /\ \A k \in DOMAIN turns : turns[k].token = None /\ (turns[k].stage = "RECEIVER" => evidence # <<>>)
  <2>1. CASE turns = <<>> /\ evidence = <<>> /\ observed = <<>>
    BY <2>1
  <2>2. CASE turns = <<Legacy>> /\ evidence = <<1>> /\ observed = <<>>
    BY <1>3, <2>2
  <2>3. CASE turns = <<Legacy, other>> /\ evidence = <<1>> /\ observed = <<2>>
    BY <1>3, <2>3
  <2> QED BY <2>1, <2>2, <2>3 DEF Init, other
<1>5. call \in [Call -> CallState] /\ \A c \in Call : call[c] = Idle
  BY IdleCall DEF Init
<1>6. TypeOK
  BY <1>1, <1>2, <1>4, <1>5 DEF Init, TypeOK
<1>7. RunningIsAttributed /\ StagesInOrder
  BY <1>1, <1>2, <1>4, StageFacts DEF RunningIsAttributed, StagesInOrder
<1>8. CallsOK /\ LateOK
  BY <1>5, IdleCall, StageFacts DEF CallsOK, LateOK, CallFits, InTurn, Init
<1>9. \A s \in Stage, t \in Token : ~Use(s, t)
  BY <1>1, <1>2, <1>4, <1>5, IdleCall, StageFacts DEF Use, Init
<1>10. Drawn /\ OneStage
  BY <1>9, StageFacts DEF Drawn, OneStage
<1> QED BY <1>2, <1>6, <1>7, <1>8, <1>10 DEF Inv

LEMMA StepInv == Inv /\ [Next]_vars => Inv'
<1> SUFFICES ASSUME Inv, [Next]_vars PROVE Inv'
  OBVIOUS
<1>1. CASE \E c \in Call : Starts(c)
  BY <1>1, ReadsSafe, CompletesUnreadSafe, ReserveSafe, JoinSafe DEF Starts
<1>2. CASE \E c \in Call : Proceeds(c)
  <2> SUFFICES ASSUME NEW c \in Call, Proceeds(c) PROVE Inv'
    BY <1>2
  <2>1. CASE AskAnswers(c) \/ Captured(c) \/ Observed(c)
    BY <2>1, AskAnswersSafe, CapturedSafe, ObservedSafe
  <2>2. CASE LookupFinds(c) \/ LookupEnds(c) \/ PeekEnds(c) \/ PeekFinds(c)
    BY <2>2, LookupFindsSafe, LookupEndsSafe, PeekEndsSafe, PeekFindsSafe
  <2>3. CASE SessionAnswers(c) \/ ReplayAnswers(c) \/ StreamStarts(c)
    BY <2>3, SessionAnswersSafe, ReplayAnswersSafe
  <2>4. CASE PostArrives(c) \/ PostRefused(c) \/ PostLost(c)
    BY <2>4, PostArrivesSafe, PostRefusedSafe, PostLostSafe
  <2>5. CASE StreamEnds(c) \/ Breaks(c) \/ AsksAgain(c) \/ StoresEvidence(c) \/ StoresObservation(c)
    BY <2>5, StreamEndsSafe, BreaksSafe, AsksAgainSafe, StoresEvidenceSafe, StoresObservationSafe
  <2> QED BY <2>1, <2>2, <2>3, <2>4, <2>5 DEF Proceeds
<1>3. CASE \E q \in late : LateArrives(q)
  BY <1>3, LateArrivesSafe
<1>4. CASE \E k \in DOMAIN turns : TurnEnds(k)
  BY <1>4, TurnEndsSafe
<1>5. CASE Crash
  BY <1>5, CrashSafe
<1>6. CASE UNCHANGED vars
  <2>1. UNCHANGED <<row, drawn, evidence, observed, call, turns, late, crashes>>
    BY <1>6 DEF vars, stored, remote
  <2>2. TypeOK' /\ RunningIsAttributed' /\ StagesInOrder' /\ ProviderFirst(row)'
    BY <2>1 DEF Inv, TypeOK, RunningIsAttributed, StagesInOrder, Both, ProviderFirst, Checked
  <2>3. CallsOK' /\ LateOK'
    BY <2>1 DEF Inv, CallsOK, LateOK, CallFits, Asked, Both
  <2>4. Drawn' /\ OneStage'
    BY <2>1 DEF Inv, Drawn, OneStage, Use
  <2> QED BY <2>2, <2>3, <2>4 DEF Inv
<1> QED BY <1>1, <1>2, <1>3, <1>4, <1>5, <1>6 DEF Next

\* The invariant holds always.
THEOREM Invariance == Spec => []Inv
BY InitInv, StepInv, PTL DEF Spec

\* Every variable has its type, and no statement of the repository leaves a row
\* the table's CHECK constraint refuses.
THEOREM TypeCorrect == Spec => []TypeOK
<1>1. Inv => TypeOK
  BY DEF Inv
<1> QED BY <1>1, Invariance, PTL

\* A row that waits for a turn waits for one that was asked for under its own
\* operation token and for its stage, whatever calls overtook each other.
THEOREM Attribution == Spec => []RunningIsAttributed
<1>1. Inv => RunningIsAttributed
  BY DEF Inv
<1> QED BY <1>1, Invariance, PTL

\* The receiver is asked after the provider's evidence is stored, and an
\* investigation is completed after both results are.
THEOREM StageOrder == Spec => []StagesInOrder
<1>1. Inv => StagesInOrder
  BY DEF Inv
<1> QED BY <1>1, Invariance, PTL

-----------------------------------------------------------------------------
(* What is completed stays so                                               *)

LEMMA CatchKeeps ==
  ASSUME NEW c \in Call, Catch(c), row.phase = "COMPLETED"
  PROVE  row' = row
BY DEF Catch, Failed

LEMMA CompletedKeeps ==
  ASSUME Inv, NEW c \in Call, Starts(c) \/ Proceeds(c), row.phase = "COMPLETED"
  PROVE  row'.phase = "COMPLETED" /\ row'.token = row.token
<1>1. row.stage \notin Stage /\ row \in Row /\ row.phase \notin Busy
  BY DEF Inv, TypeOK, Checked, Busy
<1>2. call[c].stage \in Stage
  BY Fits DEF CallState
<1>3. Completed(row) = row /\ Failed(row, c) = row
  BY DEF Completed, Failed
<1>4. ~Claimable(row, c) /\ ~Attributable(row, c, call[c].turn) /\ ~Holds(row, c, "CREATING")
  BY DEF Claimable, Attributable, Holds
<1>5. CASE Reads(c)
  <2> DEFINE shown == IF row.turn["RECEIVER"] = 0 THEN Last(observed) ELSE row.turn["RECEIVER"]
  <2>1. PICK k \in DOMAIN evidence :
          row' = IF row.turn["PROVIDER"] \in {0, evidence[k]}
                   THEN [row EXCEPT !.turn = PerStage(evidence[k], shown)] ELSE row
    BY <1>3, <1>5 DEF Reads
  <2> HIDE DEF shown
  <2> QED BY <1>1, <2>1 DEF Row
<1>6. CASE CompletesUnread(c)
  BY <1>3, <1>6 DEF CompletesUnread
<1>7. CASE Reserve(c) \/ Join(c)
  BY <1>7, <1>1 DEF Reserve, Join
<1>8. CASE AskAnswers(c) \/ PeekEnds(c) \/ PostRefused(c)
  BY <1>3, <1>8 DEF AskAnswers, PeekEnds, PostRefused
<1>9. CASE Captured(c) \/ PeekFinds(c)
  BY <1>1, <1>9, CatchKeeps, StageFacts DEF Captured, PeekFinds, HandOver, stored
<1>10. CASE Observed(c)
  BY <1>1, <1>10, CatchKeeps, StageFacts DEF Observed, stored
<1>11. CASE LookupFinds(c)
  BY <1>11 DEF LookupFinds, Attributable, Holds
<1>12. CASE LookupEnds(c)
  BY <1>12 DEF LookupEnds
<1>13. CASE SessionAnswers(c)
  BY <1>4, <1>13 DEF SessionAnswers
<1>14. CASE ReplayAnswers(c) \/ StreamStarts(c)
  BY <1>4, <1>14, CatchKeeps DEF ReplayAnswers, StreamStarts, NamesTurn
<1>15. CASE PostArrives(c) \/ StreamEnds(c) \/ StoresEvidence(c) \/ StoresObservation(c)
  BY <1>15 DEF PostArrives, StreamEnds, StoresEvidence, StoresObservation, stored
<1>16. CASE PostLost(c) \/ Breaks(c)
  BY <1>4, <1>16, CatchKeeps DEF PostLost, Breaks
<1>17. CASE AsksAgain(c)
  BY <1>4, <1>17 DEF AsksAgain
<1> QED BY <1>5, <1>6, <1>7, <1>8, <1>9, <1>10, <1>11, <1>12, <1>13, <1>14, <1>15, <1>16, <1>17
        DEF Starts, Proceeds

\* Nothing a late or failing call does takes a completed investigation back.
THEOREM CompletionIsFinal == Spec => CompletedForGood
<1>1. Inv /\ [Next]_vars => [row.phase = "COMPLETED" =>
                                row'.phase = "COMPLETED" /\ row'.token = row.token]_vars
  BY CompletedKeeps DEF Next, vars, stored, LateArrives, TurnEnds, Crash
<1> QED BY <1>1, Invariance, PTL DEF Spec, CompletedForGood

=============================================================================
