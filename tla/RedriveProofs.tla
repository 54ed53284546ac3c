---------------------------- MODULE RedriveProofs ----------------------------
(***************************************************************************)
(* Theorems about Redrive for every set of incidents, fingerprints and     *)
(* requests, and every bound.  The argument: a request that is between the *)
(* consumption of the permit and the outcome of its POST is the only one   *)
(* for its permit (Exclusive), and while it is there the row it wrote says *)
(* DISPATCHING (Fenced), which no other request may change or take for     *)
(* unsent.  From this invariant (Inv) follow the type invariant, at most   *)
(* one permit and one GitHub redelivery per incident and the action        *)
(* properties that fence the redelivery; that every step that touches      *)
(* permits, rows or POSTs is of one of four kinds (StepKinds), each a step *)
(* of the permit gate, so that Redrive implements it; and that what a      *)
(* request carries from its polls to the receipt is still what the row     *)
(* says (Proven), so that every receipt has its evidence.                  *)
(***************************************************************************)
EXTENDS Redrive, TLAPS

\* A request that is doing something works on a fingerprint.
BusyHasPermit == \A r \in Request : req[r].pc # "idle" => req[r].fp \in Fingerprint

Typed == TypeOK /\ BusyHasPermit

USE IncidentOfAssumption, NoneAssumption, BoundsAssumption

------------------------------------------------------------------------------
(* What requests become                                                    *)

\* The idle request is a request.
LEMMA IdleType ==
  /\ Idle \in RequestState
  /\ Idle.pc = "idle" /\ Idle.fp = None /\ Idle.reply = "none"
  BY DEF Idle, RequestState, PC, Reply, DispatchState

\* Each kind of update a request makes of its own state keeps it a request.
LEMMA UpdateType ==
  ASSUME NEW s \in RequestState, NEW pc \in PC
  PROVE  /\ [s EXCEPT !.pc = pc] \in RequestState
         /\ \A seen \in SUBSET Nat : [s EXCEPT !.pc = pc, !.seen = seen] \in RequestState
         /\ \A k \in Nat : [s EXCEPT !.pc = pc, !.evidence = k] \in RequestState
         /\ \A n \in 0..MaxPolls : [s EXCEPT !.polls = n] \in RequestState
  BY DEF RequestState

\* A request that starts or goes on working on f is a request.
LEMMA WorkingType ==
  ASSUME NEW s \in RequestState, NEW f \in Fingerprint, NEW pc \in PC,
         NEW c \in Fingerprint \union {None}
  PROVE  /\ [s EXCEPT !.pc = pc, !.fp = f, !.cand = c] \in RequestState
         /\ \A k \in Nat :
              [s EXCEPT !.pc = pc, !.fp = f, !.cand = c, !.evidence = k] \in RequestState
         /\ \A row \in {"DISPATCHED", "OUTCOME_UNKNOWN"}, n \in 0..MaxPolls :
              [s EXCEPT !.pc = pc, !.fp = f, !.cand = c, !.row = row, !.polls = n]
                \in RequestState
  BY DEF RequestState

\* A request that returned is idle and has the fingerprint and the answer.
LEMMA RepliedType ==
  ASSUME NEW f \in Fingerprint, NEW o \in DispatchState \ {"NONE"}
  PROVE  /\ Replied(f, o) \in RequestState
         /\ Replied(f, o).pc = "idle"
         /\ Replied(f, o).fp = f
         /\ Replied(f, o).reply = o
  BY IdleType DEF Replied, RequestState, PC, Reply, DispatchState

\* continueDispatch watches, reads or returns: it never sends.
LEMMA ContinuationType ==
  ASSUME NEW f \in Fingerprint, NEW c \in Fingerprint \union {None},
         NEW d \in Dispatch, d.state # "NONE"
  PROVE  /\ Continuation(f, c, d) \in RequestState
         /\ Continuation(f, c, d).pc # "idle" => Continuation(f, c, d).fp = f
         /\ Continuation(f, c, d).pc \in {"idle", "poll", "finalRead"}
<1>1. CASE c # f
  BY <1>1, IdleType DEF Continuation
<1>2. CASE c = f /\ d.state \in {"DISPATCHED", "OUTCOME_UNKNOWN"}
  <2> DEFINE s == [Idle EXCEPT !.pc = "poll", !.fp = f, !.cand = c,
                               !.row = d.state, !.polls = MaxPolls]
  <2>1. Continuation(f, c, d) = s
    BY <1>2 DEF Continuation
  <2>2. MaxPolls \in 0..MaxPolls /\ "poll" \in PC
    BY DEF PC
  <2>3. s \in RequestState
    BY <1>2, <2>2, IdleType, WorkingType
  <2>4. s.pc = "poll" /\ s.fp = f
    BY IdleType DEF RequestState
  <2> QED BY <2>1, <2>3, <2>4
<1>3. CASE c = f /\ d.state = "PROVIDER_VERIFIED"
  BY <1>3, IdleType DEF Continuation, RequestState, PC, Dispatch
<1>4. CASE c = f /\ d.state \notin {"DISPATCHED", "OUTCOME_UNKNOWN", "PROVIDER_VERIFIED"}
  <2>1. d.state \in DispatchState \ {"NONE"}
    BY DEF Dispatch
  <2> QED BY <1>4, <2>1, RepliedType, IdleType DEF Continuation
<1> QED BY <1>1, <1>2, <1>3, <1>4

\* transitionDispatch keeps a row a row, and only moves it from the state named.
LEMMA TransitionType ==
  ASSUME NEW d \in Dispatch, NEW from, NEW to \in DispatchState, NEW n \in Nat
  PROVE  /\ Transition(d, from, to, n) \in Dispatch
         /\ d.state # from => Transition(d, from, to, n) = d
         /\ d.state = from => /\ Transition(d, from, to, n).state = to
                              /\ Transition(d, from, to, n).redelivery
                                   = IF n = 0 THEN d.redelivery ELSE n
  BY DEF Transition, Dispatch

\* Replacing one request by a well-typed one keeps all requests well typed.
LEMMA BecomeTyped ==
  ASSUME Typed, NEW r \in Request, NEW s \in RequestState,
         s.pc # "idle" => s.fp \in Fingerprint, Become(r, s)
  PROVE  req' \in [Request -> RequestState] /\ BusyHasPermit'
  BY DEF Typed, TypeOK, BusyHasPermit, Become

------------------------------------------------------------------------------
(* The type invariant                                                      *)

\* The initial state is well typed.
LEMMA TypedInit == Init => Typed
  BY IdleType DEF Init, Typed, TypeOK, BusyHasPermit, Of, PermitState, Dispatch,
     NoDispatch, DispatchState, Receipt, NoReceipt

\* What Typed says of the request r.
LEMMA RequestTyped ==
  ASSUME Typed, NEW r \in Request
  PROVE  /\ req[r] \in RequestState
         /\ req[r].pc # "idle" =>
              /\ req[r].fp \in Fingerprint
              /\ IncidentOf[req[r].fp] \in Incident
              /\ dispatch[req[r].fp] \in Dispatch
  BY DEF Typed, TypeOK, BusyHasPermit

\* A step that changes one request and nothing else.
LEMMA RequestStepTyped ==
  ASSUME Typed, NEW r \in Request, NEW s \in RequestState,
         s.pc # "idle" => s.fp \in Fingerprint, Become(r, s),
         UNCHANGED <<database, posts, provider, outside>>
  PROVE  Typed'
<1>1. req' \in [Request -> RequestState] /\ BusyHasPermit'
  BY BecomeTyped
<1> QED BY <1>1 DEF Typed, TypeOK, database, provider, outside

\* A step that changes one request and one dispatch row.
LEMMA RowStepTyped ==
  ASSUME Typed, NEW r \in Request, NEW s \in RequestState,
         s.pc # "idle" => s.fp \in Fingerprint, Become(r, s),
         NEW f \in Fingerprint, NEW d \in Dispatch,
         dispatch' = [dispatch EXCEPT ![f] = d],
         UNCHANGED <<cand, permit, receipt, posts, provider, outside>>
  PROVE  Typed'
<1>1. req' \in [Request -> RequestState] /\ BusyHasPermit'
  BY BecomeTyped
<1> QED BY <1>1 DEF Typed, TypeOK, provider, outside

\* approve and execute calls that begin keep every variable in its type.
LEMMA BeginTyped ==
  ASSUME Typed, NEW r \in Request, Begin(r)
  PROVE  Typed'
<1>1. PICK f \in Fingerprint : ApproveBegin(r, f) \/ ExecuteExisting(r, f) \/ ExecuteBegin(r, f)
  BY DEF Begin
<1> DEFINE i == IncidentOf[f]
<1>2. i \in Incident /\ cand[i] \in Fingerprint \union {None} /\ dispatch[f] \in Dispatch
  BY DEF Typed, TypeOK
<1>3. CASE ApproveBegin(r, f)
  <2> DEFINE s == [Idle EXCEPT !.pc = "approveRead", !.fp = f, !.cand = cand[i]]
  <2>1. s \in RequestState /\ s.fp = f
    <3>1. "approveRead" \in PC BY DEF PC
    <3>2. s \in RequestState BY <1>2, <3>1, IdleType, WorkingType
    <3>3. s.fp = f BY IdleType DEF RequestState
    <3> QED BY <3>2, <3>3
  <2>2. Become(r, s) /\ UNCHANGED <<database, posts, provider, outside>>
    BY <1>3 DEF ApproveBegin
  <2> QED BY <2>1, <2>2, RequestStepTyped
<1>4. CASE ExecuteExisting(r, f)
  <2> DEFINE s == IF receipt[i].fp = f /\ cand[i] = f THEN Replied(f, "COMPLETE")
                  ELSE Continuation(f, cand[i], dispatch[f])
  <2>1. dispatch[f].state # "NONE"
    BY <1>4 DEF ExecuteExisting
  <2>2. "COMPLETE" \in DispatchState \ {"NONE"}
    BY DEF DispatchState
  <2>3. s \in RequestState /\ (s.pc # "idle" => s.fp \in Fingerprint)
    BY <1>2, <2>1, <2>2, RepliedType, ContinuationType
  <2>4. Become(r, s) /\ UNCHANGED <<database, posts, provider, outside>>
    BY <1>4 DEF ExecuteExisting
  <2> QED BY <2>3, <2>4, RequestStepTyped
<1>5. CASE ExecuteBegin(r, f)
  <2> DEFINE s == [Idle EXCEPT !.pc = "executeRead", !.fp = f, !.cand = cand[i]]
  <2>1. s \in RequestState /\ s.fp = f
    <3>1. "executeRead" \in PC BY DEF PC
    <3>2. s \in RequestState BY <1>2, <3>1, IdleType, WorkingType
    <3>3. s.fp = f BY IdleType DEF RequestState
    <3> QED BY <3>2, <3>3
  <2>2. Become(r, s) /\ UNCHANGED <<database, posts, provider, outside>>
    BY <1>5 DEF ExecuteBegin
  <2> QED BY <2>1, <2>2, RequestStepTyped
<1> QED BY <1>1, <1>3, <1>4, <1>5

\* The transactions that approve and consume a permit keep the types.
LEMMA PermitTyped ==
  ASSUME Typed, NEW r \in Request, ApproveCommit(r) \/ Consume(r) \/ ConsumeNot(r)
  PROVE  Typed'
<1> DEFINE f == req[r].fp
<1>1. /\ req[r] \in RequestState
      /\ f \in Fingerprint
      /\ dispatch[f] \in Dispatch
      /\ permit \in [Fingerprint -> PermitState]
  BY RequestTyped DEF ApproveCommit, Consume, ConsumeNot, At, Typed, TypeOK
<1>2. CASE ApproveCommit(r)
  <2>1. req' \in [Request -> RequestState] /\ BusyHasPermit'
    BY <1>2, IdleType, BecomeTyped DEF ApproveCommit
  <2>2. permit' \in [Fingerprint -> PermitState]
    BY <1>1, <1>2 DEF ApproveCommit, PermitState
  <2> QED BY <1>2, <2>1, <2>2 DEF ApproveCommit, Typed, TypeOK, provider, outside
<1>3. CASE Consume(r)
  <2> DEFINE s == [req[r] EXCEPT !.pc = "post"]
  <2>0. "post" \in PC BY DEF PC
  <2>1. s \in RequestState /\ s.fp \in Fingerprint
    <3>1. s \in RequestState BY <1>1, <2>0, UpdateType
    <3>2. s.fp = f BY <1>1 DEF RequestState
    <3> QED BY <1>1, <3>1, <3>2
  <2>2. req' \in [Request -> RequestState] /\ BusyHasPermit'
    BY <1>3, <2>1, BecomeTyped DEF Consume
  <2>3. permit' \in [Fingerprint -> PermitState]
    BY <1>1, <1>3 DEF Consume, PermitState
  <2>4. [NoDispatch EXCEPT !.state = "DISPATCHING"] \in Dispatch
    BY DEF NoDispatch, Dispatch, DispatchState
  <2>5. dispatch' \in [Fingerprint -> Dispatch]
    BY <1>3, <2>4 DEF Consume, Typed, TypeOK
  <2> QED BY <1>3, <2>2, <2>3, <2>5 DEF Consume, Typed, TypeOK, provider, outside
<1>4. CASE ConsumeNot(r)
  <2> DEFINE s == IF Fresh(r) /\ dispatch[f].state # "NONE"
                  THEN Continuation(f, req[r].cand, dispatch[f]) ELSE Idle
  <2>1. req[r].cand \in Fingerprint \union {None}
    BY <1>1 DEF RequestState
  <2>2. s \in RequestState /\ (s.pc # "idle" => s.fp \in Fingerprint)
    BY <1>1, <2>1, IdleType, ContinuationType
  <2>3. Become(r, s) /\ UNCHANGED <<database, posts, provider, outside>>
    BY <1>4 DEF ConsumeNot
  <2> QED BY <2>2, <2>3, RequestStepTyped
<1> QED BY <1>2, <1>3, <1>4

\* The redelivery POST, sent or not, keeps the types.
LEMMA PostTyped ==
  ASSUME Typed, NEW r \in Request, PostReaches(r) \/ PostNeverSent(r)
  PROVE  Typed'
<1>1. req[r] \in RequestState /\ req[r].fp \in Fingerprint /\ IncidentOf[req[r].fp] \in Incident
  BY RequestTyped DEF PostReaches, PostNeverSent, At
<1>2. {"postAccepted", "postRejected", "postLost"} \subseteq PC
  BY DEF PC
<1>3. \A pc \in {"postAccepted", "postRejected", "postLost"} :
        /\ [req[r] EXCEPT !.pc = pc] \in RequestState
        /\ [req[r] EXCEPT !.pc = pc].fp \in Fingerprint
  <2>1. TAKE pc \in {"postAccepted", "postRejected", "postLost"}
  <2>2. [req[r] EXCEPT !.pc = pc] \in RequestState
    BY <1>1, <1>2, UpdateType
  <2>3. [req[r] EXCEPT !.pc = pc].fp = req[r].fp
    BY <1>1 DEF RequestState
  <2> QED BY <1>1, <2>2, <2>3
<1>4. CASE PostReaches(r)
  <2>1. PICK outcome \in {"postAccepted", "postRejected", "postLost"}, taken \in {0, 1} :
          /\ queued' = [queued EXCEPT ![IncidentOf[req[r].fp]] = @ + taken]
          /\ Become(r, [req[r] EXCEPT !.pc = outcome])
    BY <1>4 DEF PostReaches
  <2>2. req' \in [Request -> RequestState] /\ BusyHasPermit'
    BY <1>3, <2>1, BecomeTyped
  <2>3. queued' \in [Incident -> Nat]
    BY <2>1, <1>1 DEF Typed, TypeOK
  <2>4. posts' \in [Fingerprint -> Nat]
    BY <1>1, <1>4 DEF PostReaches, Typed, TypeOK
  <2> QED BY <1>4, <2>2, <2>3, <2>4 DEF PostReaches, Typed, TypeOK, database, outside
<1>5. CASE PostNeverSent(r)
  <2>1. PICK s \in {Idle, [req[r] EXCEPT !.pc = "postRejected"],
                    [req[r] EXCEPT !.pc = "postLost"]} : Become(r, s)
    BY <1>5 DEF PostNeverSent
  <2>2. s \in RequestState /\ (s.pc # "idle" => s.fp \in Fingerprint)
    BY <1>3, <2>1, IdleType
  <2>3. UNCHANGED <<database, posts, provider, outside>>
    BY <1>5 DEF PostNeverSent
  <2> QED BY <2>1, <2>2, <2>3, RequestStepTyped
<1> QED BY <1>4, <1>5

\* Recording what the POST answered keeps the types.
LEMMA OutcomeTyped ==
  ASSUME Typed, NEW r \in Request, Rejected(r) \/ Lost(r) \/ Accepted(r),
         dispatch[req[r].fp].state # "NONE"
  PROVE  Typed'
<1> DEFINE f == req[r].fp
           d(to) == Transition(dispatch[f], "DISPATCHING", to, 0)
<1>1. /\ req[r] \in RequestState /\ f \in Fingerprint /\ dispatch[f] \in Dispatch
      /\ dispatch \in [Fingerprint -> Dispatch]
  BY RequestTyped DEF Rejected, Lost, Accepted, At, Typed, TypeOK
<1>2. {"FAILED", "OUTCOME_UNKNOWN", "DISPATCHED"} \subseteq DispatchState \ {"NONE"}
  BY DEF DispatchState
<1>3. \A to \in {"FAILED", "OUTCOME_UNKNOWN", "DISPATCHED"} :
        d(to) \in Dispatch /\ d(to).state # "NONE"
  BY <1>1, <1>2, TransitionType
<1>4. CASE Rejected(r)
  <2>1. Become(r, Replied(f, "FAILED")) /\ dispatch' = [dispatch EXCEPT ![f] = d("FAILED")]
    BY <1>4 DEF Rejected
  <2>2. Replied(f, "FAILED") \in RequestState /\ Replied(f, "FAILED").pc = "idle"
    BY <1>1, <1>2, RepliedType
  <2>3. d("FAILED") \in Dispatch
    BY <1>3
  <2>4. UNCHANGED <<cand, permit, receipt, posts, provider, outside>>
    BY <1>4 DEF Rejected
  <2> QED BY <1>1, <2>1, <2>2, <2>3, <2>4, RowStepTyped
<1>5. CASE Lost(r)
  <2>1. /\ Become(r, Replied(f, "OUTCOME_UNKNOWN"))
        /\ dispatch' = [dispatch EXCEPT ![f] = d("OUTCOME_UNKNOWN")]
    BY <1>5 DEF Lost
  <2>2. Replied(f, "OUTCOME_UNKNOWN") \in RequestState /\ Replied(f, "OUTCOME_UNKNOWN").pc = "idle"
    BY <1>1, <1>2, RepliedType
  <2>3. d("OUTCOME_UNKNOWN") \in Dispatch
    BY <1>3
  <2>4. UNCHANGED <<cand, permit, receipt, posts, provider, outside>>
    BY <1>5 DEF Lost
  <2> QED BY <1>1, <2>1, <2>2, <2>3, <2>4, RowStepTyped
<1>6. CASE Accepted(r)
  <2>1. dispatch' = [dispatch EXCEPT ![f] = d("DISPATCHED")]
    BY <1>6 DEF Accepted
  <2>2. dispatch'[f] = d("DISPATCHED")
    BY <1>1, <2>1
  <2> DEFINE s == Continuation(f, req[r].cand, d("DISPATCHED"))
  <2>3. Become(r, s)
    BY <1>6, <2>2 DEF Accepted
  <2>4. s \in RequestState /\ (s.pc # "idle" => s.fp \in Fingerprint)
    <3>1. req[r].cand \in Fingerprint \union {None}
      BY <1>1 DEF RequestState
    <3> QED BY <1>1, <1>3, <3>1, ContinuationType
  <2> QED
    BY <1>1, <1>3, <1>6, <2>1, <2>3, <2>4, RowStepTyped DEF Accepted
<1> QED BY <1>4, <1>5, <1>6

\* The polls of the delivery list keep the types.
LEMMA PollTyped ==
  ASSUME Typed, NEW r \in Request,
         PollAgain(r) \/ PollFinds(r) \/ PollUnreadable(r) \/ PollGivesUp(r)
  PROVE  Typed'
<1>1. /\ req[r] \in RequestState /\ req[r].fp \in Fingerprint
      /\ UNCHANGED <<database, posts, provider, outside>>
  BY RequestTyped DEF PollAgain, PollFinds, PollUnreadable, PollGivesUp, At
<1>2. "observed" \in PC
  BY DEF PC
<1>3. CASE PollAgain(r)
  <2> DEFINE s == [req[r] EXCEPT !.polls = @ - 1]
  <2>1. req[r].polls - 1 \in 0..MaxPolls
    BY <1>1, <1>3 DEF PollAgain, RequestState
  <2>2. s \in RequestState /\ s.fp = req[r].fp
    BY <1>1, <2>1 DEF RequestState
  <2>3. Become(r, s)
    BY <1>3 DEF PollAgain
  <2> QED BY <1>1, <2>2, <2>3, RequestStepTyped
<1>4. CASE PollFinds(r) \/ PollUnreadable(r) \/ PollGivesUp(r)
  <2>1. \E k \in Nat : Become(r, [req[r] EXCEPT !.pc = "observed", !.evidence = k])
    <3>1. IncidentOf[req[r].fp] \in Incident
      BY <1>1
    <3>2. DOMAIN attempts[IncidentOf[req[r].fp]] \subseteq Nat
      BY <3>1 DEF Typed, TypeOK
    <3> QED BY <1>4, <3>2 DEF PollFinds, PollUnreadable, PollGivesUp, Matching
  <2>2. PICK k \in Nat : Become(r, [req[r] EXCEPT !.pc = "observed", !.evidence = k])
    BY <2>1
  <2> DEFINE s == [req[r] EXCEPT !.pc = "observed", !.evidence = k]
  <2>3. s \in RequestState
    BY <1>1, <1>2, UpdateType
  <2>4. s.fp = req[r].fp
    BY <1>1 DEF RequestState
  <2> QED BY <1>1, <2>2, <2>3, <2>4, RequestStepTyped
<1> QED BY <1>3, <1>4

\* Recording what the polls observed keeps the types.
LEMMA ObservedTyped ==
  ASSUME Typed, NEW r \in Request, ObservedNothing(r) \/ ObservedSuccess(r)
  PROVE  Typed'
<1> DEFINE f == req[r].fp
<1>1. /\ req[r] \in RequestState /\ f \in Fingerprint /\ dispatch[f] \in Dispatch
      /\ dispatch \in [Fingerprint -> Dispatch]
      /\ req[r].evidence \in Nat /\ req[r].cand \in Fingerprint \union {None}
  BY RequestTyped DEF ObservedNothing, ObservedSuccess, At, Typed, TypeOK, RequestState
<1>2. {"FAILED", "OUTCOME_UNKNOWN", "PROVIDER_VERIFIED"} \subseteq DispatchState \ {"NONE"}
  BY DEF DispatchState
<1>3. CASE ObservedNothing(r)
  <2> DEFINE d == IF req[r].row = "DISPATCHED"
                    THEN Transition(dispatch[f], "DISPATCHED", "FAILED", 0)
                    ELSE dispatch[f]
             s == Replied(f, IF req[r].row = "DISPATCHED" THEN "FAILED"
                                                           ELSE "OUTCOME_UNKNOWN")
  <2>1. Become(r, s) /\ dispatch' = [dispatch EXCEPT ![f] = d]
    BY <1>3 DEF ObservedNothing
  <2>2. s \in RequestState /\ s.pc = "idle"
    BY <1>1, <1>2, RepliedType
  <2>3. d \in Dispatch
    BY <1>1, <1>2, TransitionType
  <2>4. UNCHANGED <<cand, permit, receipt, posts, provider, outside>>
    BY <1>3 DEF ObservedNothing
  <2> QED BY <1>1, <2>1, <2>2, <2>3, <2>4, RowStepTyped
<1>4. CASE ObservedSuccess(r)
  <2> DEFINE d == Transition(dispatch[f], req[r].row, "PROVIDER_VERIFIED", req[r].evidence)
             s == IF d.redelivery = 0 THEN Idle
                  ELSE [Idle EXCEPT !.pc = "finalRead", !.fp = f, !.cand = req[r].cand,
                                    !.evidence = d.redelivery]
  <2>1. dispatch' = [dispatch EXCEPT ![f] = d]
    BY <1>4 DEF ObservedSuccess
  <2>2. d \in Dispatch
    BY <1>1, <1>2, TransitionType
  <2>3. Become(r, s)
    <3>1. dispatch'[f] = d BY <1>1, <2>1
    <3> QED BY <1>4, <3>1 DEF ObservedSuccess
  <2>4. s \in RequestState /\ (s.pc # "idle" => s.fp \in Fingerprint)
    <3>1. "finalRead" \in PC /\ d.redelivery \in Nat
      BY <2>2 DEF PC, Dispatch
    <3>2. s \in RequestState
      BY <1>1, <3>1, IdleType, WorkingType
    <3>3. s.pc # "idle" => s.fp = f
      BY IdleType DEF RequestState
    <3> QED BY <1>1, <3>2, <3>3
  <2>5. UNCHANGED <<cand, permit, receipt, posts, provider, outside>>
    BY <1>4 DEF ObservedSuccess
  <2> QED BY <1>1, <2>1, <2>2, <2>3, <2>4, <2>5, RowStepTyped
<1> QED BY <1>3, <1>4

\* The final receiver read and the completion keep the types.
LEMMA FinalTyped ==
  ASSUME Typed, NEW r \in Request,
         FinalUnread(r) \/ FinalMismatch(r) \/ Complete(r) \/ CompleteNot(r)
  PROVE  Typed'
<1> DEFINE f == req[r].fp
           i == IncidentOf[f]
<1>1. /\ req[r] \in RequestState /\ f \in Fingerprint /\ dispatch[f] \in Dispatch
      /\ dispatch \in [Fingerprint -> Dispatch] /\ i \in Incident
      /\ receipt \in [Incident -> Receipt]
      /\ req[r].seen \in SUBSET Nat /\ req[r].evidence \in Nat
  BY RequestTyped DEF FinalUnread, FinalMismatch, Complete, CompleteNot, At,
                      Typed, TypeOK, RequestState
<1>2. \A o \in {"FAILED", "PROVIDER_VERIFIED", "COMPLETE"} :
        Replied(f, o) \in RequestState /\ Replied(f, o).pc = "idle"
  <2>1. {"FAILED", "PROVIDER_VERIFIED", "COMPLETE"} \subseteq DispatchState \ {"NONE"}
    BY DEF DispatchState
  <2> QED BY <1>1, <2>1, RepliedType
<1>3. CASE FinalUnread(r)
  <2>1. /\ Become(r, Replied(f, "PROVIDER_VERIFIED"))
        /\ UNCHANGED <<database, posts, provider, outside>>
    BY <1>3 DEF FinalUnread
  <2> QED BY <1>2, <2>1, RequestStepTyped
<1>4. CASE FinalMismatch(r)
  <2> DEFINE row == dispatch[f]
             d == IF row.state = "PROVIDER_VERIFIED"
                    THEN [row EXCEPT !.state = "FAILED", !.final = req[r].seen] ELSE row
  <2>1. Become(r, Replied(f, "FAILED")) /\ dispatch' = [dispatch EXCEPT ![f] = d]
    BY <1>4 DEF FinalMismatch
  <2>2. d \in Dispatch
    BY <1>1 DEF Dispatch, DispatchState
  <2>3. UNCHANGED <<cand, permit, receipt, posts, provider, outside>>
    BY <1>4 DEF FinalMismatch
  <2> QED BY <1>1, <1>2, <2>1, <2>2, <2>3, RowStepTyped
<1>5. CASE Complete(r)
  <2>1. req' \in [Request -> RequestState] /\ BusyHasPermit'
    <3>1. Become(r, Replied(f, "COMPLETE"))
      BY <1>5 DEF Complete
    <3> QED BY <1>2, <3>1, BecomeTyped
  <2>2. dispatch' = [dispatch EXCEPT ![f] = [dispatch[f] EXCEPT !.state = "COMPLETE",
                                                                 !.final = req[r].seen]]
    BY <1>1, <1>5 DEF Complete
  <2>3. [dispatch[f] EXCEPT !.state = "COMPLETE", !.final = req[r].seen] \in Dispatch
    BY <1>1 DEF Dispatch, DispatchState
  <2>4. dispatch' \in [Fingerprint -> Dispatch]
    BY <1>1, <2>2, <2>3
  <2>5. receipt' \in [Incident -> Receipt]
    <3>1. [fp |-> f, redelivery |-> req[r].evidence, final |-> req[r].seen] \in Receipt
      BY <1>1 DEF Receipt
    <3> QED BY <1>1, <1>5, <3>1 DEF Complete
  <2> QED BY <1>5, <2>1, <2>4, <2>5 DEF Complete, Typed, TypeOK, provider, outside
<1>6. CASE CompleteNot(r)
  <2> DEFINE s == IF receipt[i].fp # None THEN Replied(f, "COMPLETE") ELSE Idle
  <2>1. Become(r, s) /\ UNCHANGED <<database, posts, provider, outside>>
    BY <1>6 DEF CompleteNot
  <2>2. s \in RequestState /\ s.pc = "idle"
    BY <1>2, IdleType
  <2> QED BY <2>1, <2>2, RequestStepTyped
<1> QED BY <1>3, <1>4, <1>5, <1>6

\* The receiver's answers keep the types.
LEMMA AnswerTyped ==
  ASSUME Typed, NEW r \in Request, ReceiverAnswers(r) \/ Crash(r)
  PROVE  Typed'
<1>1. CASE ReceiverAnswers(r)
  <2>1. req[r] \in RequestState /\ req[r].fp \in Fingerprint
    BY <1>1, RequestTyped DEF ReceiverAnswers, At
  <2>2. mutations[IncidentOf[req[r].fp]] \in Nat
    BY <2>1 DEF Typed, TypeOK
  <2>3. PICK pc \in {"approveCommit", "executeCommit", "finalCommit"}, seen \in SUBSET Nat :
          Become(r, [req[r] EXCEPT !.pc = pc, !.seen = seen])
    <3> DEFINE n == mutations[IncidentOf[req[r].fp]]
               Answer(pc, seen) == Become(r, [req[r] EXCEPT !.pc = pc, !.seen = seen])
    <3>1. PICK step \in {<<"approveRead", "approveCommit">>,
                         <<"executeRead", "executeCommit">>,
                         <<"finalRead", "finalCommit">>} :
            \E answer \in {{n}, {}} : Answer(step[2], answer)
      BY <1>1 DEF ReceiverAnswers
    <3>2. PICK answer \in {{n}, {}} : Answer(step[2], answer)
      BY <3>1
    <3>3. step[2] \in {"approveCommit", "executeCommit", "finalCommit"}
      BY <3>1
    <3>4. answer \in SUBSET Nat
      BY <2>2, <3>2
    <3> QED BY <3>2, <3>3, <3>4
  <2> DEFINE s == [req[r] EXCEPT !.pc = pc, !.seen = seen]
  <2>4. pc \in PC
    BY DEF PC
  <2>5. s \in RequestState
    BY <2>1, <2>4, UpdateType
  <2>6. s.fp = req[r].fp
    BY <2>1 DEF RequestState
  <2>7. UNCHANGED <<database, posts, provider, outside>>
    BY <1>1 DEF ReceiverAnswers
  <2> QED BY <2>1, <2>3, <2>5, <2>6, <2>7, RequestStepTyped
<1>2. CASE Crash(r)
  <2>1. Become(r, Idle) /\ UNCHANGED <<database, posts, provider, outside>>
    BY <1>2 DEF Crash
  <2> QED BY <2>1, IdleType, RequestStepTyped
<1> QED BY <1>1, <1>2

\* Deliveries, drifts and crashes keep the types.
LEMMA WorldTyped ==
  ASSUME Typed, World
  PROVE  Typed'
<1>1. PICK i \in Incident : \/ ProviderDelivers(i) \/ ForeignRedelivery(i)
                            \/ CandidateDrifts(i) \/ ReceiverDrifts(i)
  BY DEF World
<1>2. BusyHasPermit' /\ req' \in [Request -> RequestState]
  BY <1>1 DEF ProviderDelivers, ForeignRedelivery, CandidateDrifts, ReceiverDrifts,
              Typed, TypeOK, BusyHasPermit, database
<1>3. CASE ProviderDelivers(i)
  <2>1. queued' \in [Incident -> Nat]
    BY <1>3 DEF ProviderDelivers, Typed, TypeOK
  <2>2. attempts' \in [Incident -> Seq([ok : BOOLEAN, after : SUBSET Fingerprint])]
    <3>1. PICK ok \in BOOLEAN :
            attempts' = [attempts EXCEPT ![i] =
                           Append(@, [ok |-> ok,
                                      after |-> {f \in Of(i) : dispatch[f].state # "NONE"}])]
      BY <1>3 DEF ProviderDelivers
    <3>2. {f \in Of(i) : dispatch[f].state # "NONE"} \in SUBSET Fingerprint
      BY DEF Of
    <3>3. [ok |-> ok, after |-> {f \in Of(i) : dispatch[f].state # "NONE"}]
            \in [ok : BOOLEAN, after : SUBSET Fingerprint]
      BY <3>2
    <3> DEFINE Attempt == [ok : BOOLEAN, after : SUBSET Fingerprint]
               made == [ok |-> ok, after |-> {f \in Of(i) : dispatch[f].state # "NONE"}]
    <3>4. attempts \in [Incident -> Seq(Attempt)] /\ made \in Attempt
      BY <3>3 DEF Typed, TypeOK
    <3>5. Append(attempts[i], made) \in Seq(Attempt)
      <4> HIDE DEF Attempt, made
      <4> QED BY <3>4
    <3> QED BY <3>1, <3>4, <3>5
  <2>3. mutations' \in [Incident -> Nat]
    BY <1>3 DEF ProviderDelivers, Typed, TypeOK
  <2> QED BY <1>2, <1>3, <2>1, <2>2, <2>3 DEF ProviderDelivers, Typed, TypeOK, database
<1>4. CASE ForeignRedelivery(i)
  <2>1. foreign' \in Nat /\ queued' \in [Incident -> Nat]
    BY <1>4 DEF ForeignRedelivery, Typed, TypeOK
  <2>2. UNCHANGED <<cand, permit, dispatch, receipt, posts, attempts, mutations, drifts>>
    BY <1>4 DEF ForeignRedelivery, database
  <2> QED BY <1>2, <2>1, <2>2 DEF Typed, TypeOK
<1>5. CASE CandidateDrifts(i)
  <2>1. drifts' \in Nat /\ cand' \in [Incident -> Fingerprint \union {None}]
    BY <1>5 DEF CandidateDrifts, Typed, TypeOK, Of
  <2>2. UNCHANGED <<permit, dispatch, receipt, posts, queued, attempts, mutations, foreign>>
    BY <1>5 DEF CandidateDrifts, provider
  <2> QED BY <1>2, <2>1, <2>2 DEF Typed, TypeOK
<1>6. CASE ReceiverDrifts(i)
  <2>1. drifts' \in Nat /\ mutations' \in [Incident -> Nat]
    BY <1>6 DEF ReceiverDrifts, Typed, TypeOK
  <2>2. UNCHANGED <<cand, permit, dispatch, receipt, posts, queued, attempts, foreign>>
    BY <1>6 DEF ReceiverDrifts, database, provider
  <2> QED BY <1>2, <2>1, <2>2 DEF Typed, TypeOK
<1> QED BY <1>1, <1>3, <1>4, <1>5, <1>6

------------------------------------------------------------------------------
(* The inductive invariant                                                 *)

\* From the consumption of the permit to the recorded outcome of the POST.
Sending == {"post", "postAccepted", "postRejected", "postLost"}

\* The states in which a redelivery may be on record.
Recorded == {"PROVIDER_VERIFIED", "COMPLETE", "FAILED"}

\* A permit is spent exactly when it has a dispatch row.
Spent == \A f \in Fingerprint : dispatch[f].state # "NONE" <=> permit[f] = "CONSUMED"

\* While a request sends, the row it wrote says DISPATCHING.
Fenced == \A r \in Request :
            req[r].pc \in Sending => dispatch[req[r].fp].state = "DISPATCHING"

\* No two requests send under one permit.
Exclusive == \A r, q \in Request :
               req[r].pc \in Sending /\ req[q].pc \in Sending /\ req[r].fp = req[q].fp
                 => r = q

\* A POST was sent under a spent permit only, and once.
SentOnce == \A f \in Fingerprint :
              posts[f] <= 1 /\ (posts[f] > 0 => permit[f] = "CONSUMED")

\* The request that is about to send is the first to do so.
Unsent == \A r \in Request : req[r].pc = "post" => posts[req[r].fp] = 0

\* No redelivery is on record before one was observed.
RecordedLate == \A f \in Fingerprint :
                  dispatch[f].redelivery # 0 => dispatch[f].state \in Recorded

Inv == /\ Typed
       /\ AtMostOnePermit
       /\ Spent
       /\ Fenced
       /\ Exclusive
       /\ SentOnce
       /\ Unsent
       /\ RecordedLate

\* Inv without what it says of types.
Safe == AtMostOnePermit /\ Spent /\ Fenced /\ Exclusive /\ SentOnce /\ Unsent /\ RecordedLate

\* Every step keeps the types.
LEMMA TypedNext ==
  ASSUME Typed, Fenced, [Next]_vars
  PROVE  Typed'
<1>1. CASE UNCHANGED vars
  BY <1>1 DEF vars, database, provider, outside, Typed, TypeOK, BusyHasPermit
<1>2. CASE World
  BY <1>2, WorldTyped
<1>3. ASSUME NEW r \in Request, Begin(r) \/ Crash(r) PROVE Typed'
  BY <1>3, BeginTyped, AnswerTyped
<1>4. ASSUME NEW r \in Request, Proceed(r) PROVE Typed'
  <2>1. (Rejected(r) \/ Lost(r) \/ Accepted(r)) => dispatch[req[r].fp].state # "NONE"
    BY DEF Rejected, Lost, Accepted, At, Fenced, Sending
  <2> QED
    BY <1>4, <2>1, PermitTyped, PostTyped, OutcomeTyped, PollTyped, ObservedTyped,
       FinalTyped, AnswerTyped DEF Proceed
<1> QED BY <1>1, <1>2, <1>3, <1>4 DEF Next

\* The initial state has no permit, no dispatch and no POST.
LEMMA InitSafe == Init => Safe
  BY IdleType DEF Init, Safe, AtMostOnePermit, Spent, Fenced, Exclusive, SentOnce, Unsent,
                  RecordedLate, Sending, NoDispatch

\* A request that does not send and leaves rows, permits and POSTs alone.
LEMMA QuietStep ==
  ASSUME Inv, NEW r \in Request, NEW s \in RequestState, Become(r, s),
         \/ s.pc \notin Sending
         \/ /\ req[r].pc \in Sending /\ s.pc \in Sending \ {"post"} /\ s.fp = req[r].fp,
         UNCHANGED <<permit, dispatch, posts>>
  PROVE  Safe'
<1>1. req' = [req EXCEPT ![r] = s] /\ req \in [Request -> RequestState]
  BY DEF Become, Inv, Typed, TypeOK
<1>2. Fenced'
  BY <1>1 DEF Inv, Fenced, Sending
<1>3. Exclusive'
  BY <1>1 DEF Inv, Exclusive, Sending
<1>4. Unsent'
  BY <1>1 DEF Inv, Unsent, Sending
<1>5. AtMostOnePermit' /\ Spent' /\ SentOnce' /\ RecordedLate'
  BY DEF Inv, AtMostOnePermit, Spent, SentOnce, RecordedLate
<1> QED BY <1>2, <1>3, <1>4, <1>5 DEF Safe

\* A request that changes one row: a row DISPATCHING only if it is the sender.
LEMMA RowStep ==
  ASSUME Inv, NEW r \in Request, NEW s \in RequestState, Become(r, s),
         s.pc \notin Sending,
         NEW f \in Fingerprint, NEW d \in Dispatch,
         dispatch' = [dispatch EXCEPT ![f] = d],
         d.state = "NONE" <=> dispatch[f].state = "NONE",
         \/ dispatch[f].state # "DISPATCHING"
         \/ d = dispatch[f]
         \/ req[r].pc \in Sending /\ req[r].fp = f,
         d.redelivery # 0 => d.state \in Recorded,
         UNCHANGED <<permit, posts>>
  PROVE  Safe'
<1>1. /\ req' = [req EXCEPT ![r] = s] /\ req \in [Request -> RequestState]
      /\ dispatch \in [Fingerprint -> Dispatch]
      /\ \A q \in Request : req[q].pc # "idle" => req[q].fp \in Fingerprint
  BY DEF Become, Inv, Typed, TypeOK, BusyHasPermit
<1>2. Fenced'
  <2> SUFFICES ASSUME NEW q \in Request, req'[q].pc \in Sending
               PROVE  dispatch'[req'[q].fp].state = "DISPATCHING"
    BY DEF Fenced
  <2>1. q # r /\ req'[q] = req[q]
    BY <1>1
  <2>2. dispatch[req[q].fp].state = "DISPATCHING" /\ req[q].fp \in Fingerprint
    BY <1>1, <2>1 DEF Inv, Fenced, Sending
  <2>3. CASE req[q].fp # f
    BY <1>1, <2>1, <2>2, <2>3
  <2>4. CASE req[q].fp = f
    <3>1. ~(req[r].pc \in Sending /\ req[r].fp = f)
      BY <2>1, <2>4 DEF Inv, Exclusive
    <3>2. d = dispatch[f]
      BY <2>2, <2>4, <3>1
    <3> QED BY <1>1, <2>1, <2>2, <3>2
  <2> QED BY <2>3, <2>4
<1>3. Exclusive' /\ Unsent'
  BY <1>1 DEF Inv, Exclusive, Unsent, Sending
<1>4. AtMostOnePermit' /\ SentOnce'
  BY DEF Inv, AtMostOnePermit, SentOnce
<1>5. Spent' /\ RecordedLate'
  BY <1>1 DEF Inv, Spent, RecordedLate
<1> QED BY <1>2, <1>3, <1>4, <1>5 DEF Safe

\* Calls that begin keep the safety part of the invariant.
LEMMA BeginSafe ==
  ASSUME Inv, NEW r \in Request, Begin(r) \/ Crash(r)
  PROVE  Safe'
<1>1. PICK s \in RequestState : Become(r, s) /\ s.pc \notin Sending
  <2>1. CASE Crash(r)
    BY <2>1, IdleType DEF Crash, Sending
  <2>2. CASE Begin(r)
    <3>1. PICK f \in Fingerprint : \/ ApproveBegin(r, f) \/ ExecuteExisting(r, f)
                                   \/ ExecuteBegin(r, f)
      BY <2>2 DEF Begin
    <3> DEFINE i == IncidentOf[f]
    <3>2. /\ i \in Incident /\ cand[i] \in Fingerprint \union {None}
          /\ dispatch[f] \in Dispatch
      BY DEF Inv, Typed, TypeOK
    <3>3. CASE ExecuteExisting(r, f)
      <4> DEFINE s == IF receipt[i].fp = f /\ cand[i] = f THEN Replied(f, "COMPLETE")
                      ELSE Continuation(f, cand[i], dispatch[f])
      <4>1. Become(r, s) /\ dispatch[f].state # "NONE"
        BY <3>3 DEF ExecuteExisting
      <4>2. "COMPLETE" \in DispatchState \ {"NONE"}
        BY DEF DispatchState
      <4>3. s \in RequestState /\ s.pc \in {"idle", "poll", "finalRead"}
        BY <3>2, <4>1, <4>2, RepliedType, ContinuationType
      <4> QED BY <4>1, <4>3 DEF Sending
    <3>4. CASE ApproveBegin(r, f) \/ ExecuteBegin(r, f)
      <4>1. PICK pc \in {"approveRead", "executeRead"} :
              Become(r, [Idle EXCEPT !.pc = pc, !.fp = f, !.cand = cand[i]])
        BY <3>4 DEF ApproveBegin, ExecuteBegin
      <4> DEFINE s == [Idle EXCEPT !.pc = pc, !.fp = f, !.cand = cand[i]]
      <4>2. pc \in PC
        BY DEF PC
      <4>3. s \in RequestState
        BY <3>2, <4>2, IdleType, WorkingType
      <4>4. s.pc = pc
        BY IdleType DEF RequestState
      <4> QED BY <4>1, <4>3, <4>4 DEF Sending
    <3> QED BY <3>1, <3>3, <3>4
  <2> QED BY <2>1, <2>2
<1>2. UNCHANGED <<permit, dispatch, posts>>
  BY DEF Begin, Crash, ApproveBegin, ExecuteExisting, ExecuteBegin, database
<1> QED BY <1>1, <1>2, QuietStep

\* The transactions that approve and consume a permit keep the safety part.
LEMMA PermitSafe ==
  ASSUME Inv, NEW r \in Request, ApproveCommit(r) \/ Consume(r) \/ ConsumeNot(r)
  PROVE  Safe'
<1> DEFINE f == req[r].fp
<1>1. /\ req[r] \in RequestState /\ f \in Fingerprint /\ dispatch[f] \in Dispatch
      /\ dispatch \in [Fingerprint -> Dispatch]
      /\ permit \in [Fingerprint -> PermitState] /\ posts \in [Fingerprint -> Nat]
      /\ req \in [Request -> RequestState]
      /\ \A q \in Request : req[q].pc # "idle" => req[q].fp \in Fingerprint
  BY RequestTyped DEF ApproveCommit, Consume, ConsumeNot, At, Inv, Typed, TypeOK, BusyHasPermit
<1>2. CASE ApproveCommit(r) /\ UNCHANGED permit
  <2>1. Become(r, Idle) /\ UNCHANGED <<dispatch, posts>>
    BY <1>2 DEF ApproveCommit
  <2> QED BY <1>2, <2>1, IdleType, QuietStep DEF Sending
<1>3. CASE ApproveCommit(r) /\ Approvable(r) /\ permit' = [permit EXCEPT ![f] = "APPROVED"]
  <2>1. permit[f] = "NONE" /\ \A g \in Fingerprint :
          IncidentOf[g] = IncidentOf[f] => permit[g] = "NONE"
    BY <1>1, <1>3 DEF Approvable, Permits, Of
  <2>2. /\ req' = [req EXCEPT ![r] = Idle] /\ UNCHANGED <<dispatch, posts>>
        /\ Idle.pc \notin Sending
    BY <1>3, IdleType DEF ApproveCommit, Become, Sending
  <2>3. AtMostOnePermit'
    BY <1>1, <1>3, <2>1 DEF Inv, AtMostOnePermit
  <2>4. Spent' /\ SentOnce' /\ RecordedLate'
    BY <1>1, <1>3, <2>1, <2>2 DEF Inv, Spent, SentOnce, RecordedLate
  <2>5. Fenced' /\ Exclusive' /\ Unsent'
    BY <1>1, <2>2 DEF Inv, Fenced, Exclusive, Unsent, Sending
  <2> QED BY <2>3, <2>4, <2>5 DEF Safe
<1>4. CASE Consume(r)
  <2> DEFINE s == [req[r] EXCEPT !.pc = "post"]
             d == [NoDispatch EXCEPT !.state = "DISPATCHING"]
  <2>1. /\ permit[f] = "APPROVED" /\ dispatch[f].state = "NONE"
        /\ permit' = [permit EXCEPT ![f] = "CONSUMED"]
        /\ dispatch' = [dispatch EXCEPT ![f] = d]
        /\ req' = [req EXCEPT ![r] = s] /\ UNCHANGED posts
    BY <1>4 DEF Consume, Consumable, Become
  <2>2. d.state = "DISPATCHING" /\ d.redelivery = 0
    BY DEF NoDispatch
  <2>3. s.pc = "post" /\ s.fp = f
    BY <1>1 DEF RequestState
  <2>4. \A q \in Request : req[q].pc \in Sending => req[q].fp # f
    BY <2>1 DEF Inv, Fenced
  <2>5. AtMostOnePermit'
    BY <1>1, <2>1 DEF Inv, AtMostOnePermit
  <2>6. Spent' /\ RecordedLate'
    BY <1>1, <2>1, <2>2 DEF Inv, Spent, RecordedLate
  <2>7. SentOnce'
    BY <1>1, <2>1 DEF Inv, SentOnce
  <2>8. Fenced'
    BY <1>1, <2>1, <2>2, <2>3, <2>4 DEF Inv, Fenced, Sending
  <2>9. Exclusive'
    BY <1>1, <2>1, <2>3, <2>4 DEF Inv, Exclusive, Sending
  <2>10. Unsent'
    <3>1. ~(posts[f] > 0) /\ posts[f] \in Nat
      BY <1>1, <2>1 DEF Inv, SentOnce
    <3>2. posts[f] = 0
      BY <3>1
    <3> QED BY <1>1, <2>1, <2>3, <3>2 DEF Inv, Unsent
  <2> QED BY <2>5, <2>6, <2>7, <2>8, <2>9, <2>10 DEF Safe
<1>5. CASE ConsumeNot(r)
  <2> DEFINE s == IF Fresh(r) /\ dispatch[f].state # "NONE"
                  THEN Continuation(f, req[r].cand, dispatch[f]) ELSE Idle
  <2>1. req[r].cand \in Fingerprint \union {None}
    BY <1>1 DEF RequestState
  <2>2. s \in RequestState /\ s.pc \notin Sending
    BY <1>1, <2>1, IdleType, ContinuationType DEF Sending
  <2>3. Become(r, s) /\ UNCHANGED <<permit, dispatch, posts>>
    BY <1>5 DEF ConsumeNot, database
  <2> QED BY <2>2, <2>3, QuietStep
<1> QED BY <1>2, <1>3, <1>4, <1>5 DEF ApproveCommit

\* The redelivery POST, sent or not, keeps the safety part.
LEMMA PostSafe ==
  ASSUME Inv, NEW r \in Request, PostReaches(r) \/ PostNeverSent(r)
  PROVE  Safe'
<1> DEFINE f == req[r].fp
           Sent == {"postAccepted", "postRejected", "postLost"}
<1>1. /\ req[r] \in RequestState /\ f \in Fingerprint /\ req[r].pc = "post"
      /\ req \in [Request -> RequestState] /\ posts \in [Fingerprint -> Nat]
      /\ \A q \in Request : req[q].pc # "idle" => req[q].fp \in Fingerprint
  BY RequestTyped DEF PostReaches, PostNeverSent, At, Inv, Typed, TypeOK, BusyHasPermit
<1>2. \A pc \in Sent : /\ [req[r] EXCEPT !.pc = pc] \in RequestState
                       /\ [req[r] EXCEPT !.pc = pc].pc = pc
                       /\ [req[r] EXCEPT !.pc = pc].fp = f
  <2>1. Sent \subseteq PC
    BY DEF PC
  <2>2. \A pc \in Sent : [req[r] EXCEPT !.pc = pc] \in RequestState
    BY <1>1, <2>1, UpdateType
  <2>3. \A pc \in Sent : /\ [req[r] EXCEPT !.pc = pc].pc = pc
                         /\ [req[r] EXCEPT !.pc = pc].fp = f
    BY <1>1 DEF RequestState
  <2> QED BY <2>2, <2>3
<1>3. CASE PostNeverSent(r)
  <2>1. UNCHANGED <<permit, dispatch, posts>>
    BY <1>3 DEF PostNeverSent, database
  <2>2. PICK s \in RequestState :
          /\ Become(r, s)
          /\ s.pc \notin Sending \/ (s.pc \in Sending \ {"post"} /\ s.fp = f)
    BY <1>2, <1>3, IdleType DEF PostNeverSent, Sending
  <2> QED BY <1>1, <2>1, <2>2, QuietStep DEF Sending
<1>4. CASE PostReaches(r)
  <2>1. PICK outcome \in Sent : Become(r, [req[r] EXCEPT !.pc = outcome])
    BY <1>4 DEF PostReaches
  <2> DEFINE s == [req[r] EXCEPT !.pc = outcome]
  <2>2. /\ req' = [req EXCEPT ![r] = s] /\ s.pc \in Sending \ {"post"} /\ s.fp = f
        /\ s \in RequestState
    BY <1>2, <2>1 DEF Become, Sending
  <2>3. posts' = [posts EXCEPT ![f] = @ + 1] /\ UNCHANGED <<permit, dispatch>>
    BY <1>4 DEF PostReaches, database
  <2>4. posts[f] = 0 /\ dispatch[f].state = "DISPATCHING" /\ permit[f] = "CONSUMED"
    BY <1>1 DEF Inv, Unsent, Fenced, Spent, Sending
  <2>5. AtMostOnePermit' /\ Spent' /\ RecordedLate'
    BY <2>3 DEF Inv, AtMostOnePermit, Spent, RecordedLate
  <2>6. SentOnce'
    BY <1>1, <2>3, <2>4 DEF Inv, SentOnce
  <2>7. Fenced' /\ Exclusive'
    <3> HIDE DEF s
    <3> QED BY <1>1, <2>2, <2>3 DEF Inv, Fenced, Exclusive, Sending
  <2>8. Unsent'
    <3>1. \A q \in Request : q # r /\ req[q].pc = "post" => req[q].fp # f
      BY <1>1 DEF Inv, Exclusive, Sending
    <3> HIDE DEF s
    <3> QED BY <1>1, <2>2, <2>3, <3>1 DEF Inv, Unsent
  <2> QED BY <2>5, <2>6, <2>7, <2>8 DEF Safe
<1> QED BY <1>3, <1>4

\* Recording what the POST answered keeps the safety part.
LEMMA OutcomeSafe ==
  ASSUME Inv, NEW r \in Request, Rejected(r) \/ Lost(r) \/ Accepted(r)
  PROVE  Safe'
<1> DEFINE f == req[r].fp
           d(to) == Transition(dispatch[f], "DISPATCHING", to, 0)
<1>1. /\ req[r] \in RequestState /\ f \in Fingerprint /\ dispatch[f] \in Dispatch
      /\ dispatch \in [Fingerprint -> Dispatch]
      /\ req[r].cand \in Fingerprint \union {None}
      /\ req[r].pc \in Sending
  BY RequestTyped DEF Rejected, Lost, Accepted, At, Inv, Typed, TypeOK, Sending, RequestState
<1>2. dispatch[f].state = "DISPATCHING" /\ dispatch[f].redelivery = 0
  BY <1>1 DEF Inv, Fenced, RecordedLate, Recorded
<1>3. {"FAILED", "OUTCOME_UNKNOWN", "DISPATCHED"} \subseteq DispatchState \ {"NONE"}
  BY DEF DispatchState
<1>4. \A to \in {"FAILED", "OUTCOME_UNKNOWN", "DISPATCHED"} :
        d(to) \in Dispatch /\ d(to).state = to /\ d(to).redelivery = 0
  BY <1>1, <1>2, <1>3, TransitionType
<1>5. PICK to \in {"FAILED", "OUTCOME_UNKNOWN", "DISPATCHED"}, s \in RequestState :
        /\ dispatch' = [dispatch EXCEPT ![f] = d(to)]
        /\ Become(r, s)
        /\ s.pc \notin Sending
  <2>1. CASE Rejected(r)
    <3>1. Replied(f, "FAILED") \in RequestState /\ Replied(f, "FAILED").pc = "idle"
      BY <1>1, <1>3, RepliedType
    <3> QED BY <2>1, <3>1 DEF Rejected, Sending
  <2>2. CASE Lost(r)
    <3>1. /\ Replied(f, "OUTCOME_UNKNOWN") \in RequestState
          /\ Replied(f, "OUTCOME_UNKNOWN").pc = "idle"
      BY <1>1, <1>3, RepliedType
    <3> QED BY <2>2, <3>1 DEF Lost, Sending
  <2>3. CASE Accepted(r)
    <3>1. dispatch' = [dispatch EXCEPT ![f] = d("DISPATCHED")]
      BY <2>3 DEF Accepted
    <3>2. dispatch'[f] = d("DISPATCHED")
      BY <1>1, <3>1
    <3> DEFINE s == Continuation(f, req[r].cand, d("DISPATCHED"))
    <3>3. Become(r, s)
      BY <2>3, <3>2 DEF Accepted
    <3>4. s \in RequestState /\ s.pc \in {"idle", "poll", "finalRead"}
      BY <1>1, <1>4, ContinuationType
    <3>5. s.pc \notin Sending
      BY <3>4 DEF Sending
    <3> HIDE DEF s
    <3> QED BY <3>1, <3>3, <3>4, <3>5
  <2> QED BY <2>1, <2>2, <2>3
<1>6. UNCHANGED <<permit, posts>>
  BY DEF Rejected, Lost, Accepted
<1>7. d(to).state # "NONE" /\ d(to).redelivery = 0 /\ d(to) \in Dispatch
  BY <1>3, <1>4
<1> HIDE DEF d
<1> QED BY <1>1, <1>2, <1>5, <1>6, <1>7, RowStep

\* The polls of the delivery list keep the safety part.
LEMMA PollSafe ==
  ASSUME Inv, NEW r \in Request,
         PollAgain(r) \/ PollFinds(r) \/ PollUnreadable(r) \/ PollGivesUp(r)
  PROVE  Safe'
<1>1. /\ req[r] \in RequestState /\ req[r].pc = "poll" /\ Typed'
      /\ req \in [Request -> RequestState]
  BY RequestTyped, PollTyped DEF PollAgain, PollFinds, PollUnreadable, PollGivesUp, At,
                                 Inv, Typed, TypeOK
<1>2. PICK s : Become(r, s) /\ s.pc \in {"poll", "observed"}
  <2>1. CASE PollAgain(r)
    BY <1>1, <2>1 DEF PollAgain, RequestState
  <2>2. CASE PollFinds(r) \/ PollUnreadable(r) \/ PollGivesUp(r)
    <3>1. PICK k : Become(r, [req[r] EXCEPT !.pc = "observed", !.evidence = k])
      BY <2>2 DEF PollFinds, PollUnreadable, PollGivesUp
    <3>2. [req[r] EXCEPT !.pc = "observed", !.evidence = k].pc = "observed"
      BY <1>1 DEF RequestState
    <3> QED BY <3>1, <3>2
  <2> QED BY <2>1, <2>2
<1>3. s \in RequestState
  BY <1>1, <1>2 DEF Become, Typed, TypeOK
<1>4. UNCHANGED <<permit, dispatch, posts>>
  BY DEF PollAgain, PollFinds, PollUnreadable, PollGivesUp, database
<1> QED BY <1>2, <1>3, <1>4, QuietStep DEF Sending

\* Recording what the polls observed keeps the safety part.
LEMMA ObservedSafe ==
  ASSUME Inv, NEW r \in Request, ObservedNothing(r) \/ ObservedSuccess(r)
  PROVE  Safe'
<1> DEFINE f == req[r].fp
<1>1. /\ req[r] \in RequestState /\ f \in Fingerprint /\ dispatch[f] \in Dispatch
      /\ dispatch \in [Fingerprint -> Dispatch]
      /\ req \in [Request -> RequestState]
      /\ req[r].evidence \in Nat /\ req[r].row # "NONE" /\ req[r].row # "DISPATCHING"
      /\ Typed'
  BY RequestTyped, ObservedTyped DEF ObservedNothing, ObservedSuccess, At, Inv, Typed, TypeOK,
                                     RequestState
<1>2. dispatch[f].redelivery # 0 => dispatch[f].state \in Recorded
  BY <1>1 DEF Inv, RecordedLate
<1>3. {"FAILED", "OUTCOME_UNKNOWN", "PROVIDER_VERIFIED"} \subseteq DispatchState \ {"NONE"}
  BY DEF DispatchState
<1>4. PICK d \in Dispatch :
        /\ dispatch' = [dispatch EXCEPT ![f] = d]
        /\ d = dispatch[f] \/ (/\ dispatch[f].state \notin {"NONE", "DISPATCHING"}
                               /\ d.state \in Recorded)
  <2>1. CASE ObservedNothing(r)
    <3> DEFINE d == IF req[r].row = "DISPATCHED"
                      THEN Transition(dispatch[f], "DISPATCHED", "FAILED", 0)
                      ELSE dispatch[f]
    <3>1. dispatch' = [dispatch EXCEPT ![f] = d]
      BY <2>1 DEF ObservedNothing
    <3>2. d \in Dispatch /\ (d = dispatch[f] \/ (/\ dispatch[f].state = "DISPATCHED"
                                                 /\ d.state = "FAILED"))
      BY <1>1, <1>3, TransitionType
    <3> HIDE DEF d
    <3> QED BY <3>1, <3>2 DEF Recorded
  <2>2. CASE ObservedSuccess(r)
    <3> DEFINE d == Transition(dispatch[f], req[r].row, "PROVIDER_VERIFIED", req[r].evidence)
    <3>1. dispatch' = [dispatch EXCEPT ![f] = d]
      BY <2>2 DEF ObservedSuccess
    <3>2. d \in Dispatch /\ (d = dispatch[f] \/ (/\ dispatch[f].state = req[r].row
                                                 /\ d.state = "PROVIDER_VERIFIED"))
      BY <1>1, <1>3, TransitionType
    <3> HIDE DEF d
    <3> QED BY <1>1, <3>1, <3>2 DEF Recorded
  <2> QED BY <2>1, <2>2
<1>5. PICK s : Become(r, s) /\ s.pc \notin Sending
  <2>1. Idle.pc \notin Sending
    BY IdleType DEF Sending
  <2>2. \A o \in DispatchState \ {"NONE"} : Replied(f, o).pc \notin Sending
    BY <1>1, RepliedType DEF Sending
  <2>3. \A k : [Idle EXCEPT !.pc = "finalRead", !.fp = f, !.cand = req[r].cand,
                            !.evidence = k].pc = "finalRead"
    BY IdleType DEF RequestState
  <2>4. CASE ObservedNothing(r)
    BY <1>3, <2>2, <2>4 DEF ObservedNothing
  <2>5. CASE ObservedSuccess(r)
    BY <2>1, <2>3, <2>5 DEF ObservedSuccess, Sending
  <2> QED BY <2>4, <2>5
<1>6. s \in RequestState
  BY <1>1, <1>5 DEF Become, Typed, TypeOK
<1>7. UNCHANGED <<permit, posts>>
  BY DEF ObservedNothing, ObservedSuccess
<1>8. d.state = "NONE" <=> dispatch[f].state = "NONE"
  BY <1>4 DEF Recorded
<1>9. d.redelivery # 0 => d.state \in Recorded
  BY <1>2, <1>4
<1> QED BY <1>1, <1>4, <1>5, <1>6, <1>7, <1>8, <1>9, RowStep

\* The final receiver read and the completion keep the safety part.
LEMMA FinalSafe ==
  ASSUME Inv, NEW r \in Request,
         FinalUnread(r) \/ FinalMismatch(r) \/ Complete(r) \/ CompleteNot(r)
  PROVE  Safe'
<1> DEFINE f == req[r].fp
<1>1. /\ req[r] \in RequestState /\ f \in Fingerprint /\ dispatch[f] \in Dispatch
      /\ dispatch \in [Fingerprint -> Dispatch]
      /\ req \in [Request -> RequestState]
      /\ req[r].seen \in SUBSET Nat
      /\ Typed'
  BY RequestTyped, FinalTyped DEF FinalUnread, FinalMismatch, Complete, CompleteNot, At, Inv,
                                  Typed, TypeOK, RequestState
<1>2. dispatch[f].redelivery # 0 => dispatch[f].state \in Recorded
  BY <1>1 DEF Inv, RecordedLate
<1>3. PICK s : Become(r, s) /\ s.pc \notin Sending
  <2>1. Idle.pc \notin Sending
    BY IdleType DEF Sending
  <2>2. \A o \in {"FAILED", "PROVIDER_VERIFIED", "COMPLETE"} : Replied(f, o).pc \notin Sending
    <3>1. {"FAILED", "PROVIDER_VERIFIED", "COMPLETE"} \subseteq DispatchState \ {"NONE"}
      BY DEF DispatchState
    <3> QED BY <1>1, <3>1, RepliedType DEF Sending
  <2> QED BY <2>1, <2>2 DEF FinalUnread, FinalMismatch, Complete, CompleteNot
<1>4. s \in RequestState
  BY <1>1, <1>3 DEF Become, Typed, TypeOK
<1>5. UNCHANGED <<permit, posts>>
  BY DEF FinalUnread, FinalMismatch, Complete, CompleteNot, database
<1>6. PICK d \in Dispatch :
        /\ dispatch' = [dispatch EXCEPT ![f] = d]
        /\ d = dispatch[f] \/ (/\ dispatch[f].state \notin {"NONE", "DISPATCHING"}
                               /\ d.state \in Recorded)
  <2>1. CASE FinalUnread(r) \/ CompleteNot(r)
    BY <1>1, <2>1 DEF FinalUnread, CompleteNot, database
  <2>2. CASE FinalMismatch(r)
    <3> DEFINE row == dispatch[f]
               d == IF row.state = "PROVIDER_VERIFIED"
                      THEN [row EXCEPT !.state = "FAILED", !.final = req[r].seen] ELSE row
    <3>1. dispatch' = [dispatch EXCEPT ![f] = d]
      BY <2>2 DEF FinalMismatch
    <3>2. d \in Dispatch /\ (d = row \/ (/\ row.state = "PROVIDER_VERIFIED"
                                         /\ d.state = "FAILED"))
      BY <1>1 DEF Dispatch, DispatchState
    <3> HIDE DEF d
    <3> QED BY <3>1, <3>2 DEF Recorded
  <2>3. CASE Complete(r)
    <3> DEFINE d == [dispatch[f] EXCEPT !.state = "COMPLETE", !.final = req[r].seen]
    <3>1. dispatch' = [dispatch EXCEPT ![f] = d] /\ dispatch[f].state = "PROVIDER_VERIFIED"
      BY <1>1, <2>3 DEF Complete
    <3>2. d \in Dispatch /\ d.state = "COMPLETE"
      BY <1>1 DEF Dispatch, DispatchState
    <3> HIDE DEF d
    <3> QED BY <3>1, <3>2 DEF Recorded
  <2> QED BY <2>1, <2>2, <2>3
<1>7. d.state = "NONE" <=> dispatch[f].state = "NONE"
  BY <1>6 DEF Recorded
<1>8. d.redelivery # 0 => d.state \in Recorded
  BY <1>2, <1>6
<1> QED BY <1>1, <1>3, <1>4, <1>5, <1>6, <1>7, <1>8, RowStep

\* The receiver's answers keep the safety part.
LEMMA AnswerSafe ==
  ASSUME Inv, NEW r \in Request, ReceiverAnswers(r)
  PROVE  Safe'
<1>1. req[r] \in RequestState /\ req \in [Request -> RequestState] /\ Typed'
  BY RequestTyped, AnswerTyped DEF Inv, Typed, TypeOK
<1>2. PICK s : Become(r, s) /\ s.pc \in {"approveCommit", "executeCommit", "finalCommit"}
  <2> DEFINE Answer(pc, seen) == Become(r, [req[r] EXCEPT !.pc = pc, !.seen = seen])
  <2>1. PICK step \in {<<"approveRead", "approveCommit">>,
                       <<"executeRead", "executeCommit">>,
                       <<"finalRead", "finalCommit">>} :
          \E answer : Answer(step[2], answer)
    BY DEF ReceiverAnswers
  <2>2. PICK answer : Answer(step[2], answer)
    BY <2>1
  <2>3. [req[r] EXCEPT !.pc = step[2], !.seen = answer].pc = step[2]
    BY <1>1 DEF RequestState
  <2>4. step[2] \in {"approveCommit", "executeCommit", "finalCommit"}
    BY <2>1
  <2> QED BY <2>2, <2>3, <2>4
<1>3. s \in RequestState
  BY <1>1, <1>2 DEF Become, Typed, TypeOK
<1>4. UNCHANGED <<permit, dispatch, posts>>
  BY DEF ReceiverAnswers, database
<1> QED BY <1>2, <1>3, <1>4, QuietStep DEF Sending

\* Every step keeps the safety part of the invariant.
LEMMA SafeNext ==
  ASSUME Inv, [Next]_vars
  PROVE  Safe'
<1>1. CASE World \/ UNCHANGED vars
  <2>1. UNCHANGED <<permit, dispatch, posts, req>>
    BY <1>1 DEF World, ProviderDelivers, ForeignRedelivery, CandidateDrifts, ReceiverDrifts,
                database, vars
  <2> QED BY <2>1 DEF Inv, Safe, AtMostOnePermit, Spent, Fenced, Exclusive, SentOnce, Unsent,
                      RecordedLate
<1>2. ASSUME NEW r \in Request, Begin(r) \/ Crash(r) PROVE Safe'
  BY <1>2, BeginSafe
<1>3. ASSUME NEW r \in Request, Proceed(r) PROVE Safe'
  BY <1>3, PermitSafe, PostSafe, OutcomeSafe, PollSafe, ObservedSafe, FinalSafe, AnswerSafe
     DEF Proceed
<1> QED BY <1>1, <1>2, <1>3 DEF Next

------------------------------------------------------------------------------
(* The theorems                                                            *)

\* The inductive invariant holds in every reachable state.
THEOREM Invariance == Spec => []Inv
<1>1. Init => Inv
  BY TypedInit, InitSafe DEF Inv, Safe
<1>2. Inv /\ [Next]_vars => Inv'
  <2> SUFFICES ASSUME Inv, [Next]_vars PROVE Inv'
    OBVIOUS
  <2>1. Typed'
    BY TypedNext DEF Inv
  <2>2. Safe'
    BY SafeNext
  <2> QED BY <2>1, <2>2 DEF Inv, Safe
<1> QED BY <1>1, <1>2, PTL DEF Spec

\* Every reachable state is well typed (requests, rows, permits, provider).
THEOREM TypeCorrect == Spec => []TypeOK
<1>1. Inv => TypeOK
  BY DEF Inv, Typed
<1> QED BY <1>1, Invariance, PTL

\* An incident has at most one permit, whatever requests approve it at once:
\* the latest-permit check repeated in approve()'s transaction is enough.
THEOREM OnePermit == Spec => []AtMostOnePermit
<1>1. Inv => AtMostOnePermit
  BY DEF Inv
<1> QED BY <1>1, Invariance, PTL

\* GitHub is asked at most once for a redelivery of an incident's delivery, for
\* any number of concurrent, repeated and crashing execute() calls.
THEOREM OneRedelivery == Spec => []AtMostOneRedelivery
<1>1. Inv => AtMostOneRedelivery
  <2> SUFFICES ASSUME Inv, NEW f \in Fingerprint, NEW g \in Fingerprint,
                      posts[f] > 0, posts[g] > 0, IncidentOf[f] = IncidentOf[g]
               PROVE  f = g /\ posts[f] = 1
    BY DEF AtMostOneRedelivery
  <2>1. permit[f] = "CONSUMED" /\ permit[g] = "CONSUMED" /\ posts[f] <= 1 /\ posts[f] \in Nat
    BY DEF Inv, SentOnce, Typed, TypeOK
  <2>2. f = g
    BY <2>1 DEF Inv, AtMostOnePermit
  <2> QED BY <2>1, <2>2
<1> QED BY <1>1, Invariance, PTL

\* GitHub is asked only under a row that says DISPATCHING and a spent permit.
THEOREM PostFenced == Spec => PostIsFenced
<1>1. Inv /\ [Next]_vars =>
        [\A f \in Fingerprint :
           posts'[f] # posts[f] => /\ dispatch[f].state = "DISPATCHING"
                                   /\ permit[f] = "CONSUMED"]_vars
  <2> SUFFICES ASSUME Inv, Next, NEW f \in Fingerprint, posts'[f] # posts[f]
               PROVE  dispatch[f].state = "DISPATCHING" /\ permit[f] = "CONSUMED"
    OBVIOUS
  <2>1. PICK r \in Request : PostReaches(r)
    <3>1. posts' # posts
      OBVIOUS
    <3> QED
      BY <3>1 DEF Next, Begin, Proceed, World, ApproveBegin, ExecuteExisting, ExecuteBegin, ReceiverAnswers,
         ApproveCommit, Consume, ConsumeNot, PostNeverSent, Rejected, Lost, Accepted,
         PollAgain, PollFinds, PollUnreadable, PollGivesUp, ObservedNothing, ObservedSuccess,
         FinalUnread, FinalMismatch, Complete, CompleteNot, Crash, ProviderDelivers,
         ForeignRedelivery, CandidateDrifts, ReceiverDrifts
  <2>2. req[r].pc = "post" /\ req[r].fp \in Fingerprint
    BY <2>1, RequestTyped DEF PostReaches, At, Inv
  <2>3. f = req[r].fp
    BY <2>1, <2>2 DEF PostReaches, Inv, Typed, TypeOK
  <2> QED BY <2>2, <2>3 DEF Inv, Fenced, Spent, Sending
<1> QED BY <1>1, Invariance, PTL DEF Spec, PostIsFenced

\* A permit is spent on the very state it was approved for.
THEOREM SpentAsApproved == Spec => SpentOnApprovedState
<1>1. Inv /\ [Next]_vars =>
        [\A f \in Fingerprint :
           permit[f] = "APPROVED" /\ permit'[f] = "CONSUMED"
             => cand[IncidentOf[f]] = f]_vars
  <2> SUFFICES ASSUME Inv, Next, NEW f \in Fingerprint,
                      permit[f] = "APPROVED", permit'[f] = "CONSUMED"
               PROVE  cand[IncidentOf[f]] = f
    OBVIOUS
  <2>1. PICK r \in Request : ApproveCommit(r) \/ Consume(r)
    <3>1. permit' # permit
      OBVIOUS
    <3> QED
      BY <3>1 DEF Next, Begin, Proceed, World, ApproveBegin, ExecuteExisting, ExecuteBegin, ReceiverAnswers,
         ConsumeNot, PostReaches, PostNeverSent, Rejected, Lost, Accepted,
         PollAgain, PollFinds, PollUnreadable, PollGivesUp, ObservedNothing, ObservedSuccess,
         FinalUnread, FinalMismatch, Complete, CompleteNot, Crash, ProviderDelivers,
         ForeignRedelivery, CandidateDrifts, ReceiverDrifts, database
  <2>2. permit \in [Fingerprint -> PermitState] /\ req[r].fp \in Fingerprint
    BY <2>1, RequestTyped DEF ApproveCommit, Consume, At, Inv, Typed, TypeOK
  <2>3. CASE ApproveCommit(r)
    BY <2>2, <2>3 DEF ApproveCommit
  <2>4. CASE Consume(r)
    <3>1. f = req[r].fp
      BY <2>2, <2>4 DEF Consume
    <3> QED BY <2>4, <3>1 DEF Consume, Consumable, Fresh
  <2> QED BY <2>1, <2>3, <2>4
<1> QED BY <1>1, Invariance, PTL DEF Spec, SpentOnApprovedState

------------------------------------------------------------------------------
(* The kinds of steps, and the permit gate                                 *)

Approves(f) == /\ permit[f] = "NONE"
               /\ permit' = [permit EXCEPT ![f] = "APPROVED"]
               /\ UNCHANGED <<dispatch, posts>>

Dispatches(f) == /\ permit[f] = "APPROVED"
                 /\ permit' = [permit EXCEPT ![f] = "CONSUMED"]
                 /\ dispatch[f].state = "NONE"
                 /\ dispatch[f].redelivery = 0
                 /\ \E d \in Dispatch : /\ dispatch' = [dispatch EXCEPT ![f] = d]
                                        /\ d.state = "DISPATCHING"
                 /\ UNCHANGED posts

Sends(f) == /\ dispatch[f].state = "DISPATCHING"
            /\ permit[f] = "CONSUMED"
            /\ posts[f] = 0
            /\ posts' = [posts EXCEPT ![f] = 1]
            /\ UNCHANGED <<permit, dispatch>>

Moves(f) == /\ dispatch[f].state \notin {"NONE"} \union Terminal
            /\ permit[f] = "CONSUMED"
            /\ \E d \in Dispatch :
                 /\ dispatch' = [dispatch EXCEPT ![f] = d]
                 /\ d.state # "NONE"
                 /\ dispatch[f].redelivery # 0 => d.redelivery = dispatch[f].redelivery
            /\ UNCHANGED <<permit, posts>>

Rests == UNCHANGED <<permit, dispatch, posts>>

------------------------------------------------------------------------------
\* What a request that holds the fingerprint of its permit may rely on.
LEMMA BusyFacts ==
  ASSUME Inv, NEW r \in Request, req[r].pc # "idle"
  PROVE  LET f == req[r].fp IN
         /\ f \in Fingerprint
         /\ dispatch[f] \in Dispatch /\ dispatch \in [Fingerprint -> Dispatch]
         /\ permit \in [Fingerprint -> PermitState] /\ posts \in [Fingerprint -> Nat]
         /\ dispatch[f].state # "NONE" <=> permit[f] = "CONSUMED"
         /\ dispatch[f].redelivery # 0 => dispatch[f].state \in Recorded
         /\ req[r].pc \in Sending => dispatch[f].state = "DISPATCHING"
         /\ req[r].pc = "post" => posts[f] = 0
         /\ req[r].row \notin {"NONE", "DISPATCHING"} \union Recorded
         /\ req[r].evidence \in Nat /\ req[r].seen \in SUBSET Nat
<1>1. req[r] \in RequestState /\ req[r].fp \in Fingerprint
  BY RequestTyped DEF Inv
<1>2. /\ req[r].row \notin {"NONE", "DISPATCHING"} \union Recorded
      /\ req[r].evidence \in Nat /\ req[r].seen \in SUBSET Nat
  BY <1>1 DEF RequestState, Recorded
<1>3. /\ dispatch[req[r].fp] \in Dispatch /\ dispatch \in [Fingerprint -> Dispatch]
      /\ permit \in [Fingerprint -> PermitState] /\ posts \in [Fingerprint -> Nat]
  BY <1>1 DEF Inv, Typed, TypeOK
<1> QED BY <1>1, <1>2, <1>3 DEF Inv, Spent, RecordedLate, Fenced, Unsent

\* A transition from a state that is not terminal moves a row or leaves it.
LEMMA TransitionKind ==
  ASSUME Inv, NEW f \in Fingerprint, NEW from, NEW to \in DispatchState \ {"NONE"},
         NEW n \in Nat, from \notin {"NONE"} \union Recorded,
         dispatch' = [dispatch EXCEPT ![f] = Transition(dispatch[f], from, to, n)],
         UNCHANGED <<permit, posts>>
  PROVE  Moves(f) \/ Rests
<1> DEFINE d == Transition(dispatch[f], from, to, n)
<1>1. dispatch[f] \in Dispatch /\ dispatch \in [Fingerprint -> Dispatch]
  BY DEF Inv, Typed, TypeOK
<1>2. d \in Dispatch
  BY <1>1, TransitionType
<1>3. CASE dispatch[f].state # from
  <2>1. d = dispatch[f]
    BY <1>1, <1>3, TransitionType
  <2>2. dispatch' = [dispatch EXCEPT ![f] = dispatch[f]]
    BY <2>1
  <2>3. dispatch' = dispatch
    BY <1>1, <2>2
  <2> QED BY <2>3 DEF Rests
<1>4. CASE dispatch[f].state = from
  <2>1. dispatch[f].redelivery = 0 /\ permit[f] = "CONSUMED"
    BY <1>4 DEF Inv, RecordedLate, Spent
  <2>2. d.state = to
    BY <1>1, <1>4, TransitionType
  <2>3. dispatch' = [dispatch EXCEPT ![f] = d] /\ dispatch[f].state \notin {"NONE"} \union Terminal
    BY <1>4 DEF Recorded, Terminal
  <2>4. d.state # "NONE"
    BY <2>2
  <2> HIDE DEF d
  <2> QED BY <1>2, <2>1, <2>3, <2>4 DEF Moves
<1> QED BY <1>3, <1>4

\* Every step of Redrive is of one of the kinds.
LEMMA StepKinds ==
  ASSUME Inv, [Next]_vars
  PROVE  \/ Rests
         \/ \E f \in Fingerprint : Approves(f) \/ Dispatches(f) \/ Sends(f) \/ Moves(f)
<1>1. CASE World \/ UNCHANGED vars
  BY <1>1 DEF World, ProviderDelivers, ForeignRedelivery, CandidateDrifts, ReceiverDrifts,
              database, vars, Rests
<1>2. ASSUME NEW r \in Request, Begin(r) \/ Crash(r) PROVE Rests
  BY <1>2 DEF Begin, Crash, ApproveBegin, ExecuteExisting, ExecuteBegin, database, Rests
<1>3. ASSUME NEW r \in Request, Proceed(r)
      PROVE  \/ Rests
             \/ \E f \in Fingerprint : Approves(f) \/ Dispatches(f) \/ Sends(f) \/ Moves(f)
  <2> DEFINE f == req[r].fp
  <2>1. CASE ReceiverAnswers(r) \/ ConsumeNot(r) \/ PostNeverSent(r) \/ PollAgain(r)
             \/ PollFinds(r) \/ PollUnreadable(r) \/ PollGivesUp(r) \/ FinalUnread(r)
             \/ CompleteNot(r)
    BY <2>1 DEF ReceiverAnswers, ConsumeNot, PostNeverSent, PollAgain, PollFinds,
                PollUnreadable, PollGivesUp, FinalUnread, CompleteNot, database, Rests
  <2>2. CASE ApproveCommit(r)
    <3>1. f \in Fingerprint
      BY <2>2, BusyFacts DEF ApproveCommit, At
    <3>2. Approvable(r) => permit[f] = "NONE"
      BY <3>1 DEF Approvable, Permits, Of
    <3> QED BY <2>2, <3>1, <3>2 DEF ApproveCommit, Approves, Rests
  <2>3. CASE Consume(r)
    <3>1. f \in Fingerprint /\ (dispatch[f].redelivery # 0 => dispatch[f].state \in Recorded)
      BY <2>3, BusyFacts DEF Consume, At
    <3> DEFINE d == [NoDispatch EXCEPT !.state = "DISPATCHING"]
    <3>2. d \in Dispatch /\ d.state = "DISPATCHING"
      BY DEF NoDispatch, Dispatch, DispatchState
    <3>3. dispatch' = [dispatch EXCEPT ![f] = d] /\ dispatch[f].state = "NONE"
      BY <2>3 DEF Consume, Consumable
    <3> HIDE DEF d
    <3> QED BY <2>3, <3>1, <3>2, <3>3 DEF Consume, Consumable, Dispatches, Recorded
  <2>4. CASE PostReaches(r)
    <3>1. f \in Fingerprint /\ posts[f] = 0 /\ dispatch[f].state = "DISPATCHING"
          /\ permit[f] = "CONSUMED"
      BY <2>4, BusyFacts DEF PostReaches, At, Sending
    <3>2. posts' = [posts EXCEPT ![f] = 1]
      BY <2>4, <3>1 DEF PostReaches
    <3> QED BY <2>4, <3>1, <3>2 DEF PostReaches, Sends, database
  <2>5. CASE Rejected(r) \/ Lost(r) \/ Accepted(r)
    <3>1. f \in Fingerprint
      BY <2>5, BusyFacts DEF Rejected, Lost, Accepted, At
    <3>2. PICK to \in {"FAILED", "OUTCOME_UNKNOWN", "DISPATCHED"} :
            dispatch' = [dispatch EXCEPT ![f] = Transition(dispatch[f], "DISPATCHING", to, 0)]
      BY <2>5 DEF Rejected, Lost, Accepted
    <3>3. to \in DispatchState \ {"NONE"} /\ UNCHANGED <<permit, posts>>
      BY <2>5 DEF DispatchState, Rejected, Lost, Accepted
    <3>4. "DISPATCHING" \notin {"NONE"} \union Recorded
      BY DEF Recorded
    <3>5. Moves(f) \/ Rests
      BY <3>1, <3>2, <3>3, <3>4, TransitionKind
    <3> QED BY <3>1, <3>5
  <2>6. CASE ObservedNothing(r)
    <3>1. f \in Fingerprint /\ dispatch \in [Fingerprint -> Dispatch]
      BY <2>6, BusyFacts DEF ObservedNothing, At
    <3>2. UNCHANGED <<permit, posts>> /\ "FAILED" \in DispatchState \ {"NONE"}
      BY <2>6 DEF ObservedNothing, DispatchState
    <3>3. CASE req[r].row = "DISPATCHED"
      <4>1. dispatch' = [dispatch EXCEPT ![f] =
                           Transition(dispatch[f], "DISPATCHED", "FAILED", 0)]
        BY <2>6, <3>3 DEF ObservedNothing
      <4>2. "DISPATCHED" \notin {"NONE"} \union Recorded
        BY DEF Recorded
      <4>3. Moves(f) \/ Rests
        BY <3>1, <3>2, <4>1, <4>2, TransitionKind
      <4> QED BY <3>1, <4>3
    <3>4. CASE req[r].row # "DISPATCHED"
      BY <2>6, <3>1, <3>2, <3>4 DEF ObservedNothing, Rests
    <3> QED BY <3>3, <3>4
  <2>7. CASE ObservedSuccess(r)
    <3>1. /\ f \in Fingerprint /\ req[r].evidence \in Nat
          /\ req[r].row \notin {"NONE", "DISPATCHING"} \union Recorded
      BY <2>7, BusyFacts DEF ObservedSuccess, At
    <3>2. /\ UNCHANGED <<permit, posts>>
          /\ "PROVIDER_VERIFIED" \in DispatchState \ {"NONE"}
          /\ dispatch' = [dispatch EXCEPT ![f] =
                Transition(dispatch[f], req[r].row, "PROVIDER_VERIFIED", req[r].evidence)]
      BY <2>7 DEF ObservedSuccess, DispatchState
    <3>3. Moves(f) \/ Rests
      BY <3>1, <3>2, TransitionKind
    <3> QED BY <3>1, <3>3
  <2>8. CASE FinalMismatch(r) \/ Complete(r)
    <3>1. /\ f \in Fingerprint /\ dispatch[f] \in Dispatch
          /\ dispatch \in [Fingerprint -> Dispatch] /\ req[r].seen \in SUBSET Nat
          /\ dispatch[f].state # "NONE" => permit[f] = "CONSUMED"
      BY <2>8, BusyFacts DEF FinalMismatch, Complete, At
    <3>2. UNCHANGED <<permit, posts>>
      BY <2>8 DEF FinalMismatch, Complete
    <3>3. CASE dispatch[f].state # "PROVIDER_VERIFIED"
      BY <2>8, <3>1, <3>2, <3>3 DEF FinalMismatch, Complete, Rests
    <3>4. CASE dispatch[f].state = "PROVIDER_VERIFIED"
      <4>1. PICK s \in {"COMPLETE", "FAILED"} :
              dispatch' = [dispatch EXCEPT ![f] =
                             [dispatch[f] EXCEPT !.state = s, !.final = req[r].seen]]
        BY <2>8, <3>1, <3>4 DEF FinalMismatch, Complete
      <4> DEFINE d == [dispatch[f] EXCEPT !.state = s, !.final = req[r].seen]
      <4>2. d \in Dispatch /\ d.state # "NONE" /\ d.redelivery = dispatch[f].redelivery
        BY <3>1 DEF Dispatch, DispatchState
      <4>3. dispatch' = [dispatch EXCEPT ![f] = d]
        BY <4>1
      <4>4. dispatch[f].state \notin {"NONE"} \union Terminal /\ permit[f] = "CONSUMED"
        BY <3>1, <3>4 DEF Terminal
      <4>5. Moves(f)
        <5> HIDE DEF d
        <5> QED BY <3>2, <4>2, <4>3, <4>4 DEF Moves
      <4> QED BY <3>1, <4>5
    <3> QED BY <3>3, <3>4
  <2> QED
    BY <1>3, <2>1, <2>2, <2>3, <2>4, <2>5, <2>6, <2>7, <2>8 DEF Proceed
<1> QED BY <1>1, <1>2, <1>3 DEF Next

------------------------------------------------------------------------------
\* Once a row is COMPLETE or FAILED, and once a redelivery is on record, no
\* request that is still running changes it.
THEOREM SettledStays == Spec => Irrevocable
<1>1. Inv /\ [Next]_vars =>
        [\A f \in Fingerprint :
           /\ dispatch[f].state \in Terminal => dispatch'[f] = dispatch[f]
           /\ dispatch[f].redelivery # 0
                => dispatch'[f].redelivery = dispatch[f].redelivery]_vars
  <2> SUFFICES ASSUME Inv, [Next]_vars, NEW f \in Fingerprint
               PROVE  /\ dispatch[f].state \in Terminal => dispatch'[f] = dispatch[f]
                      /\ dispatch[f].redelivery # 0
                           => dispatch'[f].redelivery = dispatch[f].redelivery
    OBVIOUS
  <2>1. dispatch \in [Fingerprint -> Dispatch]
    BY DEF Inv, Typed, TypeOK
  <2>2. CASE Rests \/ \E g \in Fingerprint : Approves(g) \/ Sends(g)
    BY <2>2 DEF Rests, Approves, Sends
  <2>3. ASSUME NEW g \in Fingerprint, Dispatches(g) \/ Moves(g)
        PROVE  /\ dispatch[f].state \in Terminal => dispatch'[f] = dispatch[f]
               /\ dispatch[f].redelivery # 0
                    => dispatch'[f].redelivery = dispatch[f].redelivery
    BY <2>1, <2>3 DEF Dispatches, Moves, Terminal
  <2> QED BY <2>2, <2>3, StepKinds
<1> QED BY <1>1, Invariance, PTL DEF Spec, Irrevocable

------------------------------------------------------------------------------
\* The phase of a fingerprint, by its permit and its row.
LEMMA PhaseCases ==
  ASSUME NEW f \in Fingerprint, permit[f] \in PermitState
  PROVE  /\ permit[f] = "NONE" => PhaseOf(f) = "unapproved"
         /\ permit[f] = "APPROVED" => PhaseOf(f) = "approved"
         /\ permit[f] = "CONSUMED" =>
              /\ dispatch[f].state = "COMPLETE" => PhaseOf(f) = "succeeded"
              /\ dispatch[f].state = "FAILED" => PhaseOf(f) = "failed"
              /\ dispatch[f].state \notin Terminal => PhaseOf(f) = "claimed"
<1>1. CASE permit[f] \in {"NONE", "APPROVED"}
  BY <1>1 DEF PhaseOf
<1>2. CASE permit[f] = "CONSUMED" /\ dispatch[f].state \in Terminal
  BY <1>2 DEF PhaseOf, Terminal
<1>3. CASE permit[f] = "CONSUMED" /\ dispatch[f].state \notin Terminal
  BY <1>3 DEF PhaseOf, Terminal
<1> QED BY <1>1, <1>2, <1>3 DEF PermitState, Terminal

\* The same in the next state.
LEMMA PhaseCasesNext ==
  ASSUME NEW f \in Fingerprint, permit'[f] \in PermitState
  PROVE  /\ permit'[f] = "NONE" => PhaseOf(f)' = "unapproved"
         /\ permit'[f] = "APPROVED" => PhaseOf(f)' = "approved"
         /\ permit'[f] = "CONSUMED" =>
              /\ dispatch'[f].state = "COMPLETE" => PhaseOf(f)' = "succeeded"
              /\ dispatch'[f].state = "FAILED" => PhaseOf(f)' = "failed"
              /\ dispatch'[f].state \notin Terminal => PhaseOf(f)' = "claimed"
<1>1. CASE permit'[f] \in {"NONE", "APPROVED"}
  BY <1>1 DEF PhaseOf
<1>2. CASE permit'[f] = "CONSUMED" /\ dispatch'[f].state \in Terminal
  BY <1>2 DEF PhaseOf, Terminal
<1>3. CASE permit'[f] = "CONSUMED" /\ dispatch'[f].state \notin Terminal
  BY <1>3 DEF PhaseOf, Terminal
<1> QED BY <1>1, <1>2, <1>3 DEF PermitState, Terminal

\* A step that touches the permit and row of f alone changes the phase of f alone.
LEMMA PhaseUpdate ==
  ASSUME NEW f \in Fingerprint, NEW phase, PhaseOf(f)' = phase,
         \A g \in Fingerprint \ {f} : permit'[g] = permit[g] /\ dispatch'[g] = dispatch[g]
  PROVE  GatePhase' = [GatePhase EXCEPT ![f] = phase]
<1>1. \A g \in Fingerprint \ {f} : PhaseOf(g)' = PhaseOf(g)
  BY DEF PhaseOf
<1> HIDE DEF PhaseOf
<1> QED BY <1>1 DEF GatePhase

\* Each step of Redrive is a step of the gate or leaves it as it is.
LEMMA GateStep ==
  ASSUME Inv, [Next]_vars
  PROVE  [Gate!GateNext]_(Gate!gateVars)
<1>1. /\ permit \in [Fingerprint -> PermitState]
      /\ dispatch \in [Fingerprint -> Dispatch]
      /\ posts \in [Fingerprint -> Nat]
  BY DEF Inv, Typed, TypeOK
<1>2. CASE Rests
  BY <1>2 DEF Rests, GatePhase, PhaseOf, Gate!gateVars
<1>3. ASSUME NEW f \in Fingerprint, Approves(f) PROVE Gate!Grant(f)
  <2>1. GatePhase[f] = "unapproved"
    BY <1>1, <1>3, PhaseCases DEF Approves, GatePhase
  <2>2. permit'[f] = "APPROVED" /\ "APPROVED" \in PermitState
    BY <1>1, <1>3 DEF Approves, PermitState
  <2>3. PhaseOf(f)' = "approved"
    BY <2>2, PhaseCasesNext
  <2>4. GatePhase' = [GatePhase EXCEPT ![f] = "approved"]
    BY <1>1, <1>3, <2>3, PhaseUpdate DEF Approves
  <2> QED BY <1>3, <2>1, <2>4 DEF Gate!Grant, Approves
<1>4. ASSUME NEW f \in Fingerprint, Dispatches(f) PROVE Gate!Claim(f)
  <2>1. GatePhase[f] = "approved"
    BY <1>1, <1>4, PhaseCases DEF Dispatches, GatePhase
  <2>2. permit'[f] = "CONSUMED" /\ "CONSUMED" \in PermitState
        /\ dispatch'[f].state \notin Terminal
    BY <1>1, <1>4 DEF Dispatches, PermitState, Terminal
  <2>3. PhaseOf(f)' = "claimed"
    BY <2>2, PhaseCasesNext
  <2>4. GatePhase' = [GatePhase EXCEPT ![f] = "claimed"]
    BY <1>1, <1>4, <2>3, PhaseUpdate DEF Dispatches
  <2>5. ASSUME NEW g \in Fingerprint, IncidentOf[g] = IncidentOf[f]
        PROVE  GatePhase[g] \notin Gate!Claimed
    <3>1. permit[f] # "NONE"
      BY <1>4 DEF Dispatches
    <3>2. g # f => permit[g] = "NONE"
      BY <2>5, <3>1 DEF Inv, AtMostOnePermit
    <3>3. GatePhase[g] \in {"unapproved", "approved"}
      BY <1>1, <2>1, <3>2, PhaseCases DEF GatePhase
    <3> QED BY <3>3 DEF Gate!Claimed, Gate!Settled
  <2> QED BY <1>4, <2>1, <2>4, <2>5 DEF Gate!Claim, Dispatches
<1>5. ASSUME NEW f \in Fingerprint, Sends(f) PROVE Gate!Act(f)
  <2>1. GatePhase[f] = "claimed"
    BY <1>1, <1>5, PhaseCases DEF Sends, GatePhase, Terminal
  <2>2. GatePhase' = GatePhase
    BY <1>5 DEF Sends, GatePhase, PhaseOf
  <2> QED BY <1>5, <2>1, <2>2 DEF Gate!Act, Sends
<1>6. ASSUME NEW f \in Fingerprint, Moves(f)
      PROVE  \/ UNCHANGED Gate!gateVars
             \/ \E s \in Gate!Settled : Gate!Settle(f, s)
  <2>1. GatePhase[f] = "claimed"
    BY <1>1, <1>6, PhaseCases DEF Moves, GatePhase
  <2>2. permit'[f] = "CONSUMED" /\ "CONSUMED" \in PermitState
    BY <1>6 DEF Moves, PermitState
  <2>3. PICK phase \in {"claimed"} \union Gate!Settled : PhaseOf(f)' = phase
    BY <2>2, PhaseCasesNext DEF Gate!Settled, Terminal
  <2>4. GatePhase' = [GatePhase EXCEPT ![f] = phase]
    BY <1>1, <1>6, <2>3, PhaseUpdate DEF Moves
  <2>5. CASE phase = "claimed"
    <3>1. GatePhase' = GatePhase
      BY <2>1, <2>4, <2>5 DEF GatePhase
    <3> QED BY <1>6, <3>1 DEF Gate!gateVars, Moves
  <2>6. CASE phase \in Gate!Settled
    BY <1>6, <2>1, <2>4, <2>6 DEF Gate!Settle, Moves
  <2> QED BY <2>3, <2>5, <2>6
<1> QED BY <1>2, <1>3, <1>4, <1>5, <1>6, StepKinds DEF Gate!GateNext

\* The redrive service implements the permit gate: approval, one claim per
\* incident, at most one external effect, one settled result.
THEOREM Refinement == Spec => ImplementsGate
<1>1. Init => Gate!GateInit
  <2> SUFFICES ASSUME Init PROVE Gate!GateInit
    OBVIOUS
  <2>1. \A f \in Fingerprint : PhaseOf(f) = "unapproved"
    BY DEF Init, PhaseOf
  <2> QED BY <2>1 DEF Init, Gate!GateInit, GatePhase
<1>2. Inv /\ [Next]_vars => [Gate!GateNext]_(Gate!gateVars)
  BY GateStep
<1> QED BY <1>1, <1>2, Invariance, PTL DEF Spec, ImplementsGate, Gate!GateSpec

------------------------------------------------------------------------------
(* The evidence behind a receipt                                           *)

\* GitHub made the redelivery k after the dispatch of f began, and had a 2xx.
Shown(f, k) ==
    LET made == attempts[IncidentOf[f]] IN
    k \in DOMAIN made /\ f \in made[k].after /\ made[k].ok

RowProven(f) ==
    /\ dispatch[f].redelivery # 0 => Shown(f, dispatch[f].redelivery)
    /\ dispatch[f].state = "COMPLETE" => receipt[IncidentOf[f]].fp = f

ReceiptOfRow(i) ==
    LET f == receipt[i].fp IN
    f # None => /\ IncidentOf[f] = i
                /\ dispatch[f].state = "COMPLETE"
                /\ receipt[i].redelivery # 0
                /\ receipt[i].redelivery = dispatch[f].redelivery
                /\ receipt[i].final = {1}

\* What a request in state s carries is still what the row says.
Carries(s) ==
    /\ s.pc = "observed" /\ s.evidence # 0 => Shown(s.fp, s.evidence)
    /\ s.pc \in {"finalRead", "finalCommit"}
         => s.evidence # 0 /\ dispatch[s.fp].redelivery = s.evidence
    /\ s.reply = "COMPLETE" => s.fp \in Fingerprint /\ receipt[IncidentOf[s.fp]].fp = s.fp

Proven == /\ \A f \in Fingerprint : RowProven(f)
          /\ \A i \in Incident : ReceiptOfRow(i)
          /\ \A r \in Request : Carries(req[r])

\* At the start nothing was dispatched and nothing is on record.
LEMMA InitProven == Init => Proven
  BY IdleType DEF Init, Proven, RowProven, ReceiptOfRow, Carries, NoDispatch, NoReceipt

\* A request that changes neither rows nor receipts.
LEMMA WatchProven ==
  ASSUME Inv, Proven, NEW r \in Request, NEW s \in RequestState, Become(r, s), Carries(s),
         UNCHANGED <<dispatch, receipt, attempts>>
  PROVE  Proven'
<1>1. req'[r] = s /\ \A q \in Request \ {r} : req'[q] = req[q]
  BY DEF Become, Inv, Typed, TypeOK
<1>2. (\A f \in Fingerprint : RowProven(f)') /\ (\A i \in Incident : ReceiptOfRow(i)')
  BY DEF Proven, RowProven, ReceiptOfRow, Shown
<1>3. \A q \in Request : Carries(req[q])'
  BY <1>1 DEF Proven, Carries, Shown
<1> QED BY <1>2, <1>3 DEF Proven

\* A request that changes one row and completes nothing.
LEMMA MoveProven ==
  ASSUME Inv, Proven, NEW r \in Request, NEW s \in RequestState, Become(r, s),
         NEW f \in Fingerprint, NEW d \in Dispatch, dispatch' = [dispatch EXCEPT ![f] = d],
         UNCHANGED <<receipt, attempts>>,
         d.redelivery # 0 => Shown(f, d.redelivery),
         dispatch[f].redelivery # 0 => d.redelivery = dispatch[f].redelivery,
         d.state = "COMPLETE" <=> dispatch[f].state = "COMPLETE",
         s.pc # "observed",
         s.pc \in {"finalRead", "finalCommit"}
           => s.fp = f /\ s.evidence # 0 /\ s.evidence = d.redelivery,
         s.reply = "COMPLETE" => s.fp = f /\ d.state = "COMPLETE"
  PROVE  Proven'
<1>1. /\ req'[r] = s /\ \A q \in Request \ {r} : req'[q] = req[q]
      /\ dispatch'[f] = d /\ \A g \in Fingerprint \ {f} : dispatch'[g] = dispatch[g]
  BY DEF Become, Inv, Typed, TypeOK
<1>2. \A g \in Fingerprint : RowProven(g)'
  BY <1>1 DEF Proven, RowProven, Shown
<1>3. ASSUME NEW i \in Incident
      PROVE  ReceiptOfRow(i)'
  <2>1. receipt[i].fp \in Fingerprint \union {None}
    BY DEF Inv, Typed, TypeOK, Receipt
  <2> QED BY <1>1, <2>1 DEF Proven, ReceiptOfRow
<1>4. Carries(req[r])'
  <2>1. s.reply = "COMPLETE" => receipt[IncidentOf[f]].fp = f
    BY DEF Proven, RowProven
  <2> QED BY <1>1, <2>1 DEF Carries
<1>5. ASSUME NEW q \in Request \ {r}
      PROVE  Carries(req[q])'
  <2>1. Carries(req[q]) /\ (req[q].pc # "idle" => req[q].fp \in Fingerprint)
    BY DEF Proven, Inv, Typed, BusyHasPermit
  <2> QED BY <1>1, <2>1 DEF Carries, Shown
<1> QED BY <1>2, <1>3, <1>4, <1>5 DEF Proven

\* continueDispatch takes its evidence and its answer from the row.
LEMMA ContinuationCarries ==
  ASSUME NEW f \in Fingerprint, NEW c \in Fingerprint \union {None}, NEW d \in Dispatch
  PROVE  LET s == Continuation(f, c, d) IN
         /\ s.pc # "observed"
         /\ s.pc \in {"finalRead", "finalCommit"}
              => s.fp = f /\ s.evidence # 0 /\ s.evidence = d.redelivery
         /\ s.reply = "COMPLETE" => s.fp = f /\ d.state = "COMPLETE"
<1>1. CASE c # f
  BY <1>1, IdleType DEF Continuation
<1>2. CASE c = f /\ d.state \in {"DISPATCHED", "OUTCOME_UNKNOWN"}
  BY <1>2 DEF Continuation, Idle
<1>3. CASE c = f /\ d.state = "PROVIDER_VERIFIED"
  BY <1>3 DEF Continuation, Idle
<1>4. CASE c = f /\ d.state \notin {"DISPATCHED", "OUTCOME_UNKNOWN", "PROVIDER_VERIFIED"}
  BY <1>4 DEF Continuation, Idle, Replied
<1> QED BY <1>1, <1>2, <1>3, <1>4

\* Calls that begin, or end with a crash.
LEMMA BeginProven ==
  ASSUME Inv, Proven, NEW r \in Request, Begin(r) \/ Crash(r)
  PROVE  Proven'
<1>1. UNCHANGED <<dispatch, receipt, attempts>>
  BY DEF Begin, Crash, ApproveBegin, ExecuteExisting, ExecuteBegin, database, provider
<1>2. req' \in [Request -> RequestState] /\ req \in [Request -> RequestState]
  BY BeginTyped, AnswerTyped DEF Inv, Typed, TypeOK
<1>3. PICK s : Become(r, s) /\ Carries(s)
  <2>1. CASE Crash(r)
    BY <2>1, IdleType DEF Crash, Carries
  <2>2. ASSUME NEW f \in Fingerprint, ApproveBegin(r, f) \/ ExecuteBegin(r, f)
        PROVE  \E s : Become(r, s) /\ Carries(s)
    <3>1. PICK pc \in {"approveRead", "executeRead"} :
            Become(r, [Idle EXCEPT !.pc = pc, !.fp = f, !.cand = cand[IncidentOf[f]]])
      BY <2>2 DEF ApproveBegin, ExecuteBegin
    <3> DEFINE s == [Idle EXCEPT !.pc = pc, !.fp = f, !.cand = cand[IncidentOf[f]]]
    <3>2. s.pc = pc /\ s.reply = "none"
      BY DEF Idle
    <3> QED BY <3>1, <3>2 DEF Carries
  <2>3. ASSUME NEW f \in Fingerprint, ExecuteExisting(r, f)
        PROVE  \E s : Become(r, s) /\ Carries(s)
    <3> DEFINE i == IncidentOf[f]
               s == Continuation(f, cand[i], dispatch[f])
    <3>1. /\ cand[i] \in Fingerprint \union {None} /\ dispatch[f] \in Dispatch
          /\ dispatch[f].state = "COMPLETE" => receipt[i].fp = f
      BY DEF Inv, Typed, TypeOK, Proven, RowProven
    <3>2. Carries(s)
      BY <3>1, ContinuationCarries DEF Carries
    <3>3. receipt[i].fp = f => Carries(Replied(f, "COMPLETE"))
      BY IdleType DEF Carries, Replied, Idle
    <3> HIDE DEF s
    <3> QED BY <2>3, <3>2, <3>3 DEF ExecuteExisting, s
  <2> QED BY <2>1, <2>2, <2>3 DEF Begin
<1>4. s \in RequestState
  BY <1>2, <1>3 DEF Become
<1> QED BY <1>1, <1>3, <1>4, WatchProven

\* Steps that change the request alone, and carry on what it carries.
LEMMA ProceedProven ==
  ASSUME Inv, Proven, NEW r \in Request,
         \/ ReceiverAnswers(r) \/ ApproveCommit(r) \/ Consume(r) \/ ConsumeNot(r)
         \/ PostReaches(r) \/ PostNeverSent(r)
         \/ PollAgain(r) \/ PollFinds(r) \/ PollUnreadable(r) \/ PollGivesUp(r)
  PROVE  Proven'
<1> DEFINE f == req[r].fp
<1>1. /\ req[r] \in RequestState /\ req[r].pc # "idle" /\ f \in Fingerprint
      /\ dispatch[f] \in Dispatch /\ dispatch \in [Fingerprint -> Dispatch]
      /\ Carries(req[r])
  <2>1. req[r].pc # "idle"
    <3>1. ReceiverAnswers(r) => req[r].pc \in {"approveRead", "executeRead", "finalRead"}
      BY DEF ReceiverAnswers, At
    <3>2. ApproveCommit(r) \/ Consume(r) \/ ConsumeNot(r)
            => req[r].pc \in {"approveCommit", "executeCommit"}
      BY DEF ApproveCommit, Consume, ConsumeNot, At
    <3>3. PostReaches(r) \/ PostNeverSent(r) => req[r].pc = "post"
      BY DEF PostReaches, PostNeverSent, At
    <3>4. PollAgain(r) \/ PollFinds(r) \/ PollUnreadable(r) \/ PollGivesUp(r)
            => req[r].pc = "poll"
      BY DEF PollAgain, PollFinds, PollUnreadable, PollGivesUp, At
    <3> QED BY <3>1, <3>2, <3>3, <3>4
  <2> QED BY <2>1, RequestTyped DEF Inv, Typed, TypeOK, Proven
<1>2. req' \in [Request -> RequestState] /\ req \in [Request -> RequestState]
  BY AnswerTyped, PermitTyped, PostTyped, PollTyped DEF Inv, Typed, TypeOK
<1>3. UNCHANGED <<receipt, attempts>>
  BY DEF ReceiverAnswers, ApproveCommit, Consume, ConsumeNot, PostReaches, PostNeverSent,
     PollAgain, PollFinds, PollUnreadable, PollGivesUp, database, provider
<1>4. CASE Consume(r)
  <2> DEFINE s == [req[r] EXCEPT !.pc = "post"]
             d == [NoDispatch EXCEPT !.state = "DISPATCHING"]
  <2>1. /\ s.pc = "post" /\ s.fp = f /\ s.reply = req[r].reply
        /\ d \in Dispatch /\ d.state = "DISPATCHING" /\ d.redelivery = 0
    BY <1>1 DEF RequestState, NoDispatch, Dispatch, DispatchState
  <2>2. Become(r, s) /\ dispatch' = [dispatch EXCEPT ![f] = d] /\ dispatch[f].state = "NONE"
    BY <1>4 DEF Consume, Consumable
  <2>3. dispatch[f].redelivery = 0
    BY <1>1, <2>2 DEF Inv, RecordedLate, Recorded
  <2>4. req[r].reply # "COMPLETE"
    BY <1>1, <2>2 DEF Carries, Proven, ReceiptOfRow
  <2>5. s \in RequestState
    BY <1>2, <2>2 DEF Become
  <2> HIDE DEF s, d
  <2> QED BY <1>1, <1>3, <2>1, <2>2, <2>3, <2>4, <2>5, MoveProven
<1>5. CASE ~Consume(r)
  <2>1. UNCHANGED dispatch
    BY <1>5 DEF ReceiverAnswers, ApproveCommit, ConsumeNot, PostReaches, PostNeverSent,
       PollAgain, PollFinds, PollUnreadable, PollGivesUp, database
  <2>2. \A pc \in {"post", "postAccepted", "postRejected", "postLost", "approveCommit",
                   "executeCommit"} : \A seen : 
          /\ Carries([req[r] EXCEPT !.pc = pc])
          /\ Carries([req[r] EXCEPT !.pc = pc, !.seen = seen])
    BY <1>1 DEF Carries, RequestState
  <2>3. Carries(Idle)
    BY IdleType DEF Carries
  <2>4. CASE ReceiverAnswers(r)
    <3>1. PICK step \in {<<"approveRead", "approveCommit">>,
                         <<"executeRead", "executeCommit">>,
                         <<"finalRead", "finalCommit">>} :
            /\ req[r].pc = step[1]
            /\ \E answer : Become(r, [req[r] EXCEPT !.pc = step[2], !.seen = answer])
      BY <2>4 DEF ReceiverAnswers, At
    <3>2. PICK answer : Become(r, [req[r] EXCEPT !.pc = step[2], !.seen = answer])
      BY <3>1
    <3>3. Carries([req[r] EXCEPT !.pc = step[2], !.seen = answer])
      BY <1>1, <3>1 DEF Carries, RequestState
    <3> QED BY <1>2, <1>3, <2>1, <3>2, <3>3, WatchProven DEF Become
  <2>5. CASE ApproveCommit(r) \/ PostReaches(r) \/ PostNeverSent(r)
    <3>1. PICK s : Become(r, s) /\ Carries(s)
      BY <2>2, <2>3, <2>5 DEF ApproveCommit, PostReaches, PostNeverSent
    <3>2. s \in RequestState
      BY <1>2, <3>1 DEF Become
    <3> QED BY <1>3, <2>1, <3>1, <3>2, WatchProven
  <2>6. CASE ConsumeNot(r)
    <3> DEFINE s == Continuation(f, req[r].cand, dispatch[f])
    <3>1. req[r].cand \in Fingerprint \union {None}
      BY <1>1 DEF RequestState
    <3>2. Carries(s)
      <4>1. dispatch[f].state = "COMPLETE" => receipt[IncidentOf[f]].fp = f
        BY <1>1 DEF Proven, RowProven
      <4>2. /\ s.pc # "observed"
            /\ s.pc \in {"finalRead", "finalCommit"}
                 => s.fp = f /\ s.evidence # 0 /\ s.evidence = dispatch[f].redelivery
            /\ s.reply = "COMPLETE" => s.fp = f /\ dispatch[f].state = "COMPLETE"
        BY <1>1, <3>1, ContinuationCarries
      <4> HIDE DEF s
      <4> QED BY <1>1, <4>1, <4>2 DEF Carries
    <3>3. Become(r, s) \/ Become(r, Idle)
      BY <2>6 DEF ConsumeNot
    <3>4. \E k \in {s, Idle} : Become(r, k) /\ Carries(k) /\ k \in RequestState
      <4> HIDE DEF s
      <4> QED BY <1>2, <2>3, <3>2, <3>3 DEF Become
    <3> QED BY <1>3, <2>1, <3>4, WatchProven
  <2>7. CASE PollAgain(r)
    <3> DEFINE s == [req[r] EXCEPT !.polls = @ - 1]
    <3>1. Carries(s) /\ Become(r, s)
      BY <1>1, <2>7 DEF Carries, RequestState, PollAgain
    <3> QED BY <1>2, <1>3, <2>1, <3>1, WatchProven DEF Become
  <2>8. CASE PollFinds(r) \/ PollUnreadable(r) \/ PollGivesUp(r)
    <3>1. PICK k : /\ Become(r, [req[r] EXCEPT !.pc = "observed", !.evidence = k])
                   /\ k # 0 => Shown(f, k)
      BY <2>8 DEF PollFinds, PollUnreadable, PollGivesUp, Matching, Shown
    <3> DEFINE s == [req[r] EXCEPT !.pc = "observed", !.evidence = k]
    <3>2. s.pc = "observed" /\ s.evidence = k /\ s.fp = f /\ s.reply = req[r].reply
      BY <1>1 DEF RequestState
    <3>3. Carries(s)
      BY <1>1, <3>1, <3>2 DEF Carries
    <3> QED BY <1>2, <1>3, <2>1, <3>1, <3>3, WatchProven DEF Become
  <2> QED BY <1>5, <2>4, <2>5, <2>6, <2>7, <2>8
<1> QED BY <1>4, <1>5

\* Recording the outcome of the POST puts no redelivery on record.
LEMMA OutcomeProven ==
  ASSUME Inv, Proven, NEW r \in Request, Rejected(r) \/ Lost(r) \/ Accepted(r)
  PROVE  Proven'
<1> DEFINE f == req[r].fp
           d(to) == Transition(dispatch[f], "DISPATCHING", to, 0)
<1>1. /\ req[r] \in RequestState /\ f \in Fingerprint /\ dispatch[f] \in Dispatch
      /\ dispatch \in [Fingerprint -> Dispatch]
      /\ dispatch[f].state = "DISPATCHING"
  BY RequestTyped DEF Rejected, Lost, Accepted, At, Inv, Typed, TypeOK, Fenced, Sending
<1>2. dispatch[f].redelivery = 0
  BY <1>1 DEF Inv, RecordedLate, Recorded
<1>3. \A to \in {"FAILED", "OUTCOME_UNKNOWN", "DISPATCHED"} :
        d(to) \in Dispatch /\ d(to).state = to /\ d(to).redelivery = 0
  <2>1. {"FAILED", "OUTCOME_UNKNOWN", "DISPATCHED"} \subseteq DispatchState
    BY DEF DispatchState
  <2> QED BY <1>1, <1>2, <2>1, TransitionType
<1>4. UNCHANGED <<receipt, attempts>>
  BY DEF Rejected, Lost, Accepted, provider
<1>5. PICK to \in {"FAILED", "OUTCOME_UNKNOWN", "DISPATCHED"} :
        /\ dispatch' = [dispatch EXCEPT ![f] = d(to)]
        /\ \/ Become(r, Replied(f, to)) /\ to # "DISPATCHED"
           \/ Become(r, Continuation(f, req[r].cand, dispatch'[f]))
  BY DEF Rejected, Lost, Accepted
<1>6. dispatch'[f] = d(to) /\ d(to) \in Dispatch /\ d(to).state = to /\ d(to).redelivery = 0
  BY <1>1, <1>3, <1>5
<1> HIDE DEF d
<1>7. PICK s : /\ Become(r, s) /\ s.pc \notin {"observed", "finalRead", "finalCommit"}
               /\ s.reply # "COMPLETE"
  <2>1. CASE Become(r, Replied(f, to)) /\ to # "DISPATCHED"
    <3>1. to \in DispatchState \ {"NONE"}
      BY DEF DispatchState
    <3> QED BY <1>1, <2>1, <3>1, RepliedType
  <2>2. CASE Become(r, Continuation(f, req[r].cand, dispatch'[f]))
    <3>1. req[r].cand \in Fingerprint \union {None}
      BY <1>1 DEF RequestState
    <3>2. PICK e \in Dispatch : e = d(to) /\ e.state = to /\ e.redelivery = 0
      BY <1>6
    <3> DEFINE s == Continuation(f, req[r].cand, e)
    <3>3. /\ s.pc # "observed"
          /\ s.pc \in {"finalRead", "finalCommit"} => s.evidence # 0 /\ s.evidence = e.redelivery
          /\ s.reply = "COMPLETE" => e.state = "COMPLETE"
      BY <1>1, <3>1, ContinuationCarries
    <3>4. Become(r, s)
      BY <1>6, <2>2, <3>2
    <3> HIDE DEF s
    <3> QED BY <3>2, <3>3, <3>4
  <2> QED BY <1>5, <2>1, <2>2
<1>8. s \in RequestState
  BY <1>1, <1>7, OutcomeTyped DEF Become, Inv, Typed, TypeOK
<1> QED BY <1>1, <1>2, <1>4, <1>5, <1>6, <1>7, <1>8, MoveProven

\* A redelivery is put on record if the row is the one that was watched, and
\* then it is the one that was seen.
LEMMA ObservedProven ==
  ASSUME Inv, Proven, NEW r \in Request, ObservedNothing(r) \/ ObservedSuccess(r)
  PROVE  Proven'
<1> DEFINE f == req[r].fp
<1>1. /\ req[r] \in RequestState /\ f \in Fingerprint /\ dispatch[f] \in Dispatch
      /\ dispatch \in [Fingerprint -> Dispatch] /\ req[r].pc = "observed"
      /\ req[r].evidence \in Nat
      /\ req[r].row \in {"none", "DISPATCHED", "OUTCOME_UNKNOWN"}
  BY RequestTyped DEF ObservedNothing, ObservedSuccess, At, Inv, Typed, TypeOK, RequestState
<1>2. /\ dispatch[f].redelivery # 0 => dispatch[f].state \in Recorded
      /\ dispatch[f].redelivery # 0 => Shown(f, dispatch[f].redelivery)
      /\ req[r].evidence # 0 => Shown(f, req[r].evidence)
  BY <1>1 DEF Inv, RecordedLate, Proven, RowProven, Carries
<1>3. UNCHANGED <<receipt, attempts>> /\ req' \in [Request -> RequestState]
  BY ObservedTyped DEF ObservedNothing, ObservedSuccess, provider, Inv, Typed, TypeOK
<1>4. {"FAILED", "OUTCOME_UNKNOWN", "PROVIDER_VERIFIED"} \subseteq DispatchState \ {"NONE"}
  BY DEF DispatchState
<1>5. CASE ObservedNothing(r)
  <2> DEFINE t == Transition(dispatch[f], "DISPATCHED", "FAILED", 0)
             d == IF req[r].row = "DISPATCHED" THEN t ELSE dispatch[f]
             o == IF req[r].row = "DISPATCHED" THEN "FAILED" ELSE "OUTCOME_UNKNOWN"
             s == Replied(f, o)
  <2>1. dispatch' = [dispatch EXCEPT ![f] = d] /\ Become(r, s)
    BY <1>5 DEF ObservedNothing
  <2>2. s.pc = "idle" /\ s.reply = o /\ s \in RequestState
    BY <1>1, <1>4, RepliedType
  <2>3. /\ t \in Dispatch
        /\ t = dispatch[f] \/ (/\ dispatch[f].state = "DISPATCHED" /\ t.state = "FAILED"
                               /\ t.redelivery = dispatch[f].redelivery)
    BY <1>1, <1>4, TransitionType
  <2> HIDE DEF t, s
  <2>4. /\ d \in Dispatch /\ d.redelivery = dispatch[f].redelivery
        /\ d.state = "COMPLETE" <=> dispatch[f].state = "COMPLETE"
    BY <1>1, <2>3
  <2> HIDE DEF d
  <2> QED BY <1>1, <1>2, <1>3, <2>1, <2>2, <2>4, MoveProven
<1>6. CASE ObservedSuccess(r)
  <2> DEFINE d == Transition(dispatch[f], req[r].row, "PROVIDER_VERIFIED", req[r].evidence)
             w == [Idle EXCEPT !.pc = "finalRead", !.fp = f, !.cand = req[r].cand,
                               !.evidence = d.redelivery]
  <2>1. dispatch' = [dispatch EXCEPT ![f] = d] /\ req[r].evidence # 0
    BY <1>6 DEF ObservedSuccess
  <2>2. /\ d \in Dispatch
        /\ \/ d = dispatch[f]
           \/ /\ dispatch[f].state = req[r].row
              /\ d.state = "PROVIDER_VERIFIED" /\ d.redelivery = req[r].evidence
    BY <1>1, <1>4, <2>1, TransitionType
  <2>3. PICK s \in RequestState :
          /\ Become(r, s)
          /\ s = Idle \/ (s = w /\ d.redelivery # 0)
    <3>1. dispatch'[f] = d
      BY <1>1, <2>1
    <3>2. PICK s : Become(r, s) /\ (s = Idle \/ (s = w /\ d.redelivery # 0))
      <4> HIDE DEF d
      <4> QED BY <1>6, <3>1 DEF ObservedSuccess
    <3>3. s \in RequestState
      BY <1>3, <3>2 DEF Become, Inv, Typed, TypeOK
    <3> QED BY <3>2, <3>3
  <2>4. /\ w.pc = "finalRead" /\ w.fp = f /\ w.evidence = d.redelivery /\ w.reply = "none"
    BY DEF Idle
  <2> HIDE DEF w, d
  <2>5. dispatch[f].redelivery # 0 => d.redelivery = dispatch[f].redelivery
    BY <1>1, <1>2, <2>2 DEF Recorded
  <2>6. d.redelivery # 0 => Shown(f, d.redelivery)
    BY <1>2, <2>2
  <2>7. d.state = "COMPLETE" <=> dispatch[f].state = "COMPLETE"
    BY <1>1, <2>2
  <2>8. /\ s.pc # "observed" /\ s.reply # "COMPLETE"
        /\ s.pc \in {"finalRead", "finalCommit"}
             => s.fp = f /\ s.evidence # 0 /\ s.evidence = d.redelivery
    BY <2>3, <2>4, IdleType
  <2> QED BY <1>1, <1>3, <2>1, <2>2, <2>3, <2>5, <2>6, <2>7, <2>8, MoveProven
<1> QED BY <1>5, <1>6

\* A request that ends without completing the row.  Where the receipt is there
\* already it is of this permit, since an incident has one.
LEMMA EndProven ==
  ASSUME Inv, Proven, NEW r \in Request, FinalUnread(r) \/ FinalMismatch(r) \/ CompleteNot(r)
  PROVE  Proven'
<1> DEFINE f == req[r].fp
           i == IncidentOf[f]
<1>1. /\ req[r] \in RequestState /\ f \in Fingerprint /\ dispatch[f] \in Dispatch
      /\ dispatch \in [Fingerprint -> Dispatch] /\ req[r].pc = "finalCommit"
      /\ req[r].seen \in SUBSET Nat /\ i \in Incident /\ receipt[i] \in Receipt
  BY RequestTyped DEF FinalUnread, FinalMismatch, CompleteNot, At, Inv, Typed, TypeOK,
                      RequestState
<1>2. UNCHANGED <<receipt, attempts>> /\ req' \in [Request -> RequestState]
  BY FinalTyped DEF FinalUnread, FinalMismatch, CompleteNot, database, provider, Inv, Typed,
                    TypeOK
<1>3. "FAILED" \in DispatchState \ {"NONE"} /\ "PROVIDER_VERIFIED" \in DispatchState \ {"NONE"}
      /\ "COMPLETE" \in DispatchState \ {"NONE"}
  BY DEF DispatchState
<1>4. CASE FinalUnread(r)
  <2>1. Replied(f, "PROVIDER_VERIFIED") \in RequestState /\ Carries(Replied(f, "PROVIDER_VERIFIED"))
    BY <1>1, <1>3, RepliedType DEF Carries
  <2> QED BY <1>2, <1>4, <2>1, WatchProven DEF FinalUnread, database
<1>5. CASE FinalMismatch(r)
  <2> DEFINE row == dispatch[f]
             d == IF row.state = "PROVIDER_VERIFIED"
                    THEN [row EXCEPT !.state = "FAILED", !.final = req[r].seen] ELSE row
  <2>1. Become(r, Replied(f, "FAILED")) /\ dispatch' = [dispatch EXCEPT ![f] = d]
    BY <1>5 DEF FinalMismatch
  <2>2. /\ d \in Dispatch /\ d.redelivery = row.redelivery
        /\ d.state = "COMPLETE" <=> row.state = "COMPLETE"
    BY <1>1 DEF Dispatch, DispatchState
  <2>3. /\ Replied(f, "FAILED") \in RequestState /\ Replied(f, "FAILED").pc = "idle"
        /\ Replied(f, "FAILED").reply = "FAILED"
    BY <1>1, <1>3, RepliedType
  <2>4. row.redelivery # 0 => Shown(f, row.redelivery)
    BY <1>1 DEF Proven, RowProven
  <2> HIDE DEF d
  <2> QED BY <1>1, <1>2, <2>1, <2>2, <2>3, <2>4, MoveProven
<1>6. CASE CompleteNot(r)
  <2>1. ASSUME receipt[i].fp # None
        PROVE  receipt[i].fp = f
    <3> DEFINE g == receipt[i].fp
    <3>1. g \in Fingerprint /\ IncidentOf[g] = i /\ dispatch[g].state = "COMPLETE"
      BY <1>1, <2>1 DEF Receipt, Proven, ReceiptOfRow
    <3>2. dispatch[f].state \in Recorded
      BY <1>1 DEF Proven, Carries, Inv, RecordedLate
    <3>3. permit[f] = "CONSUMED" /\ permit[g] = "CONSUMED"
      BY <1>1, <3>1, <3>2 DEF Inv, Spent, Recorded
    <3> QED BY <1>1, <3>1, <3>3 DEF Inv, AtMostOnePermit
  <2>2. Become(r, IF receipt[i].fp # None THEN Replied(f, "COMPLETE") ELSE Idle)
        /\ UNCHANGED dispatch
    BY <1>6 DEF CompleteNot, database
  <2>3. receipt[i].fp = f => Carries(Replied(f, "COMPLETE"))
    BY <1>1, <1>3, RepliedType DEF Carries
  <2>4. Carries(Idle) /\ Idle \in RequestState /\ Replied(f, "COMPLETE") \in RequestState
    BY <1>1, <1>3, IdleType, RepliedType DEF Carries
  <2>5. CASE receipt[i].fp # None
    BY <1>2, <2>1, <2>2, <2>3, <2>4, <2>5, WatchProven
  <2>6. CASE receipt[i].fp = None
    BY <1>2, <2>2, <2>4, <2>6, WatchProven
  <2> QED BY <2>5, <2>6
<1> QED BY <1>4, <1>5, <1>6

\* The receipt is the first of its incident and takes the row's redelivery.
LEMMA CompleteProven ==
  ASSUME Inv, Proven, NEW r \in Request, Complete(r)
  PROVE  Proven'
<1> DEFINE f == req[r].fp
           i == IncidentOf[f]
<1>1. /\ f \in Fingerprint /\ i \in Incident /\ dispatch[f] \in Dispatch
      /\ dispatch \in [Fingerprint -> Dispatch] /\ receipt \in [Incident -> Receipt]
      /\ req \in [Request -> RequestState] /\ req[r].pc = "finalCommit"
  BY RequestTyped DEF Complete, At, Inv, Typed, TypeOK
<1>2. req[r].evidence # 0 /\ dispatch[f].redelivery = req[r].evidence
  BY <1>1 DEF Proven, Carries
<1>3. /\ receipt[i].fp = None /\ req[r].seen = {1}
      /\ dispatch' = [dispatch EXCEPT ![f] = [dispatch[f] EXCEPT !.state = "COMPLETE",
                                                                 !.final = req[r].seen]]
      /\ receipt' = [receipt EXCEPT ![i] = [fp |-> f, redelivery |-> req[r].evidence,
                                            final |-> req[r].seen]]
      /\ Become(r, Replied(f, "COMPLETE"))
      /\ UNCHANGED attempts
  BY <1>1 DEF Complete, provider
<1>4. /\ dispatch'[f].state = "COMPLETE" /\ dispatch'[f].redelivery = dispatch[f].redelivery
      /\ \A g \in Fingerprint \ {f} : dispatch'[g] = dispatch[g]
  BY <1>1, <1>3 DEF Dispatch
<1>5. /\ receipt'[i] = [fp |-> f, redelivery |-> req[r].evidence, final |-> {1}]
      /\ \A j \in Incident \ {i} : receipt'[j] = receipt[j]
  BY <1>1, <1>3
<1>6. req'[r] = Replied(f, "COMPLETE") /\ \A q \in Request \ {r} : req'[q] = req[q]
  BY <1>1, <1>3 DEF Become
<1>7. ASSUME NEW g \in Fingerprint
      PROVE  RowProven(g)'
  <2>1. RowProven(g) /\ IncidentOf[g] \in Incident
    BY DEF Proven
  <2>2. CASE g = f
    <3>1. dispatch'[g].redelivery = dispatch[g].redelivery /\ receipt'[IncidentOf[g]].fp = g
      BY <1>4, <1>5, <2>2
    <3> QED BY <1>3, <2>1, <3>1 DEF RowProven, Shown
  <2>3. CASE g # f
    BY <1>3, <1>4, <1>5, <2>1, <2>3 DEF RowProven, Shown
  <2> QED BY <2>2, <2>3
<1>8. ASSUME NEW j \in Incident
      PROVE  ReceiptOfRow(j)'
  <2>1. CASE j = i
    BY <1>1, <1>2, <1>4, <1>5, <2>1 DEF ReceiptOfRow
  <2>2. CASE j # i
    <3>1. ReceiptOfRow(j) /\ receipt'[j] = receipt[j] /\ receipt[j].fp \in Fingerprint \union {None}
      BY <1>1, <1>5, <2>2 DEF Proven, Receipt
    <3>2. receipt[j].fp # None => receipt[j].fp # f
      BY <2>2, <3>1 DEF ReceiptOfRow
    <3> QED BY <1>4, <3>1, <3>2 DEF ReceiptOfRow
  <2> QED BY <2>1, <2>2
<1>9. ASSUME NEW q \in Request
      PROVE  Carries(req[q])'
  <2>1. CASE q = r
    <3>1. "COMPLETE" \in DispatchState \ {"NONE"}
      BY DEF DispatchState
    <3>2. Replied(f, "COMPLETE").pc = "idle" /\ Replied(f, "COMPLETE").fp = f
      BY <1>1, <3>1, RepliedType
    <3> QED BY <1>1, <1>5, <1>6, <2>1, <3>2 DEF Carries
  <2>2. CASE q # r
    <3>1. /\ Carries(req[q]) /\ req'[q] = req[q]
          /\ req[q].pc # "idle" => req[q].fp \in Fingerprint
      BY <1>6, <2>2 DEF Proven, Inv, Typed, BusyHasPermit
    <3>2. req[q].reply = "COMPLETE" => IncidentOf[req[q].fp] # i
      BY <1>3, <3>1 DEF Carries
    <3> QED BY <1>3, <1>4, <1>5, <3>1, <3>2 DEF Carries, Shown
  <2> QED BY <2>1, <2>2
<1> QED BY <1>7, <1>8, <1>9 DEF Proven

\* A redelivery GitHub makes comes after those it made.
LEMMA WorldProven ==
  ASSUME Inv, Proven, World \/ UNCHANGED vars
  PROVE  Proven'
<1>1. UNCHANGED <<dispatch, receipt, req>>
  BY DEF World, ProviderDelivers, ForeignRedelivery, CandidateDrifts, ReceiverDrifts, database,
         vars
<1>2. ASSUME NEW f \in Fingerprint, NEW k, Shown(f, k)
      PROVE  Shown(f, k)'
  <2>1. CASE UNCHANGED attempts
    BY <1>2, <2>1 DEF Shown
  <2>2. ASSUME NEW i \in Incident, ProviderDelivers(i)
        PROVE  Shown(f, k)'
    <3>1. PICK e \in [ok : BOOLEAN, after : SUBSET Fingerprint] :
            attempts' = [attempts EXCEPT ![i] = Append(attempts[i], e)]
      <4>1. PICK ok \in BOOLEAN :
              attempts' = [attempts EXCEPT ![i] =
                 Append(attempts[i], [ok |-> ok,
                                      after |-> {g \in Of(i) : dispatch[g].state # "NONE"}])]
        BY <2>2 DEF ProviderDelivers
      <4> QED BY <4>1 DEF Of
    <3>2. attempts \in [Incident -> Seq([ok : BOOLEAN, after : SUBSET Fingerprint])]
      BY DEF Inv, Typed, TypeOK
    <3>3. CASE IncidentOf[f] = i
      <4>1. k \in 1..Len(attempts[i])
        BY <1>2, <3>2, <3>3 DEF Shown
      <4>2. /\ k \in DOMAIN Append(attempts[i], e)
            /\ Append(attempts[i], e)[k] = attempts[i][k]
        BY <3>2, <4>1
      <4> QED BY <1>2, <3>1, <3>2, <3>3, <4>2 DEF Shown
    <3>4. CASE IncidentOf[f] # i
      BY <1>2, <3>1, <3>2, <3>4 DEF Shown
    <3> QED BY <3>3, <3>4
  <2>3. CASE ~\E i \in Incident : ProviderDelivers(i)
    <3>1. UNCHANGED attempts
      BY <2>3 DEF World, ForeignRedelivery, CandidateDrifts, ReceiverDrifts, provider, vars
    <3> QED BY <2>1, <3>1
  <2> QED BY <2>2, <2>3
<1>3. \A f \in Fingerprint : RowProven(f)'
  BY <1>1, <1>2 DEF Proven, RowProven
<1>4. \A i \in Incident : ReceiptOfRow(i)'
  BY <1>1 DEF Proven, ReceiptOfRow
<1>5. ASSUME NEW q \in Request
      PROVE  Carries(req[q])'
  <2>1. Carries(req[q]) /\ (req[q].pc # "idle" => req[q].fp \in Fingerprint)
    BY DEF Proven, Inv, Typed, BusyHasPermit
  <2> QED BY <1>1, <1>2, <2>1 DEF Carries
<1> QED BY <1>3, <1>4, <1>5 DEF Proven

\* The evidence behind rows, receipts and answers lasts.
LEMMA ProvenInvariance == Spec => []Proven
<1>1. Inv /\ Proven /\ [Next]_vars => Proven'
  <2> SUFFICES ASSUME Inv, Proven, [Next]_vars
               PROVE  Proven'
    OBVIOUS
  <2>1. ASSUME NEW r \in Request, Begin(r) \/ Crash(r)
        PROVE  Proven'
    BY <2>1, BeginProven
  <2>2. ASSUME NEW r \in Request, Proceed(r)
        PROVE  Proven'
    BY <2>2, ProceedProven, OutcomeProven, ObservedProven, EndProven, CompleteProven DEF Proceed
  <2> QED BY <2>1, <2>2, WorldProven DEF Next
<1> QED BY <1>1, InitProven, Invariance, PTL DEF Spec

\* A receipt, a row COMPLETE and an answer COMPLETE stand for one redelivery
\* that GitHub made after the dispatch began, that was answered 2xx and that
\* left the receiver at one mutation.
THEOREM Receipts == Spec => []ReceiptProven
<1>1. Inv /\ Proven => ReceiptProven
  <2> SUFFICES ASSUME Inv, Proven
               PROVE  ReceiptProven
    OBVIOUS
  <2>1. ASSUME NEW i \in Incident, receipt[i].fp # None
        PROVE  LET f == receipt[i].fp IN
               /\ IncidentOf[f] = i
               /\ dispatch[f].state = "COMPLETE"
               /\ receipt[i].redelivery = dispatch[f].redelivery
               /\ Shown(f, receipt[i].redelivery)
               /\ receipt[i].final = {1}
    <3>1. receipt[i].fp \in Fingerprint
      BY <2>1 DEF Inv, Typed, TypeOK, Receipt
    <3> QED BY <2>1, <3>1 DEF Proven, ReceiptOfRow, RowProven
  <2>2. \A r \in Request :
          req[r].reply = "COMPLETE" => receipt[IncidentOf[req[r].fp]].fp = req[r].fp
    BY DEF Proven, Carries
  <2>3. \A f \in Fingerprint : dispatch[f].state = "COMPLETE" => receipt[IncidentOf[f]].fp = f
    BY DEF Proven, RowProven
  <2> QED BY <2>1, <2>2, <2>3 DEF ReceiptProven, Shown
<1> QED BY <1>1, Invariance, ProvenInvariance, PTL
==============================================================================
