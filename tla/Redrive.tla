------------------------------- MODULE Redrive -------------------------------
(***************************************************************************)
(* The redrive service (src/src/server/recovery/redrive-service.ts): the   *)
(* operator approves the fingerprint of a recovery candidate, and executes *)
(* the permit, which asks GitHub for one redelivery, watches the provider, *)
(* reads the receiver and writes the recovery receipt.                     *)
(*                                                                         *)
(* approve() and execute() are asynchronous.  They run as requests; a      *)
(* request's code between two awaits is one action, since Node runs it     *)
(* without interruption and every transaction is IMMEDIATE, and any number *)
(* of requests, of one process or of several, interleave at the awaits.    *)
(* An await is two steps: the moment the other side answers and the moment *)
(* the request resumes, so what a request saw may be stale when it acts.   *)
(*                                                                         *)
(* A fingerprint stands for the candidate it is computed from (incident,   *)
(* verified attempt, verified deployment, connection, delivery, patch and  *)
(* target): SHA-256 is taken to be injective.  A permit row and its        *)
(* dispatch row (redrive_permit_id is UNIQUE) are indexed by it.           *)
(***************************************************************************)
EXTENDS Naturals, Sequences, FiniteSets

CONSTANTS
    Incident,
    Fingerprint,
    IncidentOf,     \* the incident a fingerprint was computed for
    Request,        \* concurrent approve and execute calls
    None,           \* no eligible candidate, no receipt
    MaxPolls,       \* polls of the provider history (maxAttempts)
    MaxMutations,   \* bound on the receiver's mutation count
    MaxForeign,     \* bound on redeliveries asked for outside Redrive
    MaxDrift        \* bound on outside changes of candidates and receiver

ASSUME IncidentOfAssumption == IncidentOf \in [Fingerprint -> Incident]
ASSUME NoneAssumption == None \notin Fingerprint
ASSUME BoundsAssumption == /\ MaxPolls \in Nat \ {0}
                           /\ MaxMutations \in Nat \ {0}
                           /\ MaxForeign \in Nat
                           /\ MaxDrift \in Nat

VARIABLES
    \* the database
    cand,       \* what loadCandidate finds for an incident
    permit,     \* redrive_permits.state
    dispatch,   \* redrive_dispatches
    receipt,    \* recovery_receipts
    \* the requests in progress
    req,
    \* GitHub and the receiver
    posts,      \* redelivery POSTs sent under each permit
    queued,     \* redeliveries GitHub accepted and has not made yet
    attempts,   \* redeliveries made, in order, with what they returned
    mutations,  \* the receiver's mutation count for the delivery
    \* what happened outside, for the bounds
    foreign,
    drifts

database == <<cand, permit, dispatch, receipt>>
provider == <<queued, attempts>>
outside  == <<mutations, foreign, drifts>>
vars == <<database, req, posts, provider, outside>>

Of(i) == {f \in Fingerprint : IncidentOf[f] = i}

------------------------------------------------------------------------------
(* Rows and requests.  An optional number is a set of at most one number.  *)

PermitState == {"NONE", "APPROVED", "CONSUMED"}
DispatchState == {"NONE", "DISPATCHING", "DISPATCHED", "OUTCOME_UNKNOWN",
                  "PROVIDER_VERIFIED", "COMPLETE", "FAILED"}
Terminal == {"COMPLETE", "FAILED"}

\* redelivery is the index in attempts of the redelivery recorded, 0 if none.
Dispatch == [state : DispatchState, redelivery : Nat, final : SUBSET Nat]
NoDispatch == [state |-> "NONE", redelivery |-> 0, final |-> {}]

Receipt == [fp : Fingerprint \union {None}, redelivery : Nat, final : SUBSET Nat]
NoReceipt == [fp |-> None, redelivery |-> 0, final |-> {}]

PC == {"idle", "approveRead", "approveCommit", "executeRead", "executeCommit",
       "post", "postAccepted", "postRejected", "postLost",
       "poll", "observed", "finalRead", "finalCommit"}
Reply == (DispatchState \ {"NONE"}) \union {"none"}

RequestState == [pc : PC,
                 fp : Fingerprint \union {None},     \* the permit it works on
                 cand : Fingerprint \union {None},   \* the candidate it loaded
                 seen : SUBSET Nat,                  \* the count it read
                 row : {"none", "DISPATCHED", "OUTCOME_UNKNOWN"},
                 evidence : Nat,                     \* the redelivery it found
                 polls : 0..MaxPolls,
                 reply : Reply]                      \* what it returned

Idle == [pc |-> "idle", fp |-> None, cand |-> None, seen |-> {},
         row |-> "none", evidence |-> 0, polls |-> 0, reply |-> "none"]

At(r, pc) == req[r].pc = pc
Become(r, state) == req' = [req EXCEPT ![r] = state]
Replied(f, outcome) == [Idle EXCEPT !.fp = f, !.reply = outcome]

\* The permits of an incident (getLatestPermit).
Permits(i) == {f \in Of(i) : permit[f] # "NONE"}

TypeOK ==
    /\ cand \in [Incident -> Fingerprint \union {None}]
    /\ permit \in [Fingerprint -> PermitState]
    /\ dispatch \in [Fingerprint -> Dispatch]
    /\ receipt \in [Incident -> Receipt]
    /\ req \in [Request -> RequestState]
    /\ posts \in [Fingerprint -> Nat]
    /\ queued \in [Incident -> Nat]
    /\ attempts \in [Incident -> Seq([ok : BOOLEAN, after : SUBSET Fingerprint])]
    /\ mutations \in [Incident -> Nat]
    /\ foreign \in Nat
    /\ drifts \in Nat

\* A recovery may or may not be deployed and verified yet, and the receiver
\* shows the delivery applied any number of times; nothing was redriven.
Init ==
    /\ cand \in [Incident -> Fingerprint \union {None}]
    /\ \A i \in Incident : cand[i] \in Of(i) \union {None}
    /\ permit = [f \in Fingerprint |-> "NONE"]
    /\ dispatch = [f \in Fingerprint |-> NoDispatch]
    /\ receipt = [i \in Incident |-> NoReceipt]
    /\ req = [r \in Request |-> Idle]
    /\ posts = [f \in Fingerprint |-> 0]
    /\ queued = [i \in Incident |-> 0]
    /\ attempts = [i \in Incident |-> <<>>]
    /\ mutations \in [Incident -> 0..MaxMutations]
    /\ foreign = 0
    /\ drifts = 0

------------------------------------------------------------------------------
(* approve()                                                               *)

\* A call that finds the permit already there, another permit of the incident,
\* or no eligible candidate returns or fails at once and changes nothing.
ApproveBegin(r, f) ==
    /\ At(r, "idle")
    /\ Permits(IncidentOf[f]) = {}
    /\ cand[IncidentOf[f]] # None
    /\ Become(r, [Idle EXCEPT !.pc = "approveRead", !.fp = f,
                              !.cand = cand[IncidentOf[f]]])
    /\ UNCHANGED <<database, posts, provider, outside>>

\* The state the permit was asked for is still the state there is.
Approvable(r) ==
    LET f == req[r].fp IN
    /\ req[r].seen = {1}
    /\ req[r].cand = f
    /\ cand[IncidentOf[f]] = req[r].cand
    /\ Permits(IncidentOf[f]) = {}

ApproveCommit(r) ==
    /\ At(r, "approveCommit")
    /\ \/ /\ Approvable(r)
          /\ permit' = [permit EXCEPT ![req[r].fp] = "APPROVED"]
       \/ /\ ~Approvable(r)
          /\ UNCHANGED permit
    /\ Become(r, Idle)
    /\ UNCHANGED <<cand, dispatch, receipt, posts, provider, outside>>

------------------------------------------------------------------------------
(* execute()                                                               *)

\* Mutant: a row found DISPATCHING is taken for one that was not sent yet.
Continuation_Resends(f, c, d) ==
    IF c # f THEN Idle
    ELSE IF d.state = "DISPATCHING"
      THEN [Idle EXCEPT !.pc = "post", !.fp = f, !.cand = c]
    ELSE Replied(f, d.state)

\* continueDispatch: what a request does with a dispatch row d it read, given
\* the candidate c it loaded (assertDispatchContinuity compares the two).
Continuation(f, c, d) ==
    IF c # f THEN Idle
    ELSE IF d.state \in {"DISPATCHED", "OUTCOME_UNKNOWN"}
      THEN [Idle EXCEPT !.pc = "poll", !.fp = f, !.cand = c,
                        !.row = d.state, !.polls = MaxPolls]
    ELSE IF d.state = "PROVIDER_VERIFIED"
      THEN IF d.redelivery = 0 THEN Idle
           ELSE [Idle EXCEPT !.pc = "finalRead", !.fp = f, !.cand = c,
                             !.evidence = d.redelivery]
    ELSE Replied(f, d.state)

\* The permit was used before: a receipt is returned, DISPATCHING and the
\* terminal states are reported, the states between are continued.
ExecuteExisting(r, f) ==
    LET i == IncidentOf[f] IN
    /\ At(r, "idle")
    /\ receipt[i].fp \in {None, f}
    /\ dispatch[f].state # "NONE"
    /\ cand[i] # None
    /\ Become(r, IF receipt[i].fp = f /\ cand[i] = f
                   THEN Replied(f, "COMPLETE")
                   ELSE Continuation(f, cand[i], dispatch[f]))
    /\ UNCHANGED <<database, posts, provider, outside>>

ExecuteBegin(r, f) ==
    LET i == IncidentOf[f] IN
    /\ At(r, "idle")
    /\ permit[f] = "APPROVED"
    /\ receipt[i].fp = None
    /\ dispatch[f].state = "NONE"
    /\ cand[i] # None
    /\ Become(r, [Idle EXCEPT !.pc = "executeRead", !.fp = f, !.cand = cand[i]])
    /\ UNCHANGED <<database, posts, provider, outside>>

\* The receiver was read and the fingerprint recomputed from what was loaded.
Fresh(r) == req[r].seen = {1} /\ req[r].cand = req[r].fp

\* Mutant: the candidate is not loaded again in the transaction.
Consumable_NoReload(r) ==
    LET f == req[r].fp IN
    /\ Fresh(r)
    /\ dispatch[f].state = "NONE"
    /\ permit[f] = "APPROVED"

Consumable(r) ==
    LET f == req[r].fp IN
    /\ Fresh(r)
    /\ dispatch[f].state = "NONE"
    /\ permit[f] = "APPROVED"
    /\ cand[IncidentOf[f]] = req[r].cand

\* The permit is consumed and the dispatch row written in one transaction.
Consume(r) ==
    LET f == req[r].fp IN
    /\ At(r, "executeCommit")
    /\ Consumable(r)
    /\ permit' = [permit EXCEPT ![f] = "CONSUMED"]
    /\ dispatch' = [dispatch EXCEPT ![f] = [NoDispatch EXCEPT !.state = "DISPATCHING"]]
    /\ Become(r, [req[r] EXCEPT !.pc = "post"])
    /\ UNCHANGED <<cand, receipt, posts, provider, outside>>

\* Another request dispatched during the receiver read, or nothing may be done.
ConsumeNot(r) ==
    LET f == req[r].fp IN
    /\ At(r, "executeCommit")
    /\ ~Consumable(r)
    /\ Become(r, IF Fresh(r) /\ dispatch[f].state # "NONE"
                   THEN Continuation(f, req[r].cand, dispatch[f])
                   ELSE Idle)
    /\ UNCHANGED <<database, posts, provider, outside>>

\* redeliverWebhookDelivery reaches GitHub.  GitHub accepts it, refuses it, or
\* the answer is lost and the redelivery may or may not have been accepted.
PostReaches(r) ==
    LET f == req[r].fp
        i == IncidentOf[f]
    IN
    /\ At(r, "post")
    /\ posts' = [posts EXCEPT ![f] = @ + 1]
    /\ \E outcome \in {"postAccepted", "postRejected", "postLost"},
          taken \in {0, 1} :
         /\ outcome = "postAccepted" => taken = 1
         /\ outcome = "postRejected" => taken = 0
         /\ queued' = [queued EXCEPT ![i] = @ + taken]
         /\ Become(r, [req[r] EXCEPT !.pc = outcome])
    /\ UNCHANGED <<database, attempts, outside>>

\* The calls before the POST (token, repositories, hook) fail; a configuration
\* error is thrown on and leaves the row DISPATCHING.
PostNeverSent(r) ==
    /\ At(r, "post")
    /\ \E next \in {Idle, [req[r] EXCEPT !.pc = "postRejected"],
                    [req[r] EXCEPT !.pc = "postLost"]} : Become(r, next)
    /\ UNCHANGED <<database, posts, provider, outside>>

\* transitionDispatch: a compare-and-set whose result is not looked at.
Transition(d, from, to, redelivery) ==
    IF d.state # from THEN d
    ELSE [d EXCEPT !.state = to,
                   !.redelivery = IF redelivery = 0 THEN @ ELSE redelivery]

Rejected(r) ==
    LET f == req[r].fp IN
    /\ At(r, "postRejected")
    /\ dispatch' = [dispatch EXCEPT ![f] = Transition(@, "DISPATCHING", "FAILED", 0)]
    /\ Become(r, Replied(f, "FAILED"))
    /\ UNCHANGED <<cand, permit, receipt, posts, provider, outside>>

Lost(r) ==
    LET f == req[r].fp IN
    /\ At(r, "postLost")
    /\ dispatch' = [dispatch EXCEPT ![f] = Transition(@, "DISPATCHING", "OUTCOME_UNKNOWN", 0)]
    /\ Become(r, Replied(f, "OUTCOME_UNKNOWN"))
    /\ UNCHANGED <<cand, permit, receipt, posts, provider, outside>>

Accepted(r) ==
    LET f == req[r].fp IN
    /\ At(r, "postAccepted")
    /\ dispatch' = [dispatch EXCEPT ![f] = Transition(@, "DISPATCHING", "DISPATCHED", 0)]
    /\ Become(r, Continuation(f, req[r].cand, dispatch'[f]))
    /\ UNCHANGED <<cand, permit, receipt, posts, provider, outside>>

------------------------------------------------------------------------------
(* observeRedelivery                                                       *)

\* Mutant: a redelivery made before the dispatch counts as well.
Matching_AnyTime(f) == DOMAIN attempts[IncidentOf[f]]

\* Redeliveries of this delivery made since the dispatch row was written.
Matching(f) ==
    LET made == attempts[IncidentOf[f]]
    IN  {k \in DOMAIN made : f \in made[k].after}

\* Mutant: the last poll is followed by another round.
PollAgain_Restarts(r) ==
    /\ At(r, "poll")
    /\ Matching(req[r].fp) = {}
    /\ Become(r, [req[r] EXCEPT !.polls = IF @ > 1 THEN @ - 1 ELSE MaxPolls])
    /\ UNCHANGED <<database, posts, provider, outside>>

\* One poll read the history and found nothing: sleep and poll again.
PollAgain(r) ==
    /\ At(r, "poll")
    /\ Matching(req[r].fp) = {}
    /\ req[r].polls > 1
    /\ Become(r, [req[r] EXCEPT !.polls = @ - 1])
    /\ UNCHANGED <<database, posts, provider, outside>>

\* Exactly one redelivery, and it was answered 2xx.
PollFinds(r) ==
    LET f == req[r].fp IN
    /\ At(r, "poll")
    /\ \E k \in Matching(f) :
         /\ Matching(f) = {k}
         /\ attempts[IncidentOf[f]][k].ok
         /\ Become(r, [req[r] EXCEPT !.pc = "observed", !.evidence = k])
    /\ UNCHANGED <<database, posts, provider, outside>>

\* The list call fails or returns something that cannot be parsed.
PollUnreadable(r) ==
    /\ At(r, "poll")
    /\ Become(r, [req[r] EXCEPT !.pc = "observed", !.evidence = 0])
    /\ UNCHANGED <<database, posts, provider, outside>>

\* Several redeliveries, an unsuccessful one, or none up to the last poll.
PollGivesUp(r) ==
    LET f == req[r].fp
        made == attempts[IncidentOf[f]]
    IN
    /\ At(r, "poll")
    /\ IF Matching(f) = {} THEN req[r].polls = 1
       ELSE Cardinality(Matching(f)) > 1 \/ \E k \in Matching(f) : ~made[k].ok
    /\ Become(r, [req[r] EXCEPT !.pc = "observed", !.evidence = 0])
    /\ UNCHANGED <<database, posts, provider, outside>>

\* An accepted dispatch with no proof of success is failed; one whose
\* acceptance is unknown stays so.
ObservedNothing(r) ==
    LET f == req[r].fp IN
    /\ At(r, "observed")
    /\ req[r].evidence = 0
    /\ dispatch' = [dispatch EXCEPT ![f] =
                      IF req[r].row = "DISPATCHED"
                        THEN Transition(@, "DISPATCHED", "FAILED", 0) ELSE @]
    /\ Become(r, Replied(f, IF req[r].row = "DISPATCHED" THEN "FAILED"
                                                         ELSE "OUTCOME_UNKNOWN"))
    /\ UNCHANGED <<cand, permit, receipt, posts, provider, outside>>

\* The row read back decides how to go on, whoever wrote it.
ObservedSuccess(r) ==
    LET f == req[r].fp IN
    /\ At(r, "observed")
    /\ req[r].evidence # 0
    /\ dispatch' = [dispatch EXCEPT ![f] =
                      Transition(@, req[r].row, "PROVIDER_VERIFIED", req[r].evidence)]
    /\ Become(r, IF dispatch'[f].redelivery = 0 THEN Idle
                 ELSE [Idle EXCEPT !.pc = "finalRead", !.fp = f,
                                   !.cand = req[r].cand,
                                   !.evidence = dispatch'[f].redelivery])
    /\ UNCHANGED <<cand, permit, receipt, posts, provider, outside>>

------------------------------------------------------------------------------
(* completeFromProviderVerified                                            *)

FinalUnread(r) ==
    /\ At(r, "finalCommit")
    /\ req[r].seen = {}
    /\ Become(r, Replied(req[r].fp, "PROVIDER_VERIFIED"))
    /\ UNCHANGED <<database, posts, provider, outside>>

FinalMismatch(r) ==
    LET f == req[r].fp
        row == dispatch[f]
    IN
    /\ At(r, "finalCommit")
    /\ req[r].seen \notin {{}, {1}}
    /\ dispatch' = [dispatch EXCEPT ![f] =
                      IF row.state = "PROVIDER_VERIFIED"
                        THEN [row EXCEPT !.state = "FAILED", !.final = req[r].seen]
                        ELSE row]
    /\ Become(r, Replied(f, "FAILED"))
    /\ UNCHANGED <<cand, permit, receipt, posts, provider, outside>>

\* The row becomes COMPLETE and the receipt is written in one transaction; the
\* receipt takes its redelivery from the row this request read earlier.
Complete(r) ==
    LET f == req[r].fp
        i == IncidentOf[f]
    IN
    /\ At(r, "finalCommit")
    /\ req[r].seen = {1}
    /\ receipt[i].fp = None
    /\ dispatch[f].state = "PROVIDER_VERIFIED"
    /\ dispatch' = [dispatch EXCEPT ![f].state = "COMPLETE", ![f].final = req[r].seen]
    /\ receipt' = [receipt EXCEPT ![i] = [fp |-> f, redelivery |-> req[r].evidence,
                                          final |-> req[r].seen]]
    /\ Become(r, Replied(f, "COMPLETE"))
    /\ UNCHANGED <<cand, permit, posts, provider, outside>>

\* Another request completed first, or the row is no longer PROVIDER_VERIFIED.
CompleteNot(r) ==
    LET f == req[r].fp
        i == IncidentOf[f]
    IN
    /\ At(r, "finalCommit")
    /\ req[r].seen = {1}
    /\ receipt[i].fp # None \/ dispatch[f].state # "PROVIDER_VERIFIED"
    /\ Become(r, IF receipt[i].fp # None THEN Replied(f, "COMPLETE") ELSE Idle)
    /\ UNCHANGED <<database, posts, provider, outside>>

------------------------------------------------------------------------------
(* The receiver, GitHub, the rest of the world, and crashes                *)

\* A business-state read is answered with the count of that moment, or fails.
ReceiverAnswers(r) ==
    LET n == mutations[IncidentOf[req[r].fp]] IN
    /\ \E step \in {<<"approveRead", "approveCommit">>,
                    <<"executeRead", "executeCommit">>,
                    <<"finalRead", "finalCommit">>} :
         /\ At(r, step[1])
         /\ \E answer \in {{n}, {}} :
              Become(r, [req[r] EXCEPT !.pc = step[2], !.seen = answer])
    /\ UNCHANGED <<database, posts, provider, outside>>

\* GitHub makes an accepted redelivery; a repaired receiver leaves the count
\* alone, a badly repaired one counts again, and any status may come back.
ProviderDelivers(i) ==
    /\ queued[i] > 0
    /\ queued' = [queued EXCEPT ![i] = @ - 1]
    /\ \E ok \in BOOLEAN :
         attempts' = [attempts EXCEPT ![i] =
                        Append(@, [ok |-> ok,
                                   after |-> {f \in Of(i) : dispatch[f].state # "NONE"}])]
    /\ \E n \in {mutations[i], mutations[i] + 1} :
         /\ n <= MaxMutations
         /\ mutations' = [mutations EXCEPT ![i] = n]
    /\ UNCHANGED <<database, req, posts, foreign, drifts>>

\* Someone redelivers the same delivery from GitHub's own pages.
ForeignRedelivery(i) ==
    /\ foreign < MaxForeign
    /\ foreign' = foreign + 1
    /\ queued' = [queued EXCEPT ![i] = @ + 1]
    /\ UNCHANGED <<database, req, posts, attempts, mutations, drifts>>

\* The deployment becomes verified, or the durable candidate changes.
CandidateDrifts(i) ==
    /\ drifts < MaxDrift
    /\ drifts' = drifts + 1
    /\ \E c \in Of(i) \union {None} : cand' = [cand EXCEPT ![i] = c]
    /\ UNCHANGED <<permit, dispatch, receipt, req, posts, provider, mutations, foreign>>

\* The receiver's business state changes for a reason of its own.
ReceiverDrifts(i) ==
    /\ drifts < MaxDrift
    /\ drifts' = drifts + 1
    /\ \E n \in 0..MaxMutations : mutations' = [mutations EXCEPT ![i] = n]
    /\ UNCHANGED <<database, req, posts, provider, foreign>>

\* The process of a request dies; the database and GitHub keep what they have.
Crash(r) ==
    /\ ~At(r, "idle")
    /\ Become(r, Idle)
    /\ UNCHANGED <<database, posts, provider, outside>>

------------------------------------------------------------------------------
Begin(r) == \E f \in Fingerprint : \/ ApproveBegin(r, f)
                                   \/ ExecuteExisting(r, f)
                                   \/ ExecuteBegin(r, f)

Proceed(r) ==
    \/ ReceiverAnswers(r)
    \/ ApproveCommit(r)
    \/ Consume(r) \/ ConsumeNot(r)
    \/ PostReaches(r) \/ PostNeverSent(r)
    \/ Rejected(r) \/ Lost(r) \/ Accepted(r)
    \/ PollAgain(r) \/ PollFinds(r) \/ PollUnreadable(r) \/ PollGivesUp(r)
    \/ ObservedNothing(r) \/ ObservedSuccess(r)
    \/ FinalUnread(r) \/ FinalMismatch(r) \/ Complete(r) \/ CompleteNot(r)

World == \E i \in Incident : \/ ProviderDelivers(i)
                             \/ ForeignRedelivery(i)
                             \/ CandidateDrifts(i)
                             \/ ReceiverDrifts(i)

Next == \/ \E r \in Request : Begin(r) \/ Proceed(r) \/ Crash(r)
        \/ World

Spec == Init /\ [][Next]_vars

\* A pending call is answered or times out and its request then runs on; that
\* anybody starts a request, or that GitHub delivers, is not assumed.
FairSpec == Spec /\ \A r \in Request : WF_vars(Proceed(r))
------------------------------------------------------------------------------
(* What the service guarantees                                             *)

\* Two requests that approve the same incident at once, for the same or for
\* different fingerprints, leave it with one permit: the latest-permit check
\* before the receiver read is repeated in the transaction after it.
AtMostOnePermit ==
    \A f, g \in Fingerprint :
        permit[f] # "NONE" /\ permit[g] # "NONE" /\ IncidentOf[f] = IncidentOf[g]
            => f = g

\* However requests interleave, retry and crash, GitHub is asked at most once
\* for a redelivery of an incident's delivery: the permit is spent for good,
\* and an unresolved outcome is watched, never repeated.
AtMostOneRedelivery ==
    \A f, g \in Fingerprint :
        posts[f] > 0 /\ posts[g] > 0 /\ IncidentOf[f] = IncidentOf[g]
            => f = g /\ posts[f] = 1

\* A receipt stands for evidence that still can be shown: its dispatch row is
\* COMPLETE with the same redelivery, which GitHub made after the dispatch
\* began and answered 2xx, and the receiver counted exactly one mutation.  No row
\* is COMPLETE and no request answers COMPLETE without it, whichever request
\* wrote it.
ReceiptProven ==
    /\ \A i \in Incident :
         LET f == receipt[i].fp IN
         f # None =>
             /\ IncidentOf[f] = i
             /\ dispatch[f].state = "COMPLETE"
             /\ receipt[i].redelivery = dispatch[f].redelivery
             /\ receipt[i].redelivery \in DOMAIN attempts[i]
             /\ f \in attempts[i][receipt[i].redelivery].after
             /\ attempts[i][receipt[i].redelivery].ok
             /\ receipt[i].final = {1}
    /\ \A f \in Fingerprint :
         dispatch[f].state = "COMPLETE" => receipt[IncidentOf[f]].fp = f
    /\ \A r \in Request :
         req[r].reply = "COMPLETE" => receipt[IncidentOf[req[r].fp]].fp = req[r].fp

\* GitHub is asked only while the durable row says DISPATCHING and the permit
\* is spent, so a process that dies at any point leaves a row that later
\* requests treat as possibly sent.
PostIsFenced ==
    [][\A f \in Fingerprint :
         posts'[f] # posts[f] => /\ dispatch[f].state = "DISPATCHING"
                                 /\ permit[f] = "CONSUMED"]_vars

\* A permit is spent only on the state it was approved for: a candidate that
\* changed during the receiver read stops the dispatch.
SpentOnApprovedState ==
    [][\A f \in Fingerprint :
         permit[f] = "APPROVED" /\ permit'[f] = "CONSUMED"
             => cand[IncidentOf[f]] = f]_vars

\* What one request settled no slower request revises: a terminal row stays as
\* it is, and a recorded redelivery is never replaced by another.
Irrevocable ==
    [][\A f \in Fingerprint :
         /\ dispatch[f].state \in Terminal => dispatch'[f] = dispatch[f]
         /\ dispatch[f].redelivery # 0
              => dispatch'[f].redelivery = dispatch[f].redelivery]_vars

\* Every call of approve or execute returns: polling is bounded.
RequestReturns == \A r \in Request : req[r].pc # "idle" ~> req[r].pc = "idle"

\* README.md:709 says that an ambiguous result becomes OUTCOME UNKNOWN.  Then
\* a row would not be FAILED while GitHub still owes the redelivery it accepted
\* (read with MaxForeign = 0, where every redelivery was asked for by Redrive).
AmbiguousIsUnknown ==
    \A f \in Fingerprint :
        dispatch[f].state = "FAILED" => queued[IncidentOf[f]] = 0

\* The service implements the permit gate: approval, one claim per incident, at
\* most one external effect, one settled result.
PhaseOf(f) ==
    CASE permit[f] = "NONE" -> "unapproved"
      [] permit[f] = "APPROVED" -> "approved"
      [] permit[f] = "CONSUMED" /\ dispatch[f].state = "COMPLETE" -> "succeeded"
      [] permit[f] = "CONSUMED" /\ dispatch[f].state = "FAILED" -> "failed"
      [] permit[f] = "CONSUMED" /\ dispatch[f].state \notin Terminal -> "claimed"

GatePhase == [f \in Fingerprint |-> PhaseOf(f)]

Gate == INSTANCE PermitGate WITH Key <- Fingerprint, Group <- Incident,
                                 GroupOf <- IncidentOf,
                                 phase <- GatePhase, acts <- posts
ImplementsGate == Gate!GateSpec
==============================================================================
