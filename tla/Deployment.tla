------------------------------ MODULE Deployment ------------------------------
(***************************************************************************)
(* The deployment service                                                  *)
(* (src/src/server/recovery/recovery-deployment-service.ts): the operator  *)
(* approves the fingerprint of a verified repair, and deploys the permit,  *)
(* which applies the patch to the receiver's checkout with git, rebuilds   *)
(* the container and records whether the receiver came back.               *)
(*                                                                         *)
(* deploy() runs as a request.  Its code between two awaits is one action; *)
(* where it commits twice without an await the commits are two actions,    *)
(* since the process may die between them and another process may act.     *)
(* All incidents share one checkout and one container: the deployment      *)
(* target is a constant of the code.                                       *)
(*                                                                         *)
(* A fingerprint stands for the candidate it is computed from (attempt,    *)
(* repository, revision, patch): SHA-256 is taken to be injective.  A      *)
(* permit row and its deployment row are indexed by it.                    *)
(***************************************************************************)
EXTENDS Naturals, FiniteSets

CONSTANTS
    Attempt,        \* the recovery attempts, one per incident
    Fingerprint,
    AttemptOf,      \* the attempt a fingerprint was computed for
    Request,        \* concurrent deploy calls
    None,           \* no verified artifact, no permit
    MaxPolls,       \* health polls (healthPollCount)
    MaxDrift,       \* bound on changes of a verified artifact
    MaxEdits        \* bound on outside changes of the checkout

ASSUME AttemptOfAssumption == AttemptOf \in [Fingerprint -> Attempt]
ASSUME NoneAssumption == None \notin Fingerprint
ASSUME BoundsAssumption == /\ MaxPolls \in Nat \ {0}
                           /\ MaxDrift \in Nat
                           /\ MaxEdits \in Nat

VARIABLES
    \* the database
    artifact,   \* the REPAIR_VERIFIED artifact of an attempt, as a fingerprint
    permit,     \* deploy_permits.state
    row,        \* recovery_deployments.state
    \* the requests in progress, and what a dead process left running
    req,
    \* the receiver's host
    checkout,   \* the git checkout
    running,    \* the patches in the image the container runs
    applies,    \* git apply commands started under each permit
    \* what happened outside, for the bounds
    drifts,
    edits

database == <<artifact, permit, row>>
host     == <<checkout, running>>
vars == <<database, req, host, applies, drifts, edits>>

Of(a) == {f \in Fingerprint : AttemptOf[f] = a}

------------------------------------------------------------------------------
PermitState == {"NONE", "APPROVED", "CONSUMED"}
RowState == {"NONE", "PREPARED", "APPLYING", "VERIFYING",
             "VERIFIED", "FAILED", "OUTCOME_UNKNOWN"}

\* git status --porcelain is empty, and HEAD is the revision of the repair.
Checkout == [head : {"original", "moved"}, applied : SUBSET Fingerprint, edited : BOOLEAN]
Clean == checkout.applied = {} /\ ~checkout.edited
AtRevision == checkout.head = "original"

\* Before the permit is consumed, after it, and after the process died.
Preparing == {"preRead", "checkHead", "checkStatus", "checkPatch", "prepare"}
Deploying == {"startApplying", "reread", "recheckHead", "recheckStatus", "apply",
              "applied", "applyFailed", "applyLost", "build", "replace", "health", "postRead",
              "verifyFailed", "verifyLost", "verified"}
Orphaned == {"orphanApply", "orphanBuild", "orphanReplace"}
PC == {"idle"} \union Preparing \union Deploying \union Orphaned

RequestState == [pc : PC,
                 fp : Fingerprint \union {None},   \* the permit it works on
                 image : SUBSET Fingerprint,       \* the patches in the image built
                 polls : 0..MaxPolls]
Idle == [pc |-> "idle", fp |-> None, image |-> {}, polls |-> 0]

At(r, pc) == req[r].pc = pc
Become(r, state) == req' = [req EXCEPT ![r] = state]
GoTo(r, pc) == Become(r, [req[r] EXCEPT !.pc = pc])

TypeOK ==
    /\ artifact \in [Attempt -> Fingerprint \union {None}]
    /\ permit \in [Fingerprint -> PermitState]
    /\ row \in [Fingerprint -> RowState]
    /\ req \in [Request -> RequestState]
    /\ checkout \in Checkout
    /\ running \in SUBSET Fingerprint
    /\ applies \in [Fingerprint -> Nat]
    /\ drifts \in Nat
    /\ edits \in Nat

Init ==
    /\ artifact = [a \in Attempt |-> None]
    /\ permit = [f \in Fingerprint |-> "NONE"]
    /\ row = [f \in Fingerprint |-> "NONE"]
    /\ req = [r \in Request |-> Idle]
    /\ checkout = [head |-> "original", applied |-> {}, edited |-> FALSE]
    /\ running = {}
    /\ applies = [f \in Fingerprint |-> 0]
    /\ drifts = 0
    /\ edits = 0

------------------------------------------------------------------------------
(* Approval and the checks before the permit is consumed                   *)

\* A replay finds the permit, in whatever state, and changes nothing.
ApprovePermit(f) ==
    /\ artifact[AttemptOf[f]] = f
    /\ permit[f] = "NONE"
    /\ permit' = [permit EXCEPT ![f] = "APPROVED"]
    /\ UNCHANGED <<artifact, row, req, host, applies, drifts, edits>>

\* A permit that has a deployment row is refused: reported for reconciliation
\* or as attempted, never taken up.
DeployBegin(r, f) ==
    /\ At(r, "idle")
    /\ row[f] = "NONE"
    /\ permit[f] = "APPROVED"
    /\ artifact[AttemptOf[f]] = f
    /\ Become(r, [Idle EXCEPT !.pc = "preRead", !.fp = f])
    /\ UNCHANGED <<database, host, applies, drifts, edits>>

\* The pre-deploy receiver read, rev-parse HEAD, status and apply --check, one
\* await after the other.  Any of them may fail, which ends the call.
Preflight(r) ==
    /\ \/ At(r, "preRead")     /\ GoTo(r, "checkHead")
       \/ At(r, "checkHead")   /\ AtRevision /\ GoTo(r, "checkStatus")
       \/ At(r, "checkStatus") /\ Clean /\ GoTo(r, "checkPatch")
       \/ At(r, "checkPatch")  /\ GoTo(r, "prepare")
       \/ req[r].pc \in Preparing \ {"prepare"} /\ Become(r, Idle)
    /\ UNCHANGED <<database, host, applies, drifts, edits>>

\* Mutant: nothing keeps a second deployment of the attempt out.
Preparable_NotUnique(f) ==
    /\ artifact[AttemptOf[f]] = f
    /\ permit[f] = "APPROVED"
    /\ row[f] = "NONE"

\* Mutant: the candidate is not loaded again in the transaction.
Preparable_NoReload(f) ==
    /\ permit[f] = "APPROVED"
    /\ \A g \in Of(AttemptOf[f]) : row[g] = "NONE"

\* What insertPreparedDeployment checks again in its transaction, and the
\* unique attempt and permit of recovery_deployments.
Preparable(f) ==
    /\ artifact[AttemptOf[f]] = f
    /\ permit[f] = "APPROVED"
    /\ \A g \in Of(AttemptOf[f]) : row[g] = "NONE"

\* Mutant: the permit is not consumed in the transaction that inserts the row.
Prepare_KeepsPermit(r) ==
    LET f == req[r].fp IN
    /\ At(r, "prepare")
    /\ Preparable(f)
    /\ row' = [row EXCEPT ![f] = "PREPARED"]
    /\ GoTo(r, "startApplying")
    /\ UNCHANGED <<artifact, permit, host, applies, drifts, edits>>

\* The row is inserted and the permit consumed in one transaction.
Prepare(r) ==
    LET f == req[r].fp IN
    /\ At(r, "prepare")
    /\ Preparable(f)
    /\ row' = [row EXCEPT ![f] = "PREPARED"]
    /\ permit' = [permit EXCEPT ![f] = "CONSUMED"]
    /\ GoTo(r, "startApplying")
    /\ UNCHANGED <<artifact, host, applies, drifts, edits>>

PrepareNot(r) ==
    /\ At(r, "prepare")
    /\ ~Preparable(req[r].fp)
    /\ Become(r, Idle)
    /\ UNCHANGED <<database, host, applies, drifts, edits>>

------------------------------------------------------------------------------
(* Applying                                                                *)

\* The commit that precedes the consequential command.
StartApplying(r) ==
    LET f == req[r].fp IN
    /\ At(r, "startApplying")
    /\ IF row[f] = "PREPARED"
         THEN row' = [row EXCEPT ![f] = "APPLYING"] /\ GoTo(r, "reread")
         ELSE UNCHANGED row /\ Become(r, Idle)
    /\ UNCHANGED <<artifact, permit, host, applies, drifts, edits>>

\* The artifact, HEAD and the worktree are read again; a difference, or a
\* command that fails, leaves the row APPLYING for a person to reconcile.
Recheck(r) ==
    /\ \/ /\ At(r, "reread")
          /\ artifact[AttemptOf[req[r].fp]] = req[r].fp
          /\ GoTo(r, "recheckHead")
       \/ /\ At(r, "reread")
          /\ artifact[AttemptOf[req[r].fp]] # req[r].fp
          /\ Become(r, Idle)
       \/ At(r, "recheckHead") /\ AtRevision /\ GoTo(r, "recheckStatus")
       \/ req[r].pc \in {"recheckHead", "recheckStatus"} /\ Become(r, Idle)
    /\ UNCHANGED <<database, host, applies, drifts, edits>>

\* The worktree was clean: git apply is started at once.
StartApply(r) ==
    LET f == req[r].fp IN
    /\ At(r, "recheckStatus")
    /\ Clean
    /\ applies' = [applies EXCEPT ![f] = @ + 1]
    /\ GoTo(r, "apply")
    /\ UNCHANGED <<database, host, drifts, edits>>

\* git applies the whole patch or nothing.
Applied(f) == [checkout EXCEPT !.applied = @ \union {f}]

\* git apply ends: with status 0, with another status, or killed by a signal,
\* which may have been after it had done its work.
GitApplies(r) ==
    /\ At(r, "apply")
    /\ \/ /\ checkout' = Applied(req[r].fp)
          /\ \E end \in {"applied", "applyLost"} : GoTo(r, end)
       \/ /\ UNCHANGED checkout
          /\ \E end \in {"applyFailed", "applyLost"} : GoTo(r, end)
    /\ UNCHANGED <<database, running, applies, drifts, edits>>

StartVerifying(r) ==
    LET f == req[r].fp IN
    /\ At(r, "applied")
    /\ IF row[f] = "APPLYING"
         THEN row' = [row EXCEPT ![f] = "VERIFYING"] /\ GoTo(r, "build")
         ELSE UNCHANGED row /\ Become(r, Idle)
    /\ UNCHANGED <<artifact, permit, host, applies, drifts, edits>>

------------------------------------------------------------------------------
(* Rebuilding and verifying                                                *)

\* docker compose up --build: the image takes the checkout as it is when it is
\* built.
Builds(r) ==
    /\ At(r, "build")
    /\ \/ Become(r, [req[r] EXCEPT !.pc = "replace", !.image = checkout.applied])
       \/ \E end \in {"verifyFailed", "verifyLost"} : GoTo(r, end)
    /\ UNCHANGED <<database, host, applies, drifts, edits>>

\* Mutant: an image that is there is not replaced.
Replaces_Never(r) ==
    /\ At(r, "replace")
    /\ \E end \in {"health", "verifyFailed", "verifyLost"} :
         Become(r, [req[r] EXCEPT !.pc = end, !.polls = MaxPolls])
    /\ UNCHANGED <<database, host, applies, drifts, edits>>

\* The container is replaced by one of that image and the command is done, or
\* it fails or is lost, before or after that.
Replaces(r) ==
    /\ At(r, "replace")
    /\ \/ /\ running' = req[r].image
          /\ \E end \in {"health", "verifyFailed", "verifyLost"} :
               Become(r, [req[r] EXCEPT !.pc = end, !.polls = MaxPolls])
       \/ /\ UNCHANGED running
          /\ \E end \in {"verifyFailed", "verifyLost"} : GoTo(r, end)
    /\ UNCHANGED <<database, checkout, applies, drifts, edits>>

\* Mutant: the polls are not limited.
HealthPoll_Unbounded(r) ==
    /\ At(r, "health")
    /\ \/ GoTo(r, "postRead")
       \/ Become(r, [req[r] EXCEPT !.polls = @ - 1])
       \/ GoTo(r, "verifyLost")
    /\ UNCHANGED <<database, host, applies, drifts, edits>>

\* One health poll: 200, another status, or no valid status at all.
HealthPoll(r) ==
    /\ At(r, "health")
    /\ \/ GoTo(r, "postRead")
       \/ req[r].polls > 1 /\ Become(r, [req[r] EXCEPT !.polls = @ - 1])
       \/ req[r].polls = 1 /\ GoTo(r, "verifyFailed")
       \/ GoTo(r, "verifyLost")
    /\ UNCHANGED <<database, host, applies, drifts, edits>>

\* The receiver shows one mutation, another count, or cannot be read.
PostRead(r) ==
    /\ At(r, "postRead")
    /\ \E end \in {"verified", "verifyFailed", "verifyLost"} : GoTo(r, end)
    /\ UNCHANGED <<database, host, applies, drifts, edits>>

\* updateDeploymentOutcome, by what the request found out.
End == [applyFailed  |-> [from |-> "APPLYING",  to |-> "FAILED"],
        applyLost    |-> [from |-> "APPLYING",  to |-> "OUTCOME_UNKNOWN"],
        verifyFailed |-> [from |-> "VERIFYING", to |-> "FAILED"],
        verifyLost   |-> [from |-> "VERIFYING", to |-> "OUTCOME_UNKNOWN"],
        verified     |-> [from |-> "VERIFYING", to |-> "VERIFIED"]]

RecordEnd(r) ==
    LET f == req[r].fp
        end == End[req[r].pc]
    IN
    /\ req[r].pc \in DOMAIN End
    /\ row' = [row EXCEPT ![f] = IF @ = end.from THEN end.to ELSE @]
    /\ Become(r, Idle)
    /\ UNCHANGED <<artifact, permit, host, applies, drifts, edits>>

------------------------------------------------------------------------------
(* Crashes and the outside                                                 *)

\* The process dies; a command it started goes on without it.
Crash(r) ==
    /\ req[r].pc \in Preparing \union Deploying
    /\ CASE At(r, "apply")   -> GoTo(r, "orphanApply")
         [] At(r, "build")   -> GoTo(r, "orphanBuild")
         [] At(r, "replace") -> GoTo(r, "orphanReplace")
         [] OTHER            -> Become(r, Idle)
    /\ UNCHANGED <<database, host, applies, drifts, edits>>

\* The command left behind does its work, or fails, with nobody to report to.
OrphanRuns(r) ==
    /\ \/ /\ At(r, "orphanApply")
          /\ checkout' = Applied(req[r].fp)
          /\ UNCHANGED running
          /\ Become(r, Idle)
       \/ /\ At(r, "orphanBuild")
          /\ UNCHANGED host
          /\ Become(r, [req[r] EXCEPT !.pc = "orphanReplace", !.image = checkout.applied])
       \/ /\ At(r, "orphanReplace")
          /\ running' = req[r].image
          /\ UNCHANGED checkout
          /\ Become(r, Idle)
       \/ /\ req[r].pc \in Orphaned
          /\ UNCHANGED host
          /\ Become(r, Idle)
    /\ UNCHANGED <<database, applies, drifts, edits>>

\* A recovery attempt becomes REPAIR_VERIFIED.
RepairVerified(f) ==
    /\ artifact[AttemptOf[f]] = None
    /\ artifact' = [artifact EXCEPT ![AttemptOf[f]] = f]
    /\ UNCHANGED <<permit, row, req, host, applies, drifts, edits>>

\* The verified artifact is replaced behind the service's back.
ArtifactDrifts(f) ==
    /\ drifts < MaxDrift
    /\ drifts' = drifts + 1
    /\ artifact[AttemptOf[f]] \notin {None, f}
    /\ artifact' = [artifact EXCEPT ![AttemptOf[f]] = f]
    /\ UNCHANGED <<permit, row, req, host, applies, edits>>

\* Someone edits the checkout, moves its HEAD, or resets it.
CheckoutEdited ==
    /\ edits < MaxEdits
    /\ edits' = edits + 1
    /\ checkout' \in {[checkout EXCEPT !.edited = TRUE],
                      [checkout EXCEPT !.head = "moved"],
                      [head |-> "original", applied |-> {}, edited |-> FALSE]}
    /\ UNCHANGED <<database, req, running, applies, drifts>>

------------------------------------------------------------------------------
Proceed(r) ==
    \/ Preflight(r)
    \/ Prepare(r) \/ PrepareNot(r)
    \/ StartApplying(r) \/ Recheck(r) \/ StartApply(r) \/ GitApplies(r)
    \/ StartVerifying(r) \/ Builds(r) \/ Replaces(r) \/ HealthPoll(r) \/ PostRead(r)
    \/ RecordEnd(r)

Next ==
    \/ \E f \in Fingerprint : ApprovePermit(f) \/ RepairVerified(f) \/ ArtifactDrifts(f)
    \/ \E r \in Request :
         \/ \E f \in Fingerprint : DeployBegin(r, f)
         \/ Proceed(r) \/ Crash(r) \/ OrphanRuns(r)
    \/ CheckoutEdited

Spec == Init /\ [][Next]_vars
------------------------------------------------------------------------------
(* What the service guarantees                                             *)

\* A permit is spent exactly when its deployment row exists, so a call that
\* finds no row may still deploy and one that finds a row never does.
SpentWithRow == \A f \in Fingerprint : permit[f] = "CONSUMED" <=> row[f] # "NONE"

\* Of all requests, and the commands dead ones left behind, at most one is past
\* the consumption of a permit of the attempt: an interrupted deployment is
\* reported, never taken up by the next call.
OneDeployer ==
    \A r, q \in Request :
        /\ req[r].pc \in Deploying \union Orphaned
        /\ req[q].pc \in Deploying \union Orphaned
        /\ AttemptOf[req[r].fp] = AttemptOf[req[q].fp]
        => r = q

\* However calls interleave, retry and crash, git apply is started at most once
\* for a recovery attempt.
AtMostOneApply ==
    \A f, g \in Fingerprint :
        applies[f] > 0 /\ applies[g] > 0 /\ AttemptOf[f] = AttemptOf[g]
            => f = g /\ applies[f] = 1

\* A deployment that is VERIFIED was applied once and, if no other patch was
\* deployed to the checkout and nobody edited it, the container runs that
\* patch and no other.
VerifiedRuns ==
    \A f \in Fingerprint :
        row[f] = "VERIFIED" =>
            /\ applies[f] = 1
            /\ edits = 0 /\ (\A g \in Fingerprint : applies[g] > 0 => g = f)
                  => checkout.applied = {f} /\ running = {f}

\* A permit is spent only on the artifact it was approved for, even if the
\* artifact changed during the preflight.
SpentOnApprovedArtifact ==
    [][\A f \in Fingerprint :
         permit[f] = "APPROVED" /\ permit'[f] = "CONSUMED"
             => artifact[AttemptOf[f]] = f]_vars

\* docs/INVARIANTS.md:140-143 has the deployed candidate's identity verified.
\* Then whenever a deployment passed its checks and is about to be recorded
\* VERIFIED, the container would run the approved patch and nothing else (read
\* with MaxEdits = 0, where only deployments touch the checkout).
VerifiedIdentity ==
    \A r \in Request : At(r, "verified") => running = {req[r].fp}

\* The service implements the permit gate, with git apply as the effect.
PhaseOf(f) ==
    CASE permit[f] = "NONE" -> "unapproved"
      [] permit[f] = "APPROVED" -> "approved"
      [] permit[f] = "CONSUMED" /\ row[f] = "VERIFIED" -> "succeeded"
      [] permit[f] = "CONSUMED" /\ row[f] = "FAILED" -> "failed"
      [] permit[f] = "CONSUMED" /\ row[f] \notin {"VERIFIED", "FAILED"} -> "claimed"

GatePhase == [f \in Fingerprint |-> PhaseOf(f)]

Gate == INSTANCE PermitGate WITH Key <- Fingerprint, Group <- Attempt,
                                 GroupOf <- AttemptOf,
                                 phase <- GatePhase, acts <- applies
ImplementsGate == Gate!GateSpec
===============================================================================
