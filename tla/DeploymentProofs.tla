-------------------------- MODULE DeploymentProofs --------------------------
(***************************************************************************)
(* Theorems about the permit gate, for every set of fingerprints, and      *)
(* about Deployment, which implements it, for every set of attempts,       *)
(* fingerprints and requests and every bound.  The argument: what is past  *)
(* the consumption of a permit, a request or a command a dead one left     *)
(* behind, is one for its attempt (OneDeployer), so that the row, the      *)
(* applies and what the checkout and the container hold of its patch       *)
(* follow from the point it has reached (RequestOK) and from the row       *)
(* (RowOK).                                                                *)
(***************************************************************************)
EXTENDS Deployment, PermitGate, TLAPS

(* The gate *)

\* An effect is started under a claim, and a group has one claim.
OneClaim == \A j, k \in Key :
               /\ phase[j] \in Claimed /\ phase[k] \in Claimed /\ GroupOf[j] = GroupOf[k]
                    => j = k
               /\ acts[j] > 0 => phase[j] \in Claimed

GateInv == GateTypeOK /\ OneClaim

\* Every step of the gate keeps its inductive invariant.
LEMMA GateInvStep ==
  ASSUME GateInv, [GateNext]_gateVars
  PROVE  GateInv'
<1>1. CASE UNCHANGED gateVars
  BY <1>1 DEF gateVars, GateInv, GateTypeOK, OneClaim
<1>2. ASSUME NEW k \in Key, Grant(k) PROVE GateInv'
  BY <1>2 DEF Grant, GateInv, GateTypeOK, OneClaim, Phase, Claimed, Settled
<1>3. ASSUME NEW k \in Key, Claim(k) PROVE GateInv'
  BY <1>3 DEF Claim, GateInv, GateTypeOK, OneClaim, Phase, Claimed, Settled
<1>4. ASSUME NEW k \in Key, Act(k) PROVE GateInv'
  BY <1>4 DEF Act, GateInv, GateTypeOK, OneClaim, Phase, Claimed, Settled
<1>5. ASSUME NEW k \in Key, NEW s \in Settled, Settle(k, s) PROVE GateInv'
  BY <1>5 DEF Settle, GateInv, GateTypeOK, OneClaim, Phase, Claimed, Settled
<1> QED BY <1>1, <1>2, <1>3, <1>4, <1>5 DEF GateNext

\* An incident sees at most one external effect of a kind.
THEOREM OneEffect == GateSpec => []OneEffectPerGroup
<1>1. GateInit => GateInv
  BY DEF GateInit, GateInv, GateTypeOK, OneClaim, Phase, Claimed, Settled
<1>2. GateInv /\ [GateNext]_gateVars => GateInv'
  BY GateInvStep
<1>3. GateInv => OneEffectPerGroup
  BY DEF GateInv, OneClaim, OneEffectPerGroup, GateTypeOK
<1> QED BY <1>1, <1>2, <1>3, PTL DEF GateSpec

------------------------------------------------------------------------------
(* The invariant of the deployment service                                 *)

Past == Deploying \union Orphaned
Applying == {"reread", "recheckHead", "recheckStatus", "apply", "applied",
             "applyFailed", "applyLost", "orphanApply"}
Verifying == {"build", "replace", "health", "postRead", "verifyFailed", "verifyLost",
              "verified", "orphanBuild", "orphanReplace"}
Unstarted == {"startApplying", "reread", "recheckHead", "recheckStatus"}
Healthy == {"health", "postRead", "verified"}

\* The patches git apply was started for, and that f is the only one of them in
\* a checkout nobody edited.
Started == {g \in Fingerprint : applies[g] > 0}
Sole(f) == edits = 0 /\ Started \subseteq {f}

\* A permit, its row and its effect go together, and an attempt has one row.
RowOK(f) ==
    /\ permit[f] = "CONSUMED" <=> row[f] # "NONE"
    /\ row[f] \in {"NONE", "PREPARED"} => applies[f] = 0
    /\ row[f] \notin {"NONE", "PREPARED", "APPLYING"} => applies[f] = 1
    /\ applies[f] \in {0, 1}
    /\ \A g \in Of(AttemptOf[f]) : row[f] # "NONE" /\ row[g] # "NONE" => g = f
    /\ row[f] = "VERIFIED" /\ edits = 0 => f \in checkout.applied
    /\ row[f] = "VERIFIED" /\ Sole(f) => running = {f}

\* What a request may rely on at the point it has reached.
RequestOK(r) ==
    LET f == req[r].fp IN
    /\ ~At(r, "idle") => f \in Fingerprint
    /\ At(r, "startApplying") => row[f] = "PREPARED"
    /\ req[r].pc \in Applying => row[f] = "APPLYING"
    /\ req[r].pc \in Verifying => row[f] = "VERIFYING"
    /\ req[r].pc \in Unstarted => applies[f] = 0
    /\ req[r].pc \in Past \ Unstarted => applies[f] = 1
    /\ req[r].pc \in Verifying \union {"applied"} /\ edits = 0 => f \in checkout.applied
    /\ req[r].pc \in {"replace", "orphanReplace"} /\ edits = 0 =>
         f \in req[r].image /\ req[r].image \subseteq Started
    /\ req[r].pc \in Healthy /\ Sole(f) => running = {f}

\* Nothing is in the checkout or in the container that was not applied.
HostOK == edits = 0 => checkout.applied \subseteq Started /\ running \subseteq Started

Inv == /\ TypeOK
       /\ \A f \in Fingerprint : RowOK(f)
       /\ \A r \in Request : RequestOK(r)
       /\ HostOK
       /\ OneDeployer

USE AttemptOfAssumption, NoneAssumption, BoundsAssumption

------------------------------------------------------------------------------
(* How a step changes a request                                            *)

\* The request that steps is in its new state, the others are as they were.
LEMMA BecomeStep ==
  ASSUME req \in [Request -> RequestState], NEW r \in Request,
         NEW k \in RequestState, Become(r, k)
  PROVE  /\ req' \in [Request -> RequestState] /\ req'[r] = k
         /\ \A q \in Request \ {r} : req'[q] = req[q]
  BY DEF Become

\* The idle request is a request.
LEMMA IdleType == Idle \in RequestState /\ Idle.pc = "idle"
  BY DEF Idle, RequestState, PC

\* A request that goes on keeps its permit, its image and its polls.
LEMMA GoToStep ==
  ASSUME TypeOK, NEW r \in Request, NEW pc \in PC
  PROVE  /\ [req[r] EXCEPT !.pc = pc] \in RequestState
         /\ [req[r] EXCEPT !.pc = pc].pc = pc
         /\ [req[r] EXCEPT !.pc = pc].fp = req[r].fp
         /\ [req[r] EXCEPT !.pc = pc].image = req[r].image
  BY DEF TypeOK, RequestState

\* What is past the consumption of a permit is one for its attempt.
Apart(r, f) ==
    \A q \in Request \ {r} : req[q].pc \in Past => AttemptOf[req[q].fp] # AttemptOf[f]

\* Nothing is changed of the other fingerprints.
Elsewhere(f) ==
    \A g \in Fingerprint \ {f} :
        row'[g] = row[g] /\ permit'[g] = permit[g] /\ applies'[g] = applies[g]

\* A step of a request on f keeps the invariant if it keeps what concerns f
\* and the request.
LEMMA StepSafe ==
  ASSUME Inv, NEW r \in Request, NEW k \in RequestState, NEW f \in Fingerprint,
         Become(r, k), k.pc \in Past => k.fp = f, Apart(r, f), Elsewhere(f),
         applies[f] > 0 => applies'[f] > 0,
         edits' = edits, checkout.applied \subseteq checkout'.applied,
         running' = running \/ applies[f] > 0,
         TypeOK', RowOK(f)', RequestOK(r)', HostOK'
  PROVE  Inv'
<1>1. /\ req'[r] = k
      /\ \A q \in Request \ {r} : req'[q] = req[q]
  BY BecomeStep DEF Inv, TypeOK
<1>2. Started \subseteq Started'
  BY DEF Elsewhere, Started
<1>3. ASSUME NEW g \in Fingerprint \ {f}, Sole(g)'
      PROVE  Sole(g) /\ running' = running
  <2>1. Sole(g)
    BY <1>2, <1>3 DEF Sole
  <2>2. ~(applies[f] > 0)
    BY <2>1 DEF Sole, Started
  <2> QED BY <2>1, <2>2
<1>4. ASSUME NEW g \in Fingerprint \ {f}
      PROVE  RowOK(g)'
  <2>1. RowOK(g) /\ row'[g] = row[g] /\ permit'[g] = permit[g] /\ applies'[g] = applies[g]
    BY DEF Inv, Elsewhere
  <2>2. ASSUME NEW h \in Of(AttemptOf[g]), row'[g] # "NONE", row'[h] # "NONE"
        PROVE  h = g
    <3>1. CASE h = f
      BY <2>2, <3>1 DEF RowOK, Of
    <3>2. CASE h # f
      BY <2>1, <2>2, <3>2 DEF RowOK, Of, Elsewhere
    <3> QED BY <3>1, <3>2
  <2> QED BY <1>3, <2>1, <2>2 DEF RowOK
<1>5. ASSUME NEW q \in Request \ {r}
      PROVE  RequestOK(q)'
  <2>1. CASE req[q].pc \notin Past
    BY <1>1, <2>1 DEF Inv, RequestOK, At, Past, Deploying, Orphaned, Applying, Verifying,
                      Unstarted, Healthy
  <2>2. CASE req[q].pc \in Past
    <3>1. PICK g \in Fingerprint : g = req[q].fp
      BY <2>2 DEF Inv, RequestOK, At, Past, Deploying, Orphaned
    <3>2. g # f
      BY <2>2, <3>1 DEF Apart
    <3>3. row'[g] = row[g] /\ applies'[g] = applies[g]
      BY <3>2 DEF Elsewhere
    <3>4. RequestOK(q)
      BY DEF Inv
    <3>5. req'[q] = req[q]
      BY <1>1
    <3>6. Sole(g)' => Sole(g) /\ running' = running
      BY <1>3, <3>2
    <3> QED BY <1>2, <3>1, <3>3, <3>4, <3>5, <3>6 DEF RequestOK, At
  <2> QED BY <2>1, <2>2
<1>6. OneDeployer'
  BY <1>1 DEF Inv, OneDeployer, Apart, Past
<1> QED BY <1>4, <1>5, <1>6 DEF Inv

\* A request comes to a point where it has nothing to rely on.
LEMMA LeaveSafe ==
  ASSUME Inv, NEW r \in Request, NEW k \in RequestState, Become(r, k),
         k.pc \notin Past, k.pc # "idle" => k.fp \in Fingerprint,
         UNCHANGED <<database, host, applies, drifts, edits>>
  PROVE  Inv'
<1>1. /\ req' \in [Request -> RequestState] /\ req'[r] = k
      /\ \A q \in Request \ {r} : req'[q] = req[q]
  BY BecomeStep DEF Inv, TypeOK
<1>2. TypeOK' /\ HostOK' /\ \A f \in Fingerprint : RowOK(f)'
  BY <1>1 DEF Inv, TypeOK, HostOK, RowOK, Sole, Started, database, host
<1>3. RequestOK(r)'
  BY <1>1 DEF RequestOK, At, Past, Deploying, Orphaned, Applying, Verifying, Unstarted, Healthy
<1>4. \A q \in Request \ {r} : RequestOK(q)'
  BY <1>1 DEF Inv, RequestOK, At, Sole, Started, database, host
<1>5. OneDeployer'
  BY <1>1 DEF Inv, OneDeployer, Past
<1> QED BY <1>2, <1>3, <1>4, <1>5 DEF Inv

\* What is known of a request that is doing something.
LEMMA Facts ==
  ASSUME Inv, NEW r \in Request, ~At(r, "idle")
  PROVE  /\ req[r] \in RequestState /\ req[r].fp \in Fingerprint
         /\ RequestOK(r) /\ RowOK(req[r].fp)
         /\ req[r].pc \in Past => Apart(r, req[r].fp)
<1>1. req[r] \in RequestState /\ req[r].fp \in Fingerprint
  BY DEF Inv, TypeOK, RequestOK
<1> QED BY <1>1 DEF Inv, Apart, OneDeployer, Past

\* A request past the consumption of its permit goes on, or ends, and changes
\* nothing else.
LEMMA GoSafe ==
  ASSUME Inv, NEW r \in Request, NEW k \in RequestState, req[r].pc \in Past,
         Become(r, k), k.fp = req[r].fp, RequestOK(r)',
         UNCHANGED <<database, host, applies, drifts, edits>>
  PROVE  Inv'
<1>1. PICK f \in Fingerprint : f = req[r].fp
  BY Facts DEF At, Past, Deploying, Orphaned
<1>2. Apart(r, f) /\ RowOK(f)
  BY <1>1, Facts DEF At, Past, Deploying, Orphaned
<1>3. req' \in [Request -> RequestState]
  BY BecomeStep DEF Inv, TypeOK
<1>4. TypeOK' /\ HostOK' /\ RowOK(f)' /\ Elsewhere(f)
  BY <1>2, <1>3 DEF Inv, TypeOK, HostOK, RowOK, Sole, Started, Elsewhere, database, host
<1> QED BY <1>1, <1>2, <1>4, StepSafe DEF host

------------------------------------------------------------------------------
(* The steps                                                               *)

\* Before the permit is consumed a request has nothing to rely on.
LEMMA PreparingInv ==
  ASSUME Inv, NEW r \in Request,
         Preflight(r) \/ PrepareNot(r) \/ \E f \in Fingerprint : DeployBegin(r, f)
  PROVE  Inv'
<1>1. CASE \E f \in Fingerprint : DeployBegin(r, f)
  <2>1. PICK f \in Fingerprint : DeployBegin(r, f)
    BY <1>1
  <2> DEFINE k == [Idle EXCEPT !.pc = "preRead", !.fp = f]
  <2>2. k \in RequestState /\ k.pc = "preRead" /\ k.fp = f
    <3>1. "preRead" \in PC
      BY DEF PC, Preparing
    <3> QED BY <3>1, IdleType DEF RequestState
  <2>3. k.pc \notin Past
    BY <2>2 DEF Past, Deploying, Orphaned
  <2>4. Become(r, k) /\ UNCHANGED <<database, host, applies, drifts, edits>>
    BY <2>1 DEF DeployBegin
  <2> QED BY <2>2, <2>3, <2>4, LeaveSafe
<1>2. CASE Preflight(r) \/ PrepareNot(r)
  <2>1. req[r].fp \in Fingerprint
    BY <1>2, Facts DEF Preflight, PrepareNot, At, Preparing
  <2>2. UNCHANGED <<database, host, applies, drifts, edits>>
    BY <1>2 DEF Preflight, PrepareNot
  <2>3. Become(r, Idle) \/ \E pc \in Preparing : GoTo(r, pc)
    BY <1>2 DEF Preflight, PrepareNot, Preparing
  <2>4. CASE Become(r, Idle)
    BY <2>2, <2>4, IdleType, LeaveSafe DEF Past, Deploying, Orphaned
  <2>5. ASSUME NEW pc \in Preparing, GoTo(r, pc)
        PROVE  Inv'
    <3> DEFINE k == [req[r] EXCEPT !.pc = pc]
    <3>1. k \in RequestState /\ k.pc = pc /\ k.fp = req[r].fp
      BY GoToStep DEF Inv, PC
    <3>2. Become(r, k)
      BY <2>5 DEF GoTo
    <3>3. k.pc \notin Past
      BY <3>1 DEF Past, Deploying, Orphaned, Preparing
    <3> QED BY <2>1, <2>2, <3>1, <3>2, <3>3, LeaveSafe
  <2> QED BY <2>3, <2>4, <2>5
<1> QED BY <1>1, <1>2

\* The row is the first of its attempt, so nothing past a consumption is of
\* the attempt.
LEMMA PrepareInv ==
  ASSUME Inv, NEW r \in Request, Prepare(r)
  PROVE  Inv'
<1>1. PICK f \in Fingerprint : f = req[r].fp
  BY Facts DEF Prepare, At
<1>2. PICK k \in RequestState : Become(r, k) /\ k.pc = "startApplying" /\ k.fp = f
  BY <1>1, GoToStep DEF Inv, Prepare, GoTo, PC, Deploying
<1>3. /\ permit[f] = "APPROVED" /\ \A g \in Of(AttemptOf[f]) : row[g] = "NONE"
      /\ row' = [row EXCEPT ![f] = "PREPARED"]
      /\ permit' = [permit EXCEPT ![f] = "CONSUMED"]
      /\ UNCHANGED <<artifact, host, applies, drifts, edits>>
  BY <1>1 DEF Prepare, Preparable
<1>4. Apart(r, f)
  <2> SUFFICES ASSUME NEW q \in Request \ {r}, req[q].pc \in Past,
                      AttemptOf[req[q].fp] = AttemptOf[f]
               PROVE  FALSE
    BY DEF Apart
  <2>1. req[q].fp \in Fingerprint /\ row[req[q].fp] # "NONE"
    BY Facts DEF At, Past, Deploying, Orphaned, RequestOK, Applying, Verifying
  <2> QED BY <1>3, <2>1 DEF Of
<1>5. req' \in [Request -> RequestState] /\ req'[r] = k
  BY <1>2, BecomeStep DEF Inv, TypeOK
<1>6. TypeOK'
  BY <1>3, <1>5 DEF Inv, TypeOK, RowState, PermitState, host
<1>7. row'[f] = "PREPARED" /\ permit'[f] = "CONSUMED" /\ Elsewhere(f)
  BY <1>3 DEF Inv, TypeOK, Elsewhere
<1>8. applies[f] = 0
  BY <1>3 DEF Inv, RowOK, Of
<1>9. RowOK(f)'
  BY <1>3, <1>7, <1>8 DEF Inv, TypeOK, RowOK, Of, Elsewhere
<1>10. RequestOK(r)'
  BY <1>2, <1>3, <1>5, <1>7, <1>8 DEF RequestOK, At, Applying, Verifying, Unstarted, Healthy, Past
<1>11. HostOK'
  BY <1>3 DEF Inv, HostOK, Started, host
<1> QED BY <1>2, <1>3, <1>4, <1>6, <1>7, <1>9, <1>10, <1>11, StepSafe DEF host

\* The row says APPLYING before the command is started.
LEMMA StartApplyingInv ==
  ASSUME Inv, NEW r \in Request, StartApplying(r)
  PROVE  Inv'
<1>1. PICK f \in Fingerprint : f = req[r].fp
  BY Facts DEF StartApplying, At
<1>2. req[r].pc = "startApplying" /\ Apart(r, f) /\ RowOK(f) /\ RequestOK(r)
  BY <1>1, Facts DEF StartApplying, At, Past, Deploying
<1>3. row[f] = "PREPARED" /\ applies[f] = 0
  BY <1>1, <1>2 DEF RequestOK, At, Unstarted
<1>4. PICK k \in RequestState : Become(r, k) /\ k.pc = "reread" /\ k.fp = f
  BY <1>1, <1>3, GoToStep DEF Inv, StartApplying, GoTo, PC, Deploying
<1>5. /\ row' = [row EXCEPT ![f] = "APPLYING"]
      /\ UNCHANGED <<artifact, permit, host, applies, drifts, edits>>
  BY <1>1, <1>3 DEF StartApplying
<1>6. req' \in [Request -> RequestState] /\ req'[r] = k
  BY <1>4, BecomeStep DEF Inv, TypeOK
<1>7. row'[f] = "APPLYING" /\ Elsewhere(f)
  BY <1>5 DEF Inv, TypeOK, Elsewhere
<1>8. TypeOK'
  BY <1>5, <1>6 DEF Inv, TypeOK, RowState, host
<1>9. RowOK(f)'
  BY <1>2, <1>3, <1>5, <1>7 DEF RowOK, Of, Elsewhere
<1>10. RequestOK(r)'
  BY <1>3, <1>4, <1>5, <1>6, <1>7 DEF RequestOK, At, Applying, Verifying, Unstarted, Healthy, Past
<1>11. HostOK'
  BY <1>5 DEF Inv, HostOK, Started, host
<1> QED BY <1>2, <1>4, <1>5, <1>7, <1>8, <1>9, <1>10, <1>11, StepSafe DEF host

\* A request that goes on before git apply keeps what it relies on.
LEMMA RecheckInv ==
  ASSUME Inv, NEW r \in Request, Recheck(r)
  PROVE  Inv'
<1>1. PICK f \in Fingerprint : f = req[r].fp
  BY Facts DEF Recheck, At
<1>2. req[r].pc \in {"reread", "recheckHead", "recheckStatus"} /\ RequestOK(r)
  BY Facts DEF Recheck, At
<1>3. UNCHANGED <<database, host, applies, drifts, edits>>
  BY DEF Recheck
<1>4. Become(r, Idle) \/ \E pc \in {"recheckHead", "recheckStatus"} : GoTo(r, pc)
  BY DEF Recheck
<1>5. CASE Become(r, Idle)
  BY <1>3, <1>5, IdleType, LeaveSafe DEF Past, Deploying, Orphaned
<1>6. ASSUME NEW pc \in {"recheckHead", "recheckStatus"}, GoTo(r, pc)
      PROVE  Inv'
  <2>1. PICK k \in RequestState : Become(r, k) /\ k.pc = pc /\ k.fp = f
    BY <1>1, <1>6, GoToStep DEF Inv, GoTo, PC, Deploying
  <2>2. req'[r] = k
    BY <2>1, BecomeStep DEF Inv, TypeOK
  <2>3. row[f] = "APPLYING" /\ applies[f] = 0
    BY <1>1, <1>2 DEF RequestOK, Applying, Unstarted
  <2>4. RequestOK(r)'
    BY <1>3, <2>1, <2>2, <2>3 DEF RequestOK, At, Applying, Verifying, Unstarted, Healthy, Past,
                                  database
  <2> QED BY <1>1, <1>2, <1>3, <2>1, <2>4, GoSafe DEF Past, Deploying
<1> QED BY <1>4, <1>5, <1>6

\* git apply is started: it was not before.
LEMMA StartApplyInv ==
  ASSUME Inv, NEW r \in Request, StartApply(r)
  PROVE  Inv'
<1>1. PICK f \in Fingerprint : f = req[r].fp
  BY Facts DEF StartApply, At
<1>2. req[r].pc = "recheckStatus" /\ Apart(r, f) /\ RowOK(f) /\ RequestOK(r)
  BY <1>1, Facts DEF StartApply, At, Past, Deploying
<1>3. row[f] = "APPLYING" /\ applies[f] = 0
  BY <1>1, <1>2 DEF RequestOK, At, Unstarted, Applying
<1>4. PICK k \in RequestState : Become(r, k) /\ k.pc = "apply" /\ k.fp = f
  BY <1>1, GoToStep DEF Inv, StartApply, GoTo, PC, Deploying
<1>5. /\ applies' = [applies EXCEPT ![f] = 1]
      /\ UNCHANGED <<database, host, drifts, edits>>
  BY <1>1, <1>3 DEF StartApply, Inv, TypeOK
<1>6. req' \in [Request -> RequestState] /\ req'[r] = k
  BY <1>4, BecomeStep DEF Inv, TypeOK
<1>7. applies'[f] = 1 /\ Elsewhere(f)
  BY <1>5 DEF Inv, TypeOK, Elsewhere, database
<1>8. TypeOK'
  BY <1>5, <1>6 DEF Inv, TypeOK, database, host
<1>9. RowOK(f)'
  BY <1>2, <1>3, <1>5, <1>7 DEF RowOK, Of, database
<1>10. RequestOK(r)'
  BY <1>3, <1>4, <1>5, <1>6, <1>7 DEF RequestOK, At, Applying, Verifying, Unstarted, Healthy, Past,
                                     database
<1>11. HostOK'
  <2>1. Started \subseteq Started'
    BY <1>3, <1>7 DEF Started, Elsewhere
  <2> QED BY <1>5, <2>1 DEF Inv, HostOK, host
<1> QED BY <1>2, <1>4, <1>5, <1>7, <1>8, <1>9, <1>10, <1>11, StepSafe DEF host

\* git apply ends: with the patch in the checkout, or without.
LEMMA GitAppliesInv ==
  ASSUME Inv, NEW r \in Request, GitApplies(r)
  PROVE  Inv'
<1>1. PICK f \in Fingerprint : f = req[r].fp
  BY Facts DEF GitApplies, At
<1>2. req[r].pc = "apply" /\ Apart(r, f) /\ RowOK(f) /\ RequestOK(r)
  BY <1>1, Facts DEF GitApplies, At, Past, Deploying
<1>3. row[f] = "APPLYING" /\ applies[f] = 1
  BY <1>1, <1>2 DEF RequestOK, At, Unstarted, Applying, Past, Deploying
<1>4. PICK pc \in {"applied", "applyFailed", "applyLost"} :
        GoTo(r, pc) /\ (pc = "applied" => checkout' = Applied(f))
  BY <1>1 DEF GitApplies
<1>5. PICK k \in RequestState : Become(r, k) /\ k.pc = pc /\ k.fp = f
  BY <1>1, <1>4, GoToStep DEF Inv, GoTo, PC, Deploying
<1>6. req' \in [Request -> RequestState] /\ req'[r] = k
  BY <1>5, BecomeStep DEF Inv, TypeOK
<1>7. UNCHANGED <<database, running, applies, drifts, edits>>
  BY DEF GitApplies
<1>8. /\ checkout' \in Checkout
      /\ checkout'.applied = checkout.applied \union {f} \/ checkout' = checkout
      /\ pc = "applied" => f \in checkout'.applied
  BY <1>1, <1>4 DEF GitApplies, Applied, Inv, TypeOK, Checkout
<1>9. TypeOK' /\ Elsewhere(f)
  BY <1>6, <1>7, <1>8 DEF Inv, TypeOK, Elsewhere, database
<1>10. RowOK(f)'
  BY <1>2, <1>3, <1>7 DEF RowOK, Of, database
<1>11. RequestOK(r)'
  BY <1>3, <1>5, <1>6, <1>7, <1>8 DEF RequestOK, At, Applying, Verifying, Unstarted, Healthy, Past,
                                     database
<1>12. HostOK'
  BY <1>3, <1>7, <1>8 DEF Inv, HostOK, Started
<1> QED BY <1>2, <1>3, <1>5, <1>7, <1>8, <1>9, <1>10, <1>11, <1>12, StepSafe

\* The row follows git apply.
LEMMA StartVerifyingInv ==
  ASSUME Inv, NEW r \in Request, StartVerifying(r)
  PROVE  Inv'
<1>1. PICK f \in Fingerprint : f = req[r].fp
  BY Facts DEF StartVerifying, At
<1>2. req[r].pc = "applied" /\ Apart(r, f) /\ RowOK(f) /\ RequestOK(r)
  BY <1>1, Facts DEF StartVerifying, At, Past, Deploying
<1>3. /\ row[f] = "APPLYING" /\ applies[f] = 1
      /\ edits = 0 => f \in checkout.applied
  BY <1>1, <1>2 DEF RequestOK, At, Unstarted, Applying, Past, Deploying
<1>4. PICK k \in RequestState : Become(r, k) /\ k.pc = "build" /\ k.fp = f
  BY <1>1, <1>3, GoToStep DEF Inv, StartVerifying, GoTo, PC, Deploying
<1>5. /\ row' = [row EXCEPT ![f] = "VERIFYING"]
      /\ UNCHANGED <<artifact, permit, host, applies, drifts, edits>>
  BY <1>1, <1>3 DEF StartVerifying
<1>6. req' \in [Request -> RequestState] /\ req'[r] = k
  BY <1>4, BecomeStep DEF Inv, TypeOK
<1>7. row'[f] = "VERIFYING" /\ Elsewhere(f)
  BY <1>5 DEF Inv, TypeOK, Elsewhere
<1>8. TypeOK'
  BY <1>5, <1>6 DEF Inv, TypeOK, RowState, host
<1>9. RowOK(f)'
  BY <1>2, <1>3, <1>5, <1>7 DEF RowOK, Of, Elsewhere
<1>10. RequestOK(r)'
  BY <1>3, <1>4, <1>5, <1>6, <1>7 DEF RequestOK, At, Applying, Verifying, Unstarted, Healthy, Past,
                                     host
<1>11. HostOK'
  BY <1>5 DEF Inv, HostOK, Started, host
<1> QED BY <1>2, <1>4, <1>5, <1>7, <1>8, <1>9, <1>10, <1>11, StepSafe DEF host

\* The image takes what is in the checkout, which has the patch.
LEMMA BuildsInv ==
  ASSUME Inv, NEW r \in Request, NEW k \in RequestState, Become(r, k),
         req[r].pc \in {"build", "orphanBuild"},
         \/ /\ k.pc \in {"replace", "orphanReplace"} /\ k.image = checkout.applied
         \/ k.pc \in {"verifyFailed", "verifyLost", "orphanBuild"},
         k.fp = req[r].fp, UNCHANGED <<database, host, applies, drifts, edits>>
  PROVE  Inv'
<1>1. PICK f \in Fingerprint : f = req[r].fp
  BY Facts DEF At
<1>2. /\ row[f] = "VERIFYING" /\ applies[f] = 1
      /\ edits = 0 => f \in checkout.applied
  BY <1>1, Facts DEF RequestOK, At, Verifying, Unstarted, Past, Deploying, Orphaned
<1>3. edits = 0 => checkout.applied \subseteq Started
  BY DEF Inv, HostOK
<1>4. req'[r] = k /\ Started' = Started
  BY BecomeStep DEF Inv, TypeOK, Started
<1>5. RequestOK(r)'
  BY <1>1, <1>2, <1>3, <1>4
     DEF RequestOK, At, Applying, Verifying, Unstarted, Healthy, Past, database, host
<1> QED BY <1>5, GoSafe DEF Past, Deploying, Orphaned

\* docker compose ends, or has built the image it is about to run.
LEMMA BuildInv ==
  ASSUME Inv, NEW r \in Request, Builds(r)
  PROVE  Inv'
<1>1. req[r].pc = "build" /\ req[r] \in RequestState
  BY Facts DEF Builds, At
<1>2. CASE Become(r, [req[r] EXCEPT !.pc = "replace", !.image = checkout.applied])
  <2>1. checkout.applied \in SUBSET Fingerprint /\ "replace" \in PC
    BY DEF Inv, TypeOK, Checkout, PC, Deploying
  <2> DEFINE k == [req[r] EXCEPT !.pc = "replace", !.image = checkout.applied]
  <2>2. /\ k \in RequestState /\ k.pc = "replace" /\ k.image = checkout.applied
        /\ k.fp = req[r].fp
    BY <1>1, <2>1 DEF RequestState
  <2> QED BY <1>1, <1>2, <2>2, BuildsInv DEF Builds
<1>3. ASSUME NEW pc \in {"verifyFailed", "verifyLost"}, GoTo(r, pc)
      PROVE  Inv'
  <2>1. PICK k \in RequestState : Become(r, k) /\ k.pc = pc /\ k.fp = req[r].fp
    BY <1>3, GoToStep DEF Inv, GoTo, PC, Deploying
  <2> QED BY <1>1, <2>1, BuildsInv DEF Builds
<1> QED BY <1>2, <1>3 DEF Builds

\* A container that is replaced runs an image of applied patches, this one
\* among them.
LEMMA ReplacesInv ==
  ASSUME Inv, NEW r \in Request, NEW k \in RequestState, Become(r, k),
         req[r].pc \in {"replace", "orphanReplace"},
         \/ running' = req[r].image /\ k.pc \in {"health", "verifyFailed", "verifyLost", "idle"}
         \/ running' = running /\ k.pc \in {"verifyFailed", "verifyLost", "idle"},
         k.fp = req[r].fp \/ k.pc = "idle",
         UNCHANGED <<database, checkout, applies, drifts, edits>>
  PROVE  Inv'
<1>1. PICK f \in Fingerprint : f = req[r].fp
  BY Facts DEF At
<1>2. /\ req[r] \in RequestState /\ Apart(r, f) /\ RowOK(f)
      /\ row[f] = "VERIFYING" /\ applies[f] = 1
      /\ edits = 0 => f \in checkout.applied
      /\ edits = 0 => f \in req[r].image /\ req[r].image \subseteq Started
  BY <1>1, Facts DEF RequestOK, At, Verifying, Unstarted, Past, Deploying, Orphaned
<1>3. req' \in [Request -> RequestState] /\ req'[r] = k /\ Started' = Started
  BY BecomeStep DEF Inv, TypeOK, Started
<1>4. TypeOK' /\ Elsewhere(f)
  BY <1>2, <1>3 DEF Inv, TypeOK, RequestState, Elsewhere, database
<1>5. RowOK(f)'
  BY <1>2 DEF RowOK, Of, database
<1>6. HostOK'
  BY <1>2, <1>3 DEF Inv, HostOK
<1>7. running' = req[r].image /\ Sole(f)' => running' = {f}
  BY <1>2, <1>3 DEF Sole
<1>8. RequestOK(r)'
  BY <1>1, <1>2, <1>3, <1>7
     DEF RequestOK, At, Applying, Verifying, Unstarted, Healthy, Past, Deploying, Orphaned,
         database
<1>9. k.pc \in Past => k.fp = f
  BY <1>1 DEF Past, Deploying, Orphaned
<1> QED BY <1>2, <1>4, <1>5, <1>6, <1>8, <1>9, StepSafe

\* The container is replaced by docker compose, or it is not.
LEMMA ReplaceInv ==
  ASSUME Inv, NEW r \in Request, Replaces(r)
  PROVE  Inv'
<1>1. req[r].pc = "replace" /\ req[r] \in RequestState
  BY Facts DEF Replaces, At
<1>2. ASSUME NEW pc \in {"health", "verifyFailed", "verifyLost"}, running' = req[r].image,
             Become(r, [req[r] EXCEPT !.pc = pc, !.polls = MaxPolls])
      PROVE  Inv'
  <2> DEFINE k == [req[r] EXCEPT !.pc = pc, !.polls = MaxPolls]
  <2>1. pc \in PC /\ MaxPolls \in 0..MaxPolls
    BY DEF PC, Deploying
  <2>2. k \in RequestState /\ k.pc = pc /\ k.fp = req[r].fp
    BY <1>1, <2>1 DEF RequestState
  <2> QED BY <1>1, <1>2, <2>2, ReplacesInv DEF Replaces
<1>3. ASSUME NEW pc \in {"verifyFailed", "verifyLost"}, running' = running, GoTo(r, pc)
      PROVE  Inv'
  <2>1. PICK k \in RequestState : Become(r, k) /\ k.pc = pc /\ k.fp = req[r].fp
    BY <1>3, GoToStep DEF Inv, GoTo, PC, Deploying
  <2> QED BY <1>1, <1>3, <2>1, ReplacesInv DEF Replaces
<1> QED BY <1>2, <1>3 DEF Replaces

\* While the receiver is watched the container stays what it is.
LEMMA WatchInv ==
  ASSUME Inv, NEW r \in Request, HealthPoll(r) \/ PostRead(r)
  PROVE  Inv'
<1>1. PICK f \in Fingerprint : f = req[r].fp
  BY Facts DEF HealthPoll, PostRead, At
<1>2. /\ req[r] \in RequestState /\ req[r].pc \in {"health", "postRead"}
      /\ row[f] = "VERIFYING" /\ applies[f] = 1
      /\ edits = 0 => f \in checkout.applied
      /\ Sole(f) => running = {f}
  BY <1>1, Facts DEF HealthPoll, PostRead, RequestOK, At, Verifying, Unstarted, Healthy, Past,
                     Deploying
<1>3. UNCHANGED <<database, host, applies, drifts, edits>>
  BY DEF HealthPoll, PostRead
<1>4. PICK k \in RequestState :
        /\ Become(r, k) /\ k.fp = f
        /\ k.pc \in {"health", "postRead", "verified", "verifyFailed", "verifyLost"}
  <2>1. CASE Become(r, [req[r] EXCEPT !.polls = @ - 1]) /\ req[r].polls > 1
    <3>1. req[r].polls - 1 \in 0..MaxPolls
      BY <1>2, <2>1 DEF RequestState
    <3> QED BY <1>1, <1>2, <2>1, <3>1 DEF RequestState
  <2>2. ASSUME NEW pc \in {"postRead", "verified", "verifyFailed", "verifyLost"}, GoTo(r, pc)
        PROVE  \E k \in RequestState : Become(r, k) /\ k.fp = f /\ k.pc = pc
    <3>1. pc \in PC
      BY DEF PC, Deploying
    <3> DEFINE k == [req[r] EXCEPT !.pc = pc]
    <3>2. k \in RequestState /\ k.pc = pc /\ k.fp = f
      BY <1>1, <3>1, GoToStep DEF Inv
    <3> QED BY <2>2, <3>2 DEF GoTo
  <2> QED BY <2>1, <2>2 DEF HealthPoll, PostRead
<1>5. req'[r] = k /\ (Sole(f)' => Sole(f))
  BY <1>3, <1>4, BecomeStep DEF Inv, TypeOK, Sole, Started
<1>6. RequestOK(r)'
  BY <1>2, <1>3, <1>4, <1>5
     DEF RequestOK, At, Applying, Verifying, Unstarted, Healthy, Past, Deploying, Orphaned,
         database, host
<1> QED BY <1>1, <1>2, <1>3, <1>4, <1>6, GoSafe DEF Past, Deploying

\* The end is recorded of a row that is where the request left it.
LEMMA RecordEndInv ==
  ASSUME Inv, NEW r \in Request, RecordEnd(r)
  PROVE  Inv'
<1>0. req[r].pc \in {"applyFailed", "applyLost", "verifyFailed", "verifyLost", "verified"}
  <2>1. DOMAIN End = {"applyFailed", "applyLost", "verifyFailed", "verifyLost", "verified"}
    BY DEF End
  <2> QED BY <2>1 DEF RecordEnd
<1>1. PICK f \in Fingerprint : f = req[r].fp
  BY <1>0, Facts DEF At
<1>2. Apart(r, f) /\ RowOK(f) /\ RequestOK(r) /\ applies[f] = 1
  BY <1>0, <1>1, Facts DEF RequestOK, At, Unstarted, Past, Deploying
<1>3. PICK to \in {"FAILED", "OUTCOME_UNKNOWN", "VERIFIED"} :
        /\ row' = [row EXCEPT ![f] = to]
        /\ to = "VERIFIED" => req[r].pc = "verified"
  <2>1. /\ End[req[r].pc].from = row[f]
        /\ End[req[r].pc].to \in {"FAILED", "OUTCOME_UNKNOWN", "VERIFIED"}
        /\ End[req[r].pc].to = "VERIFIED" => req[r].pc = "verified"
    <3>1. /\ req[r].pc \in {"applyFailed", "applyLost"} => row[f] = "APPLYING"
          /\ req[r].pc \in {"verifyFailed", "verifyLost", "verified"} => row[f] = "VERIFYING"
      BY <1>1, <1>2 DEF RequestOK, Applying, Verifying
    <3> QED BY <1>0, <3>1 DEF End
  <2>2. row' = [row EXCEPT ![f] = End[req[r].pc].to]
    BY <1>1, <2>1 DEF RecordEnd
  <2> QED BY <2>1, <2>2
<1>4. Become(r, Idle) /\ UNCHANGED <<artifact, permit, host, applies, drifts, edits>>
  BY DEF RecordEnd
<1>5. req' \in [Request -> RequestState] /\ req'[r] = Idle
  BY <1>4, IdleType, BecomeStep DEF Inv, TypeOK
<1>6. row'[f] = to /\ Elsewhere(f)
  BY <1>3, <1>4 DEF Inv, TypeOK, Elsewhere
<1>7. TypeOK'
  BY <1>3, <1>4, <1>5 DEF Inv, TypeOK, RowState, host
<1>8. row[f] # "NONE"
  BY <1>0, <1>1, <1>2 DEF RequestOK, Applying, Verifying
<1>9. Sole(f)' => Sole(f)
  BY <1>4 DEF Sole, Started
<1>10. RowOK(f)'
  BY <1>1, <1>2, <1>3, <1>4, <1>6, <1>8, <1>9
     DEF RowOK, RequestOK, Of, Elsewhere, Verifying, Healthy, host
<1>11. RequestOK(r)'
  BY <1>5, IdleType DEF RequestOK, At, Applying, Verifying, Unstarted, Healthy, Past, Deploying,
                        Orphaned
<1>12. HostOK'
  BY <1>4 DEF Inv, HostOK, Started, host
<1>13. Idle.pc \notin Past
  BY IdleType DEF Past, Deploying, Orphaned
<1> QED BY <1>2, <1>4, <1>6, <1>7, <1>10, <1>11, <1>12, <1>13, IdleType, StepSafe DEF host

\* What a dead request leaves behind is the command it had started, which stands
\* where the request stood.
LEMMA CrashInv ==
  ASSUME Inv, NEW r \in Request, Crash(r)
  PROVE  Inv'
<1>1. req[r].pc \in Preparing \union Deploying
      /\ UNCHANGED <<database, host, applies, drifts, edits>>
  BY DEF Crash
<1>2. ~At(r, "idle")
  BY <1>1 DEF At, Preparing, Deploying
<1>3. RequestOK(r) /\ req[r].fp \in Fingerprint
  BY <1>2, Facts
<1>4. CASE Become(r, Idle)
  BY <1>1, <1>4, IdleType, LeaveSafe DEF Past, Deploying, Orphaned
<1>5. ASSUME NEW pc \in Orphaned, GoTo(r, pc),
             \/ At(r, "apply") /\ pc = "orphanApply"
             \/ At(r, "build") /\ pc = "orphanBuild"
             \/ At(r, "replace") /\ pc = "orphanReplace"
      PROVE  Inv'
  <2> DEFINE k == [req[r] EXCEPT !.pc = pc]
  <2>1. k \in RequestState /\ k.pc = pc /\ k.fp = req[r].fp /\ k.image = req[r].image
    BY GoToStep DEF Inv, PC
  <2>2. Become(r, k)
    BY <1>5 DEF GoTo
  <2>3. req'[r] = k
    BY <2>1, <2>2, BecomeStep DEF Inv, TypeOK
  <2> HIDE DEF k
  <2>4. req[r].pc \in Past
    BY <1>5 DEF At, Past, Deploying
  <2>5. RequestOK(r)'
    BY <1>1, <1>3, <1>5, <2>1, <2>3
       DEF RequestOK, At, Applying, Verifying, Unstarted, Healthy, Past, Deploying, Orphaned,
           Sole, Started, database, host
  <2> QED BY <1>1, <2>1, <2>2, <2>4, <2>5, GoSafe
<1>6. Become(r, Idle) \/ \E pc \in Orphaned :
        /\ GoTo(r, pc)
        /\ \/ At(r, "apply") /\ pc = "orphanApply"
           \/ At(r, "build") /\ pc = "orphanBuild"
           \/ At(r, "replace") /\ pc = "orphanReplace"
  BY DEF Crash, Orphaned, At
<1> QED BY <1>4, <1>5, <1>6

\* The command left behind changes the host, or gives up, and reports nothing.
LEMMA OrphanInv ==
  ASSUME Inv, NEW r \in Request, OrphanRuns(r)
  PROVE  Inv'
<1>1. PICK f \in Fingerprint : f = req[r].fp
  BY Facts DEF OrphanRuns, At, Orphaned
<1>2. /\ req[r].pc \in Orphaned /\ req[r] \in RequestState
      /\ Apart(r, f) /\ RowOK(f) /\ RequestOK(r)
  BY <1>1, Facts DEF OrphanRuns, At, Past, Orphaned
<1>3. applies[f] = 1
  BY <1>1, <1>2 DEF RequestOK, Unstarted, Past, Orphaned
<1>4. UNCHANGED <<database, applies, drifts, edits>>
  BY DEF OrphanRuns
<1>5. Idle \in RequestState /\ Idle.pc = "idle" /\ Idle.pc \notin Past
  BY IdleType DEF Past, Deploying, Orphaned
<1>6. CASE At(r, "orphanApply") /\ checkout' = Applied(f) /\ running' = running /\ Become(r, Idle)
  <2>1. req' \in [Request -> RequestState] /\ req'[r] = Idle
    BY <1>5, <1>6, BecomeStep DEF Inv, TypeOK
  <2>2. checkout' \in Checkout /\ checkout'.applied = checkout.applied \union {f}
    BY <1>6 DEF Applied, Inv, TypeOK, Checkout
  <2>3. TypeOK' /\ Elsewhere(f)
    BY <1>4, <1>6, <2>1, <2>2 DEF Inv, TypeOK, Elsewhere, database
  <2>4. row[f] = "APPLYING"
    BY <1>1, <1>2, <1>6 DEF RequestOK, At, Applying
  <2>5. RowOK(f)'
    BY <1>2, <1>4, <2>4 DEF RowOK, Of, database
  <2>6. RequestOK(r)'
    BY <1>5, <2>1 DEF RequestOK, At, Applying, Verifying, Unstarted, Healthy, Past
  <2>7. HostOK'
    BY <1>3, <1>4, <1>6, <2>2 DEF Inv, HostOK, Started
  <2> QED BY <1>2, <1>3, <1>4, <1>5, <1>6, <2>2, <2>3, <2>5, <2>6, <2>7, StepSafe
<1>7. CASE /\ At(r, "orphanBuild") /\ UNCHANGED host
           /\ Become(r, [req[r] EXCEPT !.pc = "orphanReplace", !.image = checkout.applied])
  <2>1. checkout.applied \in SUBSET Fingerprint /\ "orphanReplace" \in PC
    BY DEF Inv, TypeOK, Checkout, PC, Orphaned
  <2> DEFINE k == [req[r] EXCEPT !.pc = "orphanReplace", !.image = checkout.applied]
  <2>2. /\ k \in RequestState /\ k.pc = "orphanReplace" /\ k.image = checkout.applied
        /\ k.fp = req[r].fp
    BY <1>2, <2>1 DEF RequestState
  <2> QED BY <1>4, <1>7, <2>2, BuildsInv DEF At
<1>8. CASE /\ At(r, "orphanReplace") /\ running' = req[r].image /\ UNCHANGED checkout
           /\ Become(r, Idle)
  BY <1>4, <1>5, <1>8, ReplacesInv DEF At
<1>9. CASE UNCHANGED host /\ Become(r, Idle)
  BY <1>4, <1>5, <1>9, LeaveSafe
<1> QED BY <1>1, <1>6, <1>7, <1>8, <1>9 DEF OrphanRuns

\* The operator approves, the artifact appears and drifts: what is deployed
\* does not depend on it.
LEMMA ApprovalInv ==
  ASSUME Inv, NEW f \in Fingerprint,
         ApprovePermit(f) \/ RepairVerified(f) \/ ArtifactDrifts(f)
  PROVE  Inv'
<1>1. UNCHANGED <<row, req, host, applies, edits>>
  BY DEF ApprovePermit, RepairVerified, ArtifactDrifts
<1>2. AttemptOf[f] \in Attempt
  OBVIOUS
<1>3. TypeOK'
  BY <1>1, <1>2 DEF Inv, TypeOK, PermitState, ApprovePermit, RepairVerified, ArtifactDrifts, host
<1>4. \A g \in Fingerprint : permit'[g] = "CONSUMED" <=> permit[g] = "CONSUMED"
  BY DEF Inv, TypeOK, ApprovePermit, RepairVerified, ArtifactDrifts
<1>5. \A g \in Fingerprint : RowOK(g)'
  BY <1>1, <1>4 DEF Inv, RowOK, Sole, Started, host
<1>6. (\A r \in Request : RequestOK(r)') /\ HostOK' /\ OneDeployer'
  BY <1>1 DEF Inv, RequestOK, At, HostOK, OneDeployer, Sole, Started, host
<1> QED BY <1>3, <1>5, <1>6 DEF Inv

\* Once the checkout was edited nothing is promised of the patches in it.
LEMMA EditedInv ==
  ASSUME Inv, CheckoutEdited
  PROVE  Inv'
<1>1. edits' \in Nat /\ edits' # 0
  BY DEF Inv, TypeOK, CheckoutEdited
<1>2. UNCHANGED <<database, req, running, applies, drifts>>
  BY DEF CheckoutEdited
<1>3. checkout' \in Checkout
  <2>1. checkout \in Checkout
    BY DEF Inv, TypeOK
  <2>2. /\ [checkout EXCEPT !.edited = TRUE] \in Checkout
        /\ [checkout EXCEPT !.head = "moved"] \in Checkout
        /\ [head |-> "original", applied |-> {}, edited |-> FALSE] \in Checkout
    BY <2>1 DEF Checkout
  <2> QED BY <2>2 DEF CheckoutEdited
<1>4. TypeOK'
  BY <1>1, <1>2, <1>3 DEF Inv, TypeOK, database
<1>5. \A g \in Fingerprint : RowOK(g)'
  BY <1>1, <1>2 DEF Inv, RowOK, Sole, database
<1>6. (\A r \in Request : RequestOK(r)') /\ HostOK' /\ OneDeployer'
  BY <1>1, <1>2 DEF Inv, RequestOK, At, HostOK, OneDeployer, Sole, database
<1> QED BY <1>4, <1>5, <1>6 DEF Inv

\* A step that changes nothing keeps it.
LEMMA StutterInv ==
  ASSUME Inv, UNCHANGED vars
  PROVE  Inv'
<1>1. UNCHANGED <<artifact, permit, row, req, checkout, running, applies, drifts, edits>>
  BY DEF vars, database, host
<1>2. TypeOK' /\ \A g \in Fingerprint : RowOK(g)'
  BY <1>1 DEF Inv, TypeOK, RowOK, Sole, Started
<1>3. (\A r \in Request : RequestOK(r)') /\ HostOK' /\ OneDeployer'
  BY <1>1 DEF Inv, RequestOK, At, HostOK, OneDeployer, Sole, Started
<1> QED BY <1>2, <1>3 DEF Inv

\* No step of the service breaks the invariant.
LEMMA StepInv == Inv /\ [Next]_vars => Inv'
<1> SUFFICES ASSUME Inv, [Next]_vars
             PROVE  Inv'
  OBVIOUS
<1>1. CASE \E f \in Fingerprint : ApprovePermit(f) \/ RepairVerified(f) \/ ArtifactDrifts(f)
  BY <1>1, ApprovalInv
<1>2. ASSUME NEW r \in Request, NEW f \in Fingerprint, DeployBegin(r, f)
      PROVE  Inv'
  BY <1>2, PreparingInv
<1>3. ASSUME NEW r \in Request, Proceed(r)
      PROVE  Inv'
  BY <1>3, PreparingInv, PrepareInv, StartApplyingInv, RecheckInv, StartApplyInv, GitAppliesInv,
     StartVerifyingInv, BuildInv, ReplaceInv, WatchInv, RecordEndInv DEF Proceed
<1>4. ASSUME NEW r \in Request, Crash(r) \/ OrphanRuns(r)
      PROVE  Inv'
  BY <1>4, CrashInv, OrphanInv
<1> QED BY <1>1, <1>2, <1>3, <1>4, EditedInv, StutterInv DEF Next

\* At the start nothing was approved, applied or run.
LEMMA InitInv == Init => Inv
<1> SUFFICES ASSUME Init
             PROVE  Inv
  OBVIOUS
<1>1. TypeOK
  BY IdleType DEF Init, TypeOK, PermitState, RowState, Checkout
<1>2. \A f \in Fingerprint : RowOK(f)
  BY DEF Init, RowOK, Of
<1>3. \A r \in Request : At(r, "idle")
  BY IdleType DEF Init, At
<1>4. (\A r \in Request : RequestOK(r)) /\ OneDeployer
  BY <1>3 DEF RequestOK, At, Applying, Verifying, Unstarted, Healthy, Past, Deploying, Orphaned,
              OneDeployer
<1>5. HostOK
  BY DEF Init, HostOK
<1> QED BY <1>1, <1>2, <1>4, <1>5 DEF Inv

\* The invariant holds in every state the service can reach.
LEMMA Invariance == Spec => []Inv
  BY InitInv, StepInv, PTL DEF Spec

\* The types of the permits, the rows, the requests and the host.
THEOREM TypeCorrect == Spec => []TypeOK
  BY Invariance, PTL DEF Inv

\* A permit is spent exactly when its deployment row exists.
THEOREM Spent == Spec => []SpentWithRow
<1>1. Inv => SpentWithRow
  BY DEF Inv, RowOK, SpentWithRow
<1> QED BY <1>1, Invariance, PTL

\* At most one request, or command a dead one left behind, is past the
\* consumption of a permit of an attempt.
THEOREM Deployer == Spec => []OneDeployer
  BY Invariance, PTL DEF Inv

\* git apply is started at most once for a recovery attempt.
THEOREM OneApply == Spec => []AtMostOneApply
<1>1. Inv => AtMostOneApply
  <2> SUFFICES ASSUME Inv, NEW f \in Fingerprint, NEW g \in Fingerprint,
                      applies[f] > 0, applies[g] > 0, AttemptOf[f] = AttemptOf[g]
               PROVE  f = g /\ applies[f] = 1
    BY DEF AtMostOneApply
  <2>1. RowOK(f) /\ RowOK(g) /\ g \in Of(AttemptOf[f])
    BY DEF Inv, Of
  <2>2. row[f] # "NONE" /\ row[g] # "NONE"
    BY <2>1 DEF RowOK
  <2> QED BY <2>1, <2>2 DEF RowOK
<1> QED BY <1>1, Invariance, PTL

\* A deployment that is VERIFIED was applied once and, where no other patch was
\* deployed and nobody edited the checkout, its patch is what the container
\* runs.
THEOREM VerifiedRunning == Spec => []VerifiedRuns
<1>1. Inv => VerifiedRuns
  <2> SUFFICES ASSUME Inv, NEW f \in Fingerprint, row[f] = "VERIFIED"
               PROVE  /\ applies[f] = 1
                      /\ edits = 0 /\ (\A g \in Fingerprint : applies[g] > 0 => g = f)
                           => checkout.applied = {f} /\ running = {f}
    BY DEF VerifiedRuns
  <2>1. RowOK(f) /\ HostOK
    BY DEF Inv
  <2>2. applies[f] = 1
    BY <2>1 DEF RowOK
  <2>3. ASSUME edits = 0, \A g \in Fingerprint : applies[g] > 0 => g = f
        PROVE  checkout.applied = {f} /\ running = {f}
    <3>1. Sole(f)
      BY <2>3 DEF Sole, Started
    <3>2. f \in checkout.applied /\ running = {f}
      BY <2>1, <2>3, <3>1 DEF RowOK
    <3> QED BY <2>1, <2>3, <3>1, <3>2 DEF HostOK, Sole
  <2> QED BY <2>2, <2>3
<1> QED BY <1>1, Invariance, PTL

------------------------------------------------------------------------------
(* The deployment service implements the permit gate                       *)

\* The kinds of steps: each changes what concerns one fingerprint.
Approves(f) == /\ permit[f] = "NONE"
               /\ permit' = [permit EXCEPT ![f] = "APPROVED"]
               /\ UNCHANGED <<row, applies>>

Spends(f) == /\ permit[f] = "APPROVED"
             /\ artifact[AttemptOf[f]] = f
             /\ \A g \in Of(AttemptOf[f]) : row[g] = "NONE"
             /\ permit' = [permit EXCEPT ![f] = "CONSUMED"]
             /\ row' = [row EXCEPT ![f] = "PREPARED"]
             /\ UNCHANGED applies

Starts(f) == /\ row[f] = "APPLYING"
             /\ applies[f] = 0
             /\ applies' = [applies EXCEPT ![f] = 1]
             /\ UNCHANGED <<permit, row>>

Moves(f) == /\ row[f] \in {"PREPARED", "APPLYING", "VERIFYING"}
            /\ \E to \in RowState \ {"NONE"} : row' = [row EXCEPT ![f] = to]
            /\ UNCHANGED <<permit, applies>>

Rests == UNCHANGED <<permit, row, applies>>

\* Every step of the service is of one of the kinds.
LEMMA StepKinds ==
  ASSUME Inv, [Next]_vars
  PROVE  \/ Rests
         \/ \E f \in Fingerprint : Approves(f) \/ Spends(f) \/ Starts(f) \/ Moves(f)
<1>1. CASE UNCHANGED vars \/ CheckoutEdited
  BY <1>1 DEF vars, database, CheckoutEdited, Rests
<1>2. ASSUME NEW f \in Fingerprint, ApprovePermit(f) \/ RepairVerified(f) \/ ArtifactDrifts(f)
      PROVE  Rests \/ Approves(f)
  BY <1>2 DEF ApprovePermit, RepairVerified, ArtifactDrifts, Rests, Approves
<1>3. ASSUME NEW r \in Request,
             \/ Preflight(r) \/ PrepareNot(r) \/ Recheck(r) \/ GitApplies(r) \/ Builds(r)
             \/ Replaces(r) \/ HealthPoll(r) \/ PostRead(r) \/ Crash(r) \/ OrphanRuns(r)
             \/ \E f \in Fingerprint : DeployBegin(r, f)
      PROVE  Rests
  <2>1. UNCHANGED database /\ UNCHANGED applies
    BY <1>3 DEF Preflight, PrepareNot, Recheck, GitApplies, Builds, Replaces, HealthPoll,
                PostRead, Crash, OrphanRuns, DeployBegin
  <2> QED BY <2>1 DEF Rests, database
<1>4. ASSUME NEW r \in Request, NEW f \in Fingerprint, f = req[r].fp, ~At(r, "idle"),
             Prepare(r) \/ StartApplying(r) \/ StartApply(r) \/ StartVerifying(r) \/ RecordEnd(r)
      PROVE  Rests \/ Spends(f) \/ Starts(f) \/ Moves(f)
  <2>1. RequestOK(r)
    BY DEF Inv
  <2>2. CASE Prepare(r)
    BY <1>4, <2>2 DEF Prepare, Preparable, Spends
  <2>3. CASE StartApplying(r)
    BY <1>4, <2>3 DEF StartApplying, Moves, Rests, RowState
  <2>4. CASE StartApply(r)
    <3>1. row[f] = "APPLYING" /\ applies[f] = 0
      BY <1>4, <2>1, <2>4 DEF StartApply, RequestOK, At, Applying, Unstarted
    <3>2. applies' = [applies EXCEPT ![f] = 1]
      BY <1>4, <2>4, <3>1 DEF StartApply
    <3> QED BY <2>4, <3>1, <3>2 DEF StartApply, Starts, database
  <2>5. CASE StartVerifying(r)
    BY <1>4, <2>5 DEF StartVerifying, Moves, Rests, RowState
  <2>6. CASE RecordEnd(r)
    <3>1. row[f] \in {"APPLYING", "VERIFYING"}
      <4>1. DOMAIN End = {"applyFailed", "applyLost", "verifyFailed", "verifyLost", "verified"}
        BY DEF End
      <4> QED BY <1>4, <2>1, <2>6, <4>1 DEF RecordEnd, RequestOK, Applying, Verifying
    <3>2. PICK to \in {"FAILED", "OUTCOME_UNKNOWN", "VERIFIED", row[f]} :
            row' = [row EXCEPT ![f] = to]
      <4>1. End[req[r].pc].to \in {"FAILED", "OUTCOME_UNKNOWN", "VERIFIED"}
        BY <2>6 DEF RecordEnd, End
      <4>2. row' = [row EXCEPT ![f] = IF row[f] = End[req[r].pc].from
                                        THEN End[req[r].pc].to ELSE row[f]]
        BY <1>4, <2>6 DEF RecordEnd
      <4> QED BY <4>1, <4>2
    <3> QED BY <2>6, <3>1, <3>2 DEF RecordEnd, Moves, RowState
  <2> QED BY <1>4, <2>2, <2>3, <2>4, <2>5, <2>6
<1>5. ASSUME NEW r \in Request,
             Prepare(r) \/ StartApplying(r) \/ StartApply(r) \/ StartVerifying(r) \/ RecordEnd(r)
      PROVE  \E f \in Fingerprint : Rests \/ Spends(f) \/ Starts(f) \/ Moves(f)
  <2>1. ~At(r, "idle")
    <3>1. "idle" \notin DOMAIN End
      BY DEF End
    <3> QED BY <1>5, <3>1 DEF Prepare, StartApplying, StartApply, StartVerifying, RecordEnd, At
  <2>2. req[r].fp \in Fingerprint
    BY <2>1, Facts
  <2> QED BY <1>4, <1>5, <2>1, <2>2
<1> QED BY <1>1, <1>2, <1>3, <1>5 DEF Next, Proceed

\* A permit is consumed only while the artifact is the one it was approved for.
THEOREM SpentAsApproved == Spec => SpentOnApprovedArtifact
<1>1. Inv /\ [Next]_vars =>
        [\A f \in Fingerprint :
           permit[f] = "APPROVED" /\ permit'[f] = "CONSUMED" => artifact[AttemptOf[f]] = f]_vars
  <2> SUFFICES ASSUME Inv, [Next]_vars, NEW f \in Fingerprint,
                      permit[f] = "APPROVED", permit'[f] = "CONSUMED"
               PROVE  artifact[AttemptOf[f]] = f
    OBVIOUS
  <2>1. permit \in [Fingerprint -> PermitState]
    BY DEF Inv, TypeOK
  <2>2. PICK g \in Fingerprint : Approves(g) \/ Spends(g)
    BY <2>1, StepKinds DEF Rests, Starts, Moves
  <2> QED BY <2>1, <2>2 DEF Approves, Spends
<1> QED BY <1>1, Invariance, PTL DEF Spec, SpentOnApprovedArtifact

\* The phase of a fingerprint, by its permit and its row.
LEMMA PhaseCases ==
  ASSUME NEW f \in Fingerprint, permit[f] \in PermitState
  PROVE  /\ permit[f] = "NONE" => PhaseOf(f) = "unapproved"
         /\ permit[f] = "APPROVED" => PhaseOf(f) = "approved"
         /\ permit[f] = "CONSUMED" =>
              /\ row[f] = "VERIFIED" => PhaseOf(f) = "succeeded"
              /\ row[f] = "FAILED" => PhaseOf(f) = "failed"
              /\ row[f] \notin {"VERIFIED", "FAILED"} => PhaseOf(f) = "claimed"
<1>1. CASE permit[f] \in {"NONE", "APPROVED"}
  BY <1>1 DEF PhaseOf
<1>2. CASE permit[f] = "CONSUMED" /\ row[f] \in {"VERIFIED", "FAILED"}
  BY <1>2 DEF PhaseOf
<1>3. CASE permit[f] = "CONSUMED" /\ row[f] \notin {"VERIFIED", "FAILED"}
  BY <1>3 DEF PhaseOf
<1> QED BY <1>1, <1>2, <1>3 DEF PermitState

\* The same in the next state.
LEMMA PhaseCasesNext ==
  ASSUME NEW f \in Fingerprint, permit'[f] \in PermitState
  PROVE  /\ permit'[f] = "NONE" => PhaseOf(f)' = "unapproved"
         /\ permit'[f] = "APPROVED" => PhaseOf(f)' = "approved"
         /\ permit'[f] = "CONSUMED" =>
              /\ row'[f] = "VERIFIED" => PhaseOf(f)' = "succeeded"
              /\ row'[f] = "FAILED" => PhaseOf(f)' = "failed"
              /\ row'[f] \notin {"VERIFIED", "FAILED"} => PhaseOf(f)' = "claimed"
<1>1. CASE permit'[f] \in {"NONE", "APPROVED"}
  BY <1>1 DEF PhaseOf
<1>2. CASE permit'[f] = "CONSUMED" /\ row'[f] \in {"VERIFIED", "FAILED"}
  BY <1>2 DEF PhaseOf
<1>3. CASE permit'[f] = "CONSUMED" /\ row'[f] \notin {"VERIFIED", "FAILED"}
  BY <1>3 DEF PhaseOf
<1> QED BY <1>1, <1>2, <1>3 DEF PermitState

\* A step that touches the permit and row of f alone changes the phase of f alone.
LEMMA PhaseUpdate ==
  ASSUME NEW f \in Fingerprint, NEW to, PhaseOf(f)' = to,
         \A g \in Fingerprint \ {f} : permit'[g] = permit[g] /\ row'[g] = row[g]
  PROVE  GatePhase' = [GatePhase EXCEPT ![f] = to]
<1>1. \A g \in Fingerprint \ {f} : PhaseOf(g)' = PhaseOf(g)
  BY DEF PhaseOf
<1> HIDE DEF PhaseOf
<1> QED BY <1>1 DEF GatePhase

\* Each step of the service is a step of the gate or leaves it as it is.
LEMMA GateStep ==
  ASSUME Inv, [Next]_vars
  PROVE  [Gate!GateNext]_(Gate!gateVars)
<1>1. /\ permit \in [Fingerprint -> PermitState]
      /\ row \in [Fingerprint -> RowState]
      /\ applies \in [Fingerprint -> Nat]
      /\ \A f \in Fingerprint : permit[f] = "CONSUMED" <=> row[f] # "NONE"
  BY DEF Inv, TypeOK, RowOK
<1>2. CASE Rests
  BY <1>2 DEF Rests, GatePhase, PhaseOf, Gate!gateVars
<1>3. ASSUME NEW f \in Fingerprint, Approves(f) PROVE Gate!Grant(f)
  <2>1. GatePhase[f] = "unapproved"
    BY <1>1, <1>3, PhaseCases DEF Approves, GatePhase
  <2>2. permit'[f] = "APPROVED" /\ "APPROVED" \in PermitState
    BY <1>1, <1>3 DEF Approves, PermitState
  <2>3. PhaseOf(f)' = "approved"
    BY <2>2, PhaseCasesNext
  <2>4. GatePhase' = [GatePhase EXCEPT ![f] = "approved"]
    BY <1>1, <1>3, <2>3, PhaseUpdate DEF Approves
  <2> QED BY <1>3, <2>1, <2>4 DEF Gate!Grant, Approves
<1>4. ASSUME NEW f \in Fingerprint, Spends(f) PROVE Gate!Claim(f)
  <2>1. GatePhase[f] = "approved"
    BY <1>1, <1>4, PhaseCases DEF Spends, GatePhase
  <2>2. permit'[f] = "CONSUMED" /\ "CONSUMED" \in PermitState /\ row'[f] = "PREPARED"
    BY <1>1, <1>4 DEF Spends, PermitState
  <2>3. PhaseOf(f)' = "claimed"
    BY <2>2, PhaseCasesNext
  <2>4. GatePhase' = [GatePhase EXCEPT ![f] = "claimed"]
    BY <1>1, <1>4, <2>3, PhaseUpdate DEF Spends
  <2>5. ASSUME NEW g \in Fingerprint, AttemptOf[g] = AttemptOf[f]
        PROVE  GatePhase[g] \notin Gate!Claimed
    <3>1. permit[g] \in PermitState /\ permit[g] # "CONSUMED"
      BY <1>1, <1>4, <2>5 DEF Spends, Of
    <3>2. GatePhase[g] \in {"unapproved", "approved"}
      BY <3>1, PhaseCases DEF GatePhase, PermitState
    <3> QED BY <3>2 DEF Gate!Claimed, Gate!Settled
  <2> QED BY <1>4, <2>1, <2>4, <2>5 DEF Gate!Claim, Spends
<1>5. ASSUME NEW f \in Fingerprint, Starts(f) PROVE Gate!Act(f)
  <2>1. GatePhase[f] = "claimed"
    BY <1>1, <1>5, PhaseCases DEF Starts, GatePhase
  <2>2. GatePhase' = GatePhase
    BY <1>5 DEF Starts, GatePhase, PhaseOf
  <2> QED BY <1>5, <2>1, <2>2 DEF Gate!Act, Starts
<1>6. ASSUME NEW f \in Fingerprint, Moves(f)
      PROVE  \/ UNCHANGED Gate!gateVars
             \/ \E s \in Gate!Settled : Gate!Settle(f, s)
  <2>1. permit[f] = "CONSUMED"
    BY <1>1, <1>6 DEF Moves
  <2>2. GatePhase[f] = "claimed"
    BY <1>1, <1>6, <2>1, PhaseCases DEF Moves, GatePhase
  <2>3. permit'[f] = "CONSUMED" /\ "CONSUMED" \in PermitState
    BY <1>6, <2>1 DEF Moves, PermitState
  <2>4. PICK to \in {"claimed"} \union Gate!Settled : PhaseOf(f)' = to
    BY <2>3, PhaseCasesNext DEF Gate!Settled
  <2>5. GatePhase' = [GatePhase EXCEPT ![f] = to]
    BY <1>1, <1>6, <2>4, PhaseUpdate DEF Moves
  <2>6. CASE to = "claimed"
    <3>1. GatePhase' = GatePhase
      BY <2>2, <2>5, <2>6 DEF GatePhase
    <3> QED BY <1>6, <3>1 DEF Gate!gateVars, Moves
  <2>7. CASE to \in Gate!Settled
    BY <1>6, <2>2, <2>5, <2>7 DEF Gate!Settle, Moves
  <2> QED BY <2>4, <2>6, <2>7
<1> QED BY <1>2, <1>3, <1>4, <1>5, <1>6, StepKinds DEF Gate!GateNext

\* The deployment service implements the permit gate: approval, one claim per
\* attempt, at most one git apply, one settled result.
THEOREM Refinement == Spec => ImplementsGate
<1>1. Init => Gate!GateInit
  <2> SUFFICES ASSUME Init PROVE Gate!GateInit
    OBVIOUS
  <2>1. \A f \in Fingerprint : PhaseOf(f) = "unapproved"
    BY DEF Init, PhaseOf
  <2> QED BY <2>1 DEF Init, Gate!GateInit, GatePhase
<1>2. Inv /\ [Next]_vars => [Gate!GateNext]_(Gate!gateVars)
  BY GateStep
<1> QED BY <1>1, <1>2, Invariance, PTL DEF Spec, ImplementsGate, Gate!GateSpec
==============================================================================
