----------------------------- MODULE PermitGate -----------------------------
(***************************************************************************)
(* What a permit-gated consequential action promises, whatever the action  *)
(* is: an operator approves a fingerprint of the recovery state, the       *)
(* approval is claimed once, the claim is used for at most one external    *)
(* effect, and the result is settled once and never revised.  Among the    *)
(* fingerprints of one group (the incident they belong to) at most one is  *)
(* ever claimed.  Redrive.tla (one GitHub redelivery) and Deployment.tla   *)
(* (one git apply) are shown to implement this module.                     *)
(***************************************************************************)
EXTENDS Naturals

CONSTANTS Key,      \* the fingerprints that can be approved
          Group,    \* the incidents they belong to
          GroupOf   \* the incident of a fingerprint

VARIABLES phase,  \* how far each fingerprint has gone
          acts    \* how many external effects were started under it

gateVars == <<phase, acts>>

Phase == {"unapproved", "approved", "claimed", "succeeded", "failed"}
Settled == {"succeeded", "failed"}
Claimed == {"claimed"} \union Settled

GateInit == /\ phase = [k \in Key |-> "unapproved"]
            /\ acts = [k \in Key |-> 0]

Grant(k) == /\ phase[k] = "unapproved"
            /\ phase' = [phase EXCEPT ![k] = "approved"]
            /\ UNCHANGED acts

Claim(k) == /\ phase[k] = "approved"
            /\ \A j \in Key : GroupOf[j] = GroupOf[k] => phase[j] \notin Claimed
            /\ phase' = [phase EXCEPT ![k] = "claimed"]
            /\ UNCHANGED acts

Act(k) == /\ phase[k] = "claimed"
          /\ acts[k] = 0
          /\ acts' = [acts EXCEPT ![k] = 1]
          /\ UNCHANGED phase

\* Either way of settling may find that the effect was never started.
Settle(k, s) == /\ phase[k] = "claimed"
                /\ phase' = [phase EXCEPT ![k] = s]
                /\ UNCHANGED acts

GateNext == \E k \in Key : \/ Grant(k)
                           \/ Claim(k)
                           \/ Act(k)
                           \/ \E s \in Settled : Settle(k, s)

GateSpec == GateInit /\ [][GateNext]_gateVars
------------------------------------------------------------------------------
GateTypeOK == /\ phase \in [Key -> Phase]
              /\ acts \in [Key -> {0, 1}]

\* An incident sees at most one external effect of a kind, and only under a
\* fingerprint that was approved and claimed.
OneEffectPerGroup ==
    \A j, k \in Key :
        acts[j] > 0 /\ acts[k] > 0 /\ GroupOf[j] = GroupOf[k]
            => j = k /\ phase[j] \in Claimed
=============================================================================
