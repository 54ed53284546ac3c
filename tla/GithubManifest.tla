--------------------------- MODULE GithubManifest ---------------------------
(* The creation of a GitHub App: manifest attempts, the callback GitHub    *)
(* sends the operator back to (app-manifest/callback/route.ts), the claim, *)
(* the checkpoint and the completion of an attempt (github-app-service.ts).*)
(*                                                                         *)
(* GitHub gives the private key of an App once, in exchange for a code, so *)
(* an attempt converts once, writes the identity and the digest of the key *)
(* into its row (the checkpoint), stores the key and registers the App. An *)
(* attempt that stops halfway is RECOVERY_REQUIRED, or EXCHANGING with a   *)
(* claim that grows old; from the checkpoint on it can be reconciled with  *)
(* the key file.                                                           *)
(*                                                                         *)
(* Time is two facts of an attempt: the attempt has not expired (live),    *)
(* and it was claimed less than five minutes ago (fresh) by a request. Of  *)
(* the App only its key matters; half-written or malformed checkpoints are *)
(* not rows this program writes. A commit survives a power loss.           *)
EXTENDS SecretStore

CONSTANT MaxCrash     \* bound: crashes and power losses

ASSUME ManifestAssumption == MaxCrash \in Nat

VARIABLES
    attempt,     \* github_manifest_attempts, and the registration of each
    converted,   \* how often GitHub was asked to convert the code of an attempt
    gone,        \* history: the attempts whose stored key was lost after all
    crashes

manifest == <<attempt, converted, gone, crashes>>

Status == {"NONE", "PENDING", "EXCHANGING", "COMPLETED", "RECOVERY_REQUIRED"}

ManifestTypeOK ==
    /\ StoreTypeOK
    /\ attempt \in [Attempt -> [status : Status, checkpoint : 0..MaxKey,
                                live : BOOLEAN, fresh : BOOLEAN,
                                by : Request \union {None}]]
    /\ converted \in [Attempt -> 0..MaxKey]
    /\ gone \subseteq Attempt /\ crashes \in 0..MaxCrash
    /\ \A r \in Request : ~At(r, "idle") => req[r].attempt # None

ManifestInit ==
    /\ StoreInit
    /\ attempt = [a \in Attempt |-> [status |-> "NONE", checkpoint |-> NoKey,
                                     live |-> FALSE, fresh |-> FALSE, by |-> None]]
    /\ converted = [a \in Attempt |-> 0] /\ gone = {} /\ crashes = 0

Has(a, status) == attempt[a].status = status
Checkpointed(a) == attempt[a].checkpoint # NoKey
Stale(a) == ~attempt[a].fresh \/ ~attempt[a].live

(* Mutant: without the condition on the status. *)
MarkRecovery_Always(a) == attempt' = [attempt EXCEPT ![a].status = "RECOVERY_REQUIRED"]

(* RECOVERY_REQUIRED, if the attempt is still EXCHANGING: whoever claimed it. *)
MarkRecovery(a) ==
    attempt' = [attempt EXCEPT ![a].status = IF @ = "EXCHANGING" THEN "RECOVERY_REQUIRED" ELSE @]

(* Mutant: the request is answered and left where it was. *)
Answer_Unfinished(r) == req' = [req EXCEPT ![r].attempt = None]

Answer(r) == req' = [req EXCEPT ![r] = Idle]

-----------------------------------------------------------------------------
CreateAttempt(a) ==
    /\ Has(a, "NONE")
    /\ attempt' = [attempt EXCEPT ![a].status = "PENDING", ![a].live = TRUE]
    /\ UNCHANGED <<files, req, faults, converted, gone, crashes>>

Expire(a) ==
    /\ attempt[a].live /\ attempt' = [attempt EXCEPT ![a].live = FALSE]
    /\ UNCHANGED <<files, req, faults, converted, gone, crashes>>

Age(a) ==
    /\ Has(a, "EXCHANGING") /\ attempt[a].fresh
    /\ attempt' = [attempt EXCEPT ![a].fresh = FALSE]
    /\ UNCHANGED <<files, req, faults, converted, gone, crashes>>

(* Mutant: a stale claim without a checkpoint is taken over. *)
ClaimPending_Retry(r, a) ==
    /\ At(r, "idle") /\ attempt[a].live /\ converted[a] < MaxKey
    /\ Has(a, "PENDING") \/ (Has(a, "EXCHANGING") /\ Stale(a) /\ ~Checkpointed(a))
    /\ attempt' = [attempt EXCEPT ![a].status = "EXCHANGING", ![a].fresh = TRUE,
                                  ![a].by = r]
    /\ converted' = [converted EXCEPT ![a] = @ + 1]
    /\ req' = [req EXCEPT ![r] = [Idle EXCEPT !.pc = "exchange", !.attempt = a,
                                              !.key = converted[a] + 1]]
    /\ UNCHANGED <<files, faults, gone, crashes>>

(* claimManifestAttempt: the claim of a new attempt, at once followed by   *)
(* the request to GitHub.                                                  *)
ClaimPending(r, a) ==
    /\ At(r, "idle") /\ Has(a, "PENDING") /\ attempt[a].live /\ converted[a] < MaxKey
    /\ attempt' = [attempt EXCEPT ![a].status = "EXCHANGING", ![a].fresh = TRUE,
                                   ![a].by = r]
    /\ converted' = [converted EXCEPT ![a] = @ + 1]
    /\ req' = [req EXCEPT ![r] = [Idle EXCEPT !.pc = "exchange", !.attempt = a,
                                              !.key = converted[a] + 1]]
    /\ UNCHANGED <<files, faults, gone, crashes>>

(* Mutant: only an attempt that was never claimed. *)
FailClosed_PendingOnly(r, a) ==
    /\ At(r, "idle") /\ Has(a, "PENDING") /\ ~attempt[a].live
    /\ attempt' = [attempt EXCEPT ![a].status = "RECOVERY_REQUIRED"]
    /\ UNCHANGED <<files, req, faults, converted, gone, crashes>>

(* An attempt nobody converted in time, and one whose claim went stale     *)
(* before the checkpoint, go to recovery rather than to GitHub again.      *)
FailClosed(r, a) ==
    /\ At(r, "idle")
    /\ \/ Has(a, "PENDING") /\ ~attempt[a].live
       \/ Has(a, "EXCHANGING") /\ Stale(a) /\ ~Checkpointed(a)
    /\ attempt' = [attempt EXCEPT ![a].status = "RECOVERY_REQUIRED"]
    /\ UNCHANGED <<files, req, faults, converted, gone, crashes>>

(* The claim of an attempt with a checkpoint, for reconciliation only. *)
ClaimReconciliation(r, a) ==
    /\ At(r, "idle") /\ Checkpointed(a)
    /\ Has(a, "RECOVERY_REQUIRED") \/ (Has(a, "EXCHANGING") /\ Stale(a))
    /\ attempt' = [attempt EXCEPT ![a].status = "EXCHANGING", ![a].fresh = TRUE,
                                   ![a].by = r]
    /\ req' = [req EXCEPT ![r] = [Idle EXCEPT !.pc = "inspect", !.attempt = a,
                                              !.key = attempt[a].checkpoint]]
    /\ UNCHANGED <<files, faults, converted, gone, crashes>>

-----------------------------------------------------------------------------
(* GitHub's answer and, in the same turn of the process, the checkpoint,   *)
(* which an attempt takes once and only while EXCHANGING.                  *)
Exchanged(r) ==
    LET a == req[r].attempt
    IN  /\ At(r, "exchange")
        /\ IF Has(a, "EXCHANGING") /\ ~Checkpointed(a)
           THEN /\ attempt' = [attempt EXCEPT ![a].checkpoint = req[r].key]
                /\ GoTo(r, "write")
           ELSE MarkRecovery(a) /\ Answer(r)
        /\ UNCHANGED <<files, faults, converted, gone, crashes>>

(* An error, a lost answer, or one that does not fit the attempt's target. *)
ExchangeFails(r) ==
    /\ At(r, "exchange") /\ MarkRecovery(req[r].attempt) /\ Answer(r)
    /\ UNCHANGED <<files, faults, converted, gone, crashes>>

(* completeManifestAttempt: one transaction inserts the registration, with *)
(* the reference derived from the attempt, and completes the attempt.      *)
Complete(r) ==
    LET a == req[r].attempt
    IN  /\ At(r, "stored") /\ Has(a, "EXCHANGING") /\ Checkpointed(a)
        /\ attempt' = [attempt EXCEPT ![a].status = "COMPLETED"]
        /\ Answer(r)
        /\ UNCHANGED <<files, faults, converted, gone, crashes>>

(* The attempt is no longer EXCHANGING, or the transaction fails. *)
CompleteFails(r) ==
    LET a == req[r].attempt
    IN  /\ At(r, "stored")
        /\ \/ ~Has(a, "EXCHANGING") /\ UNCHANGED faults
           \/ Fault
        /\ MarkRecovery(a) /\ Answer(r)
        /\ UNCHANGED <<files, converted, gone, crashes>>

(* The key could not be stored, or not be reconciled, now or for good. *)
GiveUp(r) ==
    /\ req[r].pc \in {"failed", "retry", "lost"}
    /\ MarkRecovery(req[r].attempt) /\ Answer(r)
    /\ UNCHANGED <<files, faults, converted, gone, crashes>>

(* The work on the files. The clean-up of a put that failed asks nobody who *)
(* has the claim by then: it may withdraw a key that another request, which *)
(* took the claim over, has found stored, or registered.                    *)
WithdrawsLate(r) ==
    /\ At(r, "cleanup") /\ req[r].ours /\ attempt[req[r].attempt].by # r
    /\ final[req[r].attempt] # NoKey /\ final'[req[r].attempt] = NoKey

Storing(r) ==
    /\ StoreStep(r)
    /\ gone' = IF WithdrawsLate(r) THEN gone \union {req[r].attempt} ELSE gone
    /\ UNCHANGED <<attempt, converted, crashes>>

(* The process ends with every request in it, with or without the power. *)
Crash ==
    /\ crashes < MaxCrash /\ crashes' = crashes + 1
    /\ req' = [r \in Request |-> Idle]
    /\ \/ UNCHANGED <<files, gone>>
       \/ LosePower /\ UNCHANGED gone
       \/ LoseDirectory /\ gone' = gone \union {a \in Attempt : final[a] # NoKey}
    /\ UNCHANGED <<faults, attempt, converted>>

-----------------------------------------------------------------------------
Callback(r, a) == ClaimPending(r, a) \/ FailClosed(r, a) \/ ClaimReconciliation(r, a)

Handling(r) ==
    \/ Exchanged(r) \/ ExchangeFails(r) \/ Complete(r) \/ CompleteFails(r) \/ GiveUp(r)
    \/ Storing(r)

ManifestStep ==
    \/ \E a \in Attempt : CreateAttempt(a) \/ Expire(a) \/ Age(a)
    \/ \E r \in Request, a \in Attempt : Callback(r, a)
    \/ \E r \in Request : Handling(r)

-----------------------------------------------------------------------------
(* A registered App has its key: the file its reference leads to is the    *)
(* one of the checkpoint, and would survive a power loss that leaves the   *)
(* directory. The registration and the file are made by different steps,   *)
(* perhaps of different requests, of which any may fail or be the last.    *)
(* There are two ways to lose the key, and no third: the put that had      *)
(* published it fails, and cleans up, after its claim was taken over, or   *)
(* the power fails and the directory was never anchored.                   *)
RegisteredKeyIsDurable ==
    \A a \in Attempt :
        Has(a, "COMPLETED") => \/ /\ final[a] = attempt[a].checkpoint /\ final[a] # NoKey
                                  /\ disk[a].final = final[a]
                               \/ a \in gone

(* The code of an attempt is sent to GitHub at most once, whatever is      *)
(* retried, reclaimed or restarted.                                        *)
OneConversion == \A a \in Attempt : converted[a] <= 1
=============================================================================
