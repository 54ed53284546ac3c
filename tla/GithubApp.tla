----------------------------- MODULE GithubApp -----------------------------
(* The GitHub App of an operator: its creation (GithubManifest) composed   *)
(* with its installation (github-installation-service.ts and the           *)
(* installation attempts of github-app-service.ts). An installation        *)
(* attempt belongs to a registered App and reads the App's private key to  *)
(* ask GitHub for the installation that the browser named.                 *)
(*                                                                         *)
(* The request to GitHub only reads, so a stale claim is taken over; the   *)
(* claim time fences the former claimant. Claim times of live claims       *)
(* differ, so a claim is known by its visit.                               *)
EXTENDS GithubManifest

CONSTANTS
    InstallAttempt,   \* github_installation_attempts
    Visit,            \* requests to the installation callback
    Installation,     \* installation ids a browser may bring
    AppOf             \* what GitHub says: the App of an installation, or None

ASSUME GithubAppAssumption ==
    /\ AppOf \in [Installation -> Attempt \union {None}]
    /\ None \notin Attempt \union Visit \union Installation \union InstallAttempt

VARIABLES
    install,     \* github_installation_attempts
    installed,   \* github_installations: the App an installation is bound to
    visit        \* the requests that wait for GitHub

installs == <<install, installed, visit>>
vars == <<files, req, faults, manifest, installs>>

InstallStatus == {"NONE", "PENDING", "VERIFYING", "COMPLETED", "RECOVERY_REQUIRED"}
Away == [attempt |-> None, installation |-> None]

TypeOK ==
    /\ ManifestTypeOK
    /\ install \in [InstallAttempt ->
                       [status : InstallStatus, app : Attempt \union {None},
                        claim : Visit \union {None}, live : BOOLEAN, fresh : BOOLEAN,
                        installation : Installation \union {None}]]
    /\ installed \in [Installation -> Attempt \union {None}]
    /\ visit \in [Visit -> {Away} \union [attempt : InstallAttempt, installation : Installation]]
    /\ \A i \in InstallAttempt : install[i].status # "NONE" => install[i].app # None

Init ==
    /\ ManifestInit
    /\ install = [i \in InstallAttempt |-> [status |-> "NONE", app |-> None, claim |-> None,
                                            live |-> FALSE, fresh |-> FALSE,
                                            installation |-> None]]
    /\ installed = [x \in Installation |-> None]
    /\ visit = [v \in Visit |-> Away]

Is(i, status) == install[i].status = status
HasClaim(v, i) == Is(i, "VERIFYING") /\ install[i].claim = v
Leave(v) == visit' = [visit EXCEPT ![v] = Away]

-----------------------------------------------------------------------------
(* createInstallationAttempt, by the manifest callback or the operator. *)
StartInstall(i, a) ==
    /\ Is(i, "NONE") /\ Has(a, "COMPLETED")
    /\ install' = [install EXCEPT ![i].status = "PENDING", ![i].app = a, ![i].live = TRUE]
    /\ UNCHANGED <<installed, visit>>

InstallExpires(i) ==
    /\ install[i].live /\ install' = [install EXCEPT ![i].live = FALSE]
    /\ UNCHANGED <<installed, visit>>

InstallAges(i) ==
    /\ Is(i, "VERIFYING") /\ install[i].fresh
    /\ install' = [install EXCEPT ![i].fresh = FALSE]
    /\ UNCHANGED <<installed, visit>>

(* claimInstallationAttempt: a new attempt, or one whose claim is stale. *)
ClaimableInstall(i) ==
    /\ install[i].live
    /\ Is(i, "PENDING") \/ (Is(i, "VERIFYING") /\ ~install[i].fresh)

(* The claim and, with the App's key, the request to GitHub. *)
ClaimInstall(v, i, x) ==
    /\ visit[v] = Away /\ ClaimableInstall(i) /\ Readable(install[i].app)
    /\ install' = [install EXCEPT ![i].status = "VERIFYING", ![i].claim = v, ![i].fresh = TRUE]
    /\ visit' = [visit EXCEPT ![v] = [attempt |-> i, installation |-> x]]
    /\ UNCHANGED <<installed, faults>>

(* The key cannot be read. *)
ClaimWithoutKey(v, i) ==
    /\ visit[v] = Away /\ ClaimableInstall(i)
    /\ IF Readable(install[i].app) THEN Fault ELSE UNCHANGED faults
    /\ install' = [install EXCEPT ![i].status = "RECOVERY_REQUIRED", ![i].claim = v,
                                  ![i].fresh = TRUE]
    /\ UNCHANGED <<installed, visit>>

RefuseExpired(v, i) ==
    /\ visit[v] = Away /\ ~install[i].live /\ install[i].status \in {"PENDING", "VERIFYING"}
    /\ install' = [install EXCEPT ![i].status = "RECOVERY_REQUIRED"]
    /\ UNCHANGED <<installed, visit>>

-----------------------------------------------------------------------------
(* What a visit does to its attempt, it does under its claim. *)
Mark(v, i) ==
    install' = [install EXCEPT ![i].status = IF HasClaim(v, i) THEN "RECOVERY_REQUIRED" ELSE @]

Release(v, i) ==
    install' = [install EXCEPT
                   ![i].status = IF HasClaim(v, i) THEN "PENDING" ELSE @,
                   ![i].claim = IF HasClaim(v, i) THEN None ELSE @]

(* Mutant: any installation GitHub knows. *)
Verified_AnyApp(i, x) == TRUE

(* parseGithubInstallation and the comparison with the App's owner: GitHub *)
(* knows the installation, as one of this App.                             *)
Verified(i, x) == AppOf[x] = install[i].app

(* completeInstallationAttempt: the installation is written only together  *)
(* with the completion of an attempt that is still claimed.                *)
CompleteInstall(v, i, x) ==
    IF HasClaim(v, i) /\ installed[x] \in {None, install[i].app}
    THEN /\ installed' = [installed EXCEPT ![x] = install[i].app]
         /\ install' = [install EXCEPT ![i].status = "COMPLETED", ![i].installation = x]
    ELSE Mark(v, i) /\ UNCHANGED installed

GithubConfirms(v) ==
    LET i == visit[v].attempt
        x == visit[v].installation
    IN  /\ visit[v] # Away /\ Leave(v)
        /\ \/ Verified(i, x) /\ CompleteInstall(v, i, x) /\ UNCHANGED faults
           \/ Verified(i, x) /\ Fault /\ Mark(v, i) /\ UNCHANGED installed
           \/ ~Verified(i, x) /\ Mark(v, i) /\ UNCHANGED <<installed, faults>>

(* A time-out, a network error, 429, 5xx: the callback may be repeated. *)
GithubUnreachable(v) ==
    /\ visit[v] # Away /\ Fault
    /\ Release(v, visit[v].attempt) /\ Leave(v) /\ UNCHANGED installed

(* An error that says nothing of the installation and is not known to pass. *)
GithubRefuses(v) ==
    /\ visit[v] # Away /\ Mark(v, visit[v].attempt) /\ Leave(v)
    /\ UNCHANGED <<installed, faults>>

-----------------------------------------------------------------------------
VisitBegins(v, i) ==
    \/ \E x \in Installation : ClaimInstall(v, i, x)
    \/ ClaimWithoutKey(v, i)
    \/ RefuseExpired(v, i) /\ UNCHANGED faults

InstallStep ==
    \/ \E i \in InstallAttempt, a \in Attempt : StartInstall(i, a) /\ UNCHANGED faults
    \/ \E i \in InstallAttempt : (InstallExpires(i) \/ InstallAges(i)) /\ UNCHANGED faults
    \/ \E v \in Visit, i \in InstallAttempt : VisitBegins(v, i)
    \/ \E v \in Visit : GithubConfirms(v) \/ GithubUnreachable(v) \/ GithubRefuses(v)

Next ==
    \/ ManifestStep /\ UNCHANGED installs
    \/ InstallStep /\ UNCHANGED <<files, req, manifest>>
    \/ Crash /\ visit' = [v \in Visit |-> Away] /\ UNCHANGED <<install, installed>>

Spec == Init /\ [][Next]_vars

(* A request runs to its end, GitHub or the client's time-out answers it;  *)
(* claims and attempts grow old; and the operator opens the callback until it is done.  *)
Fairness ==
    /\ \A r \in Request : WF_vars(Handling(r) /\ UNCHANGED installs)
    /\ \A a \in Attempt : /\ WF_vars(Age(a) /\ UNCHANGED installs)
                          /\ WF_vars((\E r \in Request : Callback(r, a)) /\ UNCHANGED installs)
    /\ \A v \in Visit : WF_vars((GithubConfirms(v) \/ GithubRefuses(v))
                                   /\ UNCHANGED <<files, req, manifest>>)
    /\ \A i \in InstallAttempt :
          /\ WF_vars(InstallAges(i) /\ UNCHANGED <<files, req, faults, manifest>>)
          /\ WF_vars(InstallExpires(i) /\ UNCHANGED <<files, req, faults, manifest>>)
          /\ WF_vars((\E v \in Visit : VisitBegins(v, i)) /\ UNCHANGED <<files, req, manifest>>)

FairSpec == Spec /\ Fairness

-----------------------------------------------------------------------------
(* A completed installation attempt names an installation that GitHub      *)
(* attributes to the very App whose key was created under the operator's   *)
(* state, and that is what the installations table says of it: although    *)
(* the browser chose the id, several visits of an attempt may run, and a   *)
(* visit whose claim was taken over may be the first to be answered.       *)
InstallationProven ==
    \A i \in InstallAttempt :
        LET x == install[i].installation
        IN  /\ Is(i, "COMPLETED") => AppOf[x] = install[i].app /\ installed[x] = install[i].app
            /\ x # None => Is(i, "COMPLETED")

(* Completion is for good, of an App and of an installation: a late answer, *)
(* a failing request or an expiry takes nothing back.                       *)
CompletedForGood ==
    [][/\ \A a \in Attempt : Has(a, "COMPLETED") => attempt'[a].status = "COMPLETED"
       /\ \A i \in InstallAttempt : Is(i, "COMPLETED") => install'[i].status = "COMPLETED"
                                       /\ install'[i].installation = install[i].installation
      ]_vars

(* A key that was kept is found again: when the file of a checkpointed     *)
(* attempt is on disk, the directory with it, and no put is under way that *)
(* could withdraw it, the App is eventually registered, however the steps  *)
(* before it ended.                                                        *)
KeptKey(a) ==
    /\ anchored /\ Checkpointed(a) /\ final[a] = attempt[a].checkpoint /\ disk[a].final = final[a]
    /\ \A r \in Request : req[r].attempt = a => req[r].pc \notin Putting

KeptKeyRegisters == \A a \in Attempt : KeptKey(a) ~> Has(a, "COMPLETED")

(* No attempt stays claimed: neither a crash nor a lost answer leaves an   *)
(* App or an installation in a state that only waits.                      *)
ClaimsSettle ==
    /\ \A a \in Attempt : Has(a, "EXCHANGING") ~> ~Has(a, "EXCHANGING")
    /\ \A i \in InstallAttempt : Is(i, "VERIFYING") ~> ~Is(i, "VERIFYING")
=============================================================================
