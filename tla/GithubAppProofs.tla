-------------------------- MODULE GithubAppProofs --------------------------
(***************************************************************************)
(* Theorems about GithubApp, for every set of attempts, requests and       *)
(* visits and every bound: the code of an attempt is converted at most     *)
(* once, a registered App has its key unless a late clean-up or the loss   *)
(* of the directory took it, a completed installation is one GitHub        *)
(* attributes to the App, and completion is final.                         *)
(*                                                                         *)
(* The argument for the key: an attempt is converted by one request, and   *)
(* that request may withdraw the key it published.  While the last claim   *)
(* of the attempt is its own, no other request works on the attempt        *)
(* (Alone), so none has found the key stored and the attempt is not        *)
(* COMPLETED; once the claim is another's, the withdrawal is recorded.     *)
(***************************************************************************)
EXTENDS GithubApp, TLAPS

InstallRow == [status : InstallStatus, app : Attempt \union {None}, claim : Visit \union {None},
               live : BOOLEAN, fresh : BOOLEAN, installation : Installation \union {None}]
VisitRow == {Away} \union [attempt : InstallAttempt, installation : Installation]
AttemptRow == [status : Status, checkpoint : 0..MaxKey, live : BOOLEAN, fresh : BOOLEAN,
               by : Request \union {None}]
RequestRow == [pc : PC, attempt : Attempt \union {None}, key : 0..MaxKey, ours : BOOLEAN]

\* Until an attempt is COMPLETED, the request that converts it and stores its
\* key may take the key away again.
Putter == {"exchange"} \union Putting
Untouched == {"NONE", "PENDING"}

\* The one key of an attempt is checkpointed, in its file, and on the disk;
\* or it was, and was lost in one of the two ways.
Held(a) ==
    \/ attempt[a].checkpoint = 1 /\ final[a] = 1 /\ disk[a].final = 1
    \/ a \in gone

AttemptOK(a) ==
    /\ attempt[a].status \in Untouched => converted[a] = 0 /\ attempt[a].checkpoint = NoKey
    /\ converted[a] <= 1
    /\ attempt[a].checkpoint <= 1
    /\ Has(a, "COMPLETED") => Held(a)

\* No other request works on the attempt of r.
Alone(r) == \A q \in Request \ {r} : ~At(q, "idle") => req[q].attempt # req[r].attempt

RequestOK(r) ==
    LET a == req[r].attempt IN
    ~At(r, "idle") =>
        /\ req[r].key = 1
        /\ attempt[a].status \notin Untouched
        /\ ~At(r, "exchange") => attempt[a].checkpoint = 1
        /\ At(r, "stored") => Held(a)
        /\ req[r].pc \in {"exchange", "write", "link", "unlink"} => ~req[r].ours
        /\ req[r].pc \in Putter /\ attempt[a].by = r => Alone(r) /\ ~Has(a, "COMPLETED")

ManifestInv ==
    /\ ManifestTypeOK
    /\ \A a \in Attempt : AttemptOK(a)
    /\ \A r \in Request : RequestOK(r)

\* What a completed installation names is proven, and only it names one.
InstallOK(i) ==
    LET x == install[i].installation IN
    /\ Is(i, "COMPLETED") => /\ x \in Installation
                             /\ AppOf[x] = install[i].app
                             /\ installed[x] = install[i].app
    /\ x # None => Is(i, "COMPLETED")

InstallInv ==
    /\ install \in [InstallAttempt -> InstallRow]
    /\ installed \in [Installation -> Attempt \union {None}]
    /\ visit \in [Visit -> VisitRow]
    /\ \A i \in InstallAttempt : ~Is(i, "NONE") => install[i].app # None
    /\ \A i \in InstallAttempt : InstallOK(i)

Inv == ManifestInv /\ InstallInv

\* What work on the files leaves alone; gone may only grow.
FilesOnly ==
    /\ UNCHANGED <<attempt, converted, crashes, anchored>>
    /\ gone \subseteq gone' /\ gone' \subseteq Attempt

USE SecretStoreAssumption, ManifestAssumption, GithubAppAssumption

------------------------------------------------------------------------------
(* How a step changes requests and attempts                                *)

\* The types of the manifest attempts, by the names used here.
LEMMA Types ==
  /\ ManifestTypeOK <=>
       /\ final \in [Attempt -> 0..MaxKey]
       /\ temp \in [Attempt -> SUBSET Key]
       /\ disk \in [Attempt -> [final : 0..MaxKey, temp : SUBSET Key]]
       /\ req \in [Request -> RequestRow]
       /\ faults \in 0..MaxFault
       /\ attempt \in [Attempt -> AttemptRow]
       /\ converted \in [Attempt -> 0..MaxKey]
       /\ gone \subseteq Attempt /\ crashes \in 0..MaxCrash /\ anchored \in BOOLEAN
       /\ \A r \in Request : ~At(r, "idle") => req[r].attempt # None
  /\ ManifestTypeOK' <=>
       /\ final' \in [Attempt -> 0..MaxKey]
       /\ temp' \in [Attempt -> SUBSET Key]
       /\ disk' \in [Attempt -> [final : 0..MaxKey, temp : SUBSET Key]]
       /\ req' \in [Request -> RequestRow]
       /\ faults' \in 0..MaxFault
       /\ attempt' \in [Attempt -> AttemptRow]
       /\ converted' \in [Attempt -> 0..MaxKey]
       /\ gone' \subseteq Attempt /\ crashes' \in 0..MaxCrash /\ anchored' \in BOOLEAN
       /\ \A r \in Request : ~At(r, "idle")' => req'[r].attempt # None
  BY DEF ManifestTypeOK, StoreTypeOK, RequestRow, AttemptRow

\* The request that is idle has no attempt, no key and nothing of its own.
LEMMA IdleRow == Idle \in RequestRow /\ Idle.pc = "idle"
  BY DEF Idle, RequestRow, PC, NoKey

\* What is known of a request that is doing something.
LEMMA Busy ==
  ASSUME ManifestInv, NEW r \in Request, ~At(r, "idle")
  PROVE  /\ req[r] \in RequestRow /\ req[r].attempt \in Attempt
         /\ attempt[req[r].attempt] \in AttemptRow /\ AttemptOK(req[r].attempt)
         /\ RequestOK(r)
<1>1. req[r] \in RequestRow /\ req[r].attempt # None
  BY Types DEF ManifestInv
<1>2. req[r].attempt \in Attempt
  BY <1>1 DEF RequestRow
<1>3. attempt \in [Attempt -> AttemptRow]
  BY Types DEF ManifestInv
<1> QED BY <1>1, <1>2, <1>3 DEF ManifestInv

\* A fault is counted up to its bound.
LEMMA FaultType ==
  ASSUME faults \in 0..MaxFault, Fault \/ UNCHANGED faults
  PROVE  faults' \in 0..MaxFault
  BY DEF Fault

\* A request goes on with its attempt: what is kept stays kept, unless it is
\* this request that withdraws it.
LEMMA StoreSafe ==
  ASSUME ManifestInv, NEW r \in Request, ~At(r, "idle"), NEW s \in RequestRow,
         req' = [req EXCEPT ![r] = s],
         s.attempt = req[r].attempt, s.key = req[r].key,
         s.pc \notin {"idle", "exchange"},
         ~At(r, "exchange"),
         s.pc \in Putter => req[r].pc \in Putter,
         s.pc = "stored" => Held(req[r].attempt)',
         s.pc \in {"write", "link", "unlink"} => ~s.ours,
         FilesOnly,
         final' \in [Attempt -> 0..MaxKey], temp' \in [Attempt -> SUBSET Key],
         disk' \in [Attempt -> [final : 0..MaxKey, temp : SUBSET Key]],
         faults' \in 0..MaxFault,
         \A b \in Attempt :
           Held(b) => Held(b)' \/ (/\ b = req[r].attempt /\ At(r, "cleanup")
                                  /\ attempt[req[r].attempt].by = r)
  PROVE  ManifestInv'
<1> DEFINE a == req[r].attempt
<1>1. /\ req \in [Request -> RequestRow] /\ req'[r] = s
      /\ \A q \in Request \ {r} : req'[q] = req[q]
      /\ UNCHANGED <<attempt, converted, crashes, anchored>> /\ gone' \subseteq Attempt
  BY Types DEF ManifestInv, FilesOnly
<1>2. a \in Attempt /\ RequestOK(r) /\ a # None
  BY Busy
<1>3. ManifestTypeOK'
  BY <1>1, <1>2, Types DEF ManifestInv, At
<1>4. ASSUME NEW b \in Attempt
      PROVE  AttemptOK(b)'
  <2>1. AttemptOK(b)
    BY DEF ManifestInv
  <2>2. Has(b, "COMPLETED") => Held(b)'
    <3>1. b = a /\ At(r, "cleanup") /\ attempt[a].by = r => ~Has(b, "COMPLETED")
      BY <1>2 DEF RequestOK, Putter, Putting, At
    <3> QED BY <2>1, <3>1 DEF AttemptOK
  <2> QED BY <1>1, <2>1, <2>2 DEF AttemptOK, Has
<1>5. RequestOK(r)'
  <2>1. Alone(r) => Alone(r)'
    BY <1>1 DEF Alone, At
  <2> QED BY <1>1, <1>2, <2>1 DEF RequestOK, At, Has
<1>6. ASSUME NEW q \in Request \ {r}
      PROVE  RequestOK(q)'
  <2>1. RequestOK(q)
    BY DEF ManifestInv
  <2>2. Alone(q) => Alone(q)'
    BY <1>1 DEF Alone, At
  <2>3. ASSUME At(q, "stored"), Held(req[q].attempt)
        PROVE  Held(req[q].attempt)'
    <3>1. req[q].attempt \in Attempt
      BY <2>3, Busy DEF At
    <3>2. req[q].attempt = a /\ At(r, "cleanup") /\ attempt[a].by = r => FALSE
      BY <1>2, <2>3 DEF RequestOK, Alone, Putter, Putting, At
    <3>3. req'[q] = req[q]
      BY <1>1
    <3>4. Held(req[q].attempt) => \E b \in Attempt : b = req[q].attempt /\ Held(b)'
      BY <3>1, <3>2
    <3> QED BY <2>3, <3>3, <3>4 DEF Held
  <2> QED BY <1>1, <2>1, <2>2, <2>3 DEF RequestOK, At, Has
<1> QED BY <1>3, <1>4, <1>5, <1>6 DEF ManifestInv

\* A row changes its status, or grows old, and perhaps a request ends.
LEMMA RowSafe ==
  ASSUME ManifestInv, NEW a \in Attempt, NEW n \in AttemptRow,
         attempt' = [attempt EXCEPT ![a] = n],
         n.checkpoint = attempt[a].checkpoint, n.by = attempt[a].by,
         n.status \in Untouched => attempt[a].status \in Untouched,
         n.status = "COMPLETED" =>
           \/ Has(a, "COMPLETED")
           \/ /\ Held(a)
              /\ \A q \in Request : req'[q].pc \in Putter
                                    /\ req[q].attempt = a => attempt[a].by # q,
         req' = req \/ \E r \in Request : req' = [req EXCEPT ![r] = Idle],
         UNCHANGED <<files, converted, gone, crashes>>, faults' \in 0..MaxFault
  PROVE  ManifestInv'
<1>1. /\ req \in [Request -> RequestRow] /\ attempt \in [Attempt -> AttemptRow]
      /\ attempt'[a] = n /\ \A b \in Attempt \ {a} : attempt'[b] = attempt[b]
      /\ UNCHANGED <<final, temp, disk, anchored>>
  BY Types DEF ManifestInv, files
<1>2. \A q \in Request : req'[q] = req[q] \/ (req'[q] = Idle /\ req'[q].pc = "idle")
  BY <1>1, IdleRow
<1>3. req' \in [Request -> RequestRow]
  BY <1>1, IdleRow
<1>4. ManifestTypeOK'
  BY <1>1, <1>2, <1>3, Types DEF ManifestInv, At
<1>5. ASSUME NEW b \in Attempt
      PROVE  AttemptOK(b)'
  BY <1>1 DEF ManifestInv, AttemptOK, Has, Held
<1>6. ASSUME NEW q \in Request, ~At(q, "idle")'
      PROVE  RequestOK(q)'
  <2>1. req'[q] = req[q] /\ ~At(q, "idle") /\ RequestOK(q) /\ req[q].attempt \in Attempt
    BY <1>2, <1>6, Busy DEF At
  <2>2. Alone(q) => Alone(q)'
    BY <1>2, <2>1 DEF Alone, At
  <2>3. attempt'[req[q].attempt].checkpoint = attempt[req[q].attempt].checkpoint
        /\ attempt'[req[q].attempt].by = attempt[req[q].attempt].by
        /\ (attempt[req[q].attempt].status \notin Untouched
              => attempt'[req[q].attempt].status \notin Untouched)
    BY <1>1, <2>1
  <2>4. /\ req[q].pc \in Putter /\ attempt[req[q].attempt].by = q
        /\ ~Has(req[q].attempt, "COMPLETED")
        => attempt'[req[q].attempt].status # "COMPLETED"
    BY <1>1, <2>1 DEF Has
  <2> QED BY <1>1, <2>1, <2>2, <2>3, <2>4 DEF RequestOK, At, Has, Held
<1>7. \A q \in Request : RequestOK(q)'
  BY <1>6 DEF RequestOK, At
<1> QED BY <1>4, <1>5, <1>7 DEF ManifestInv

\* An idle request claims the attempt, to convert its code or to reconcile.
LEMMA ClaimSafe ==
  ASSUME ManifestInv, NEW r \in Request, NEW a \in Attempt, At(r, "idle"),
         NEW n \in AttemptRow, attempt' = [attempt EXCEPT ![a] = n],
         n.status = "EXCHANGING", n.by = r, n.checkpoint = attempt[a].checkpoint,
         NEW s \in RequestRow, req' = [req EXCEPT ![r] = s],
         s.attempt = a, s.key = 1, ~s.ours,
         \/ /\ s.pc = "exchange" /\ Has(a, "PENDING")
            /\ converted' = [converted EXCEPT ![a] = 1]
         \/ /\ s.pc = "inspect" /\ attempt[a].checkpoint = 1 /\ ~Has(a, "COMPLETED")
            /\ UNCHANGED converted,
         UNCHANGED <<files, faults, gone, crashes>>
  PROVE  ManifestInv'
<1>1. /\ req \in [Request -> RequestRow] /\ attempt \in [Attempt -> AttemptRow]
      /\ converted \in [Attempt -> 0..MaxKey]
      /\ attempt'[a] = n /\ \A b \in Attempt \ {a} : attempt'[b] = attempt[b]
      /\ req'[r] = s /\ \A q \in Request \ {r} : req'[q] = req[q]
      /\ UNCHANGED <<final, temp, disk, anchored>>
  BY Types DEF ManifestInv, files
<1>2. ManifestTypeOK'
  <2>1. converted' \in [Attempt -> 0..MaxKey]
    BY <1>1
  <2>2. \A q \in Request : ~At(q, "idle")' => req'[q].attempt # None
    BY <1>1, Types DEF ManifestInv, At
  <2>3. req' \in [Request -> RequestRow] /\ attempt' \in [Attempt -> AttemptRow]
    BY <1>1
  <2>4. UNCHANGED <<final, temp, disk, anchored, faults, gone, crashes>>
    BY <1>1
  <2> QED BY <2>1, <2>2, <2>3, <2>4, Types DEF ManifestInv
<1>3. \A b \in Attempt : AttemptOK(b)'
  BY <1>1 DEF ManifestInv, AttemptOK, Has, Held, Untouched
<1>4. s.pc # "idle" /\ s.pc # "stored" /\ s.pc # "cleanup"
  OBVIOUS
<1>5. RequestOK(r)'
  <2>1. CASE s.pc = "exchange" /\ Has(a, "PENDING")
    <3>1. \A q \in Request : ~At(q, "idle") => req[q].attempt # a
      BY <2>1, Busy DEF RequestOK, Untouched, Has
    <3>2. Alone(r)'
      BY <1>1, <3>1 DEF Alone, At
    <3> QED BY <1>1, <2>1, <3>2 DEF RequestOK, At, Has, Untouched
  <2>2. CASE s.pc = "inspect" /\ attempt[a].checkpoint = 1
    BY <1>1, <2>2 DEF RequestOK, At, Has, Untouched, Putter, Putting
  <2> QED BY <2>1, <2>2
<1>6. ASSUME NEW q \in Request \ {r}, ~At(q, "idle")
      PROVE  RequestOK(q)'
  <2>1. RequestOK(q) /\ req'[q] = req[q] /\ req[q].attempt \in Attempt
    BY <1>1, <1>6, Busy
  <2>2. CASE req[q].attempt = a
    BY <1>1, <2>1, <2>2 DEF RequestOK, At, Has, Held, Untouched
  <2>3. CASE req[q].attempt # a
    <3>1. Alone(q) => Alone(q)'
      BY <1>1, <2>1, <2>3 DEF Alone, At
    <3> QED BY <1>1, <2>1, <2>3, <3>1 DEF RequestOK, At, Has, Held
  <2> QED BY <2>2, <2>3
<1>7. \A q \in Request : RequestOK(q)'
  BY <1>1, <1>5, <1>6 DEF RequestOK, At
<1> QED BY <1>2, <1>3, <1>7 DEF ManifestInv

------------------------------------------------------------------------------
(* The key files                                                           *)

\* A request that goes to another point.
LEMMA GoToRow ==
  ASSUME ManifestInv, NEW r \in Request, NEW pc \in PC, GoTo(r, pc)
  PROVE  \E s \in RequestRow :
           /\ req' = [req EXCEPT ![r] = s]
           /\ s.pc = pc /\ s.attempt = req[r].attempt /\ s.key = req[r].key
           /\ s.ours = req[r].ours
<1>1. req \in [Request -> RequestRow]
  BY Types DEF ManifestInv
<1> DEFINE s == [req[r] EXCEPT !.pc = pc]
<1>2. /\ s \in RequestRow
      /\ s.pc = pc /\ s.attempt = req[r].attempt /\ s.key = req[r].key /\ s.ours = req[r].ours
  BY <1>1 DEF RequestRow
<1>3. req' = [req EXCEPT ![r] = s]
  BY DEF GoTo
<1> QED BY <1>2, <1>3

\* Forcing the directory to disk makes what is published durable.
LEMMA SyncKeeps ==
  ASSUME ManifestInv, SyncDirectory, UNCHANGED <<final, temp, attempt>>, gone \subseteq gone'
  PROVE  /\ disk' \in [Attempt -> [final : 0..MaxKey, temp : SUBSET Key]]
         /\ \A b \in Attempt : Held(b) => Held(b)'
         /\ \A b \in Attempt : final[b] = 1 /\ attempt[b].checkpoint = 1 => Held(b)'
<1>1. final \in [Attempt -> 0..MaxKey] /\ temp \in [Attempt -> SUBSET Key]
  BY Types DEF ManifestInv
<1> QED BY <1>1 DEF SyncDirectory, Held

\* The steps of a put and of a reconciliation that leave the files' names and
\* the disk alone, or the temporary name only.
LEMMA NamesInv ==
  ASSUME ManifestInv, NEW r \in Request, FilesOnly,
         WriteTemporary(r) \/ UnlinkTemporary(r) \/ Inspect(r) \/ RecoverTemporary(r)
  PROVE  ManifestInv'
<1> DEFINE a == req[r].attempt
<1>1. req[r].pc \in {"write", "unlink", "inspect", "recover"} /\ ~At(r, "idle")
  BY DEF WriteTemporary, UnlinkTemporary, Inspect, RecoverTemporary, At
<1>2. /\ req[r] \in RequestRow /\ a \in Attempt /\ RequestOK(r)
      /\ final \in [Attempt -> 0..MaxKey] /\ temp \in [Attempt -> SUBSET Key]
      /\ disk \in [Attempt -> [final : 0..MaxKey, temp : SUBSET Key]]
      /\ faults \in 0..MaxFault
  BY <1>1, Busy, Types DEF ManifestInv
<1>3. UNCHANGED <<final, disk, attempt>>
  BY DEF WriteTemporary, UnlinkTemporary, Inspect, RecoverTemporary, FilesOnly
<1>4. temp' \in [Attempt -> SUBSET Key]
  <2>1. req[r].key \in Key
    BY <1>1, <1>2 DEF RequestOK, Key
  <2> QED BY <1>2, <2>1 DEF WriteTemporary, UnlinkTemporary, Inspect, RecoverTemporary, Add, Drop,
                            files
<1>5. faults' \in 0..MaxFault
  BY <1>2, FaultType DEF WriteTemporary, UnlinkTemporary, Inspect, RecoverTemporary
<1>6. \A b \in Attempt : Held(b) => Held(b)'
  BY <1>3 DEF Held, FilesOnly
<1>7. CASE UnlinkTemporary(r) /\ req' = [req EXCEPT ![r].pc = "confirm",
                                                    ![r].ours = req[r].key \in temp[a]]
  <2> DEFINE mine == req[r].key \in temp[a]
             s == [req[r] EXCEPT !.pc = "confirm", !.ours = mine]
  <2>1. "confirm" \in PC /\ mine \in BOOLEAN
    BY DEF PC, Putting
  <2>2. req' = [req EXCEPT ![r] = s]
    BY <1>7
  <2>3. s \in RequestRow /\ s.pc = "confirm" /\ s.attempt = a /\ s.key = req[r].key
    <3> HIDE DEF mine
    <3> QED BY <1>2, <2>1 DEF RequestRow
  <2>4. req[r].pc = "unlink"
    BY <1>7 DEF UnlinkTemporary, At
  <2> HIDE DEF s
  <2> QED BY <1>1, <1>2, <1>3, <1>4, <1>5, <1>6, <2>3, <2>2, <2>4, StoreSafe
          DEF At, Putter, Putting
<1>8. ASSUME NEW pc \in {"link", "cleanup"}, GoTo(r, pc), req[r].pc \in {"write", "unlink"},
             pc = "link" => req[r].pc = "write"
      PROVE  ManifestInv'
  <2>1. pc \in PC
    BY DEF PC, Putting
  <2>2. PICK s \in RequestRow :
           /\ req' = [req EXCEPT ![r] = s]
           /\ s.pc = pc /\ s.attempt = a /\ s.key = req[r].key /\ s.ours = req[r].ours
    BY <1>8, <2>1, GoToRow
  <2>3. ~req[r].ours
    BY <1>1, <1>2, <1>8 DEF RequestOK
  <2> QED BY <1>1, <1>2, <1>3, <1>4, <1>5, <1>6, <1>8, <2>2, <2>3, StoreSafe
          DEF At, Putter, Putting
<1>9. ASSUME NEW pc \in {"lost", "read", "recover", "retry", "settle"}, GoTo(r, pc)
      PROVE  ManifestInv'
  <2>1. pc \in PC
    BY DEF PC, Reconciling, Result
  <2>2. PICK s \in RequestRow :
           /\ req' = [req EXCEPT ![r] = s]
           /\ s.pc = pc /\ s.attempt = a /\ s.key = req[r].key /\ s.ours = req[r].ours
    BY <1>9, <2>1, GoToRow
  <2> QED BY <1>1, <1>2, <1>3, <1>4, <1>5, <1>6, <1>9, <2>2, StoreSafe DEF At, Putter, Putting
<1>10. CASE WriteTemporary(r) \/ UnlinkTemporary(r)
  BY <1>7, <1>8, <1>10 DEF WriteTemporary, UnlinkTemporary, At
<1>11. CASE Inspect(r)
  <2>1. \E pc \in {"lost", "read", "recover", "retry"} : GoTo(r, pc)
    BY <1>11 DEF Inspect
  <2> QED BY <1>9, <2>1
<1>12. CASE RecoverTemporary(r)
  BY <1>9, <1>12 DEF RecoverTemporary
<1> QED BY <1>10, <1>11, <1>12

\* The key is published under a name that is free, so nothing kept is replaced.
LEMMA PublishInv ==
  ASSUME ManifestInv, NEW r \in Request, FilesOnly, Publish(r)
  PROVE  ManifestInv'
<1> DEFINE a == req[r].attempt
<1>1. req[r].pc = "link" /\ ~At(r, "idle")
  BY DEF Publish, At
<1>2. /\ req[r] \in RequestRow /\ a \in Attempt /\ RequestOK(r)
      /\ final \in [Attempt -> 0..MaxKey] /\ temp \in [Attempt -> SUBSET Key]
      /\ disk \in [Attempt -> [final : 0..MaxKey, temp : SUBSET Key]]
      /\ faults \in 0..MaxFault
  BY <1>1, Busy, Types DEF ManifestInv
<1>3. PICK pc \in {"unlink", "cleanup"} : GoTo(r, pc)
  BY DEF Publish
<1>4. PICK s \in RequestRow :
         /\ req' = [req EXCEPT ![r] = s]
         /\ s.pc = pc /\ s.attempt = a /\ s.key = req[r].key /\ s.ours = req[r].ours
  <2>1. pc \in PC
    BY DEF PC, Putting
  <2> QED BY <1>3, <2>1, GoToRow
<1>5. ~req[r].ours
  BY <1>1, <1>2 DEF RequestOK
<1>6. final' \in [Attempt -> 0..MaxKey] /\ UNCHANGED <<temp, disk, attempt>>
  BY <1>2 DEF Publish, RequestRow, FilesOnly
<1>7. \A b \in Attempt : Held(b) => Held(b)'
  BY <1>2, <1>6 DEF Publish, Held, NoKey, FilesOnly
<1>8. faults' \in 0..MaxFault
  BY <1>2, FaultType DEF Publish
<1> QED BY <1>1, <1>2, <1>4, <1>5, <1>6, <1>7, <1>8, StoreSafe DEF At, Putter, Putting

\* A request that finds the key published makes it durable.
LEMMA StoredInv ==
  ASSUME ManifestInv, NEW r \in Request, FilesOnly,
         Confirm(r) \/ Settle(r) \/ ReadDurably(r)
  PROVE  ManifestInv'
<1> DEFINE a == req[r].attempt
<1>1. req[r].pc \in {"confirm", "settle", "read"} /\ ~At(r, "idle")
  BY DEF Confirm, Settle, ReadDurably, At
<1>2. /\ req[r] \in RequestRow /\ a \in Attempt /\ RequestOK(r)
      /\ final \in [Attempt -> 0..MaxKey] /\ temp \in [Attempt -> SUBSET Key]
      /\ disk \in [Attempt -> [final : 0..MaxKey, temp : SUBSET Key]]
      /\ faults \in 0..MaxFault /\ req \in [Request -> RequestRow]
  BY <1>1, Busy, Types DEF ManifestInv
<1>3. PICK pc \in {"stored", "cleanup", "read", "lost", "retry"} :
        /\ GoTo(r, pc)
        /\ pc = "cleanup" => At(r, "confirm")
        /\ pc = "stored" => Published(a, req[r].key) /\ SyncDirectory
  BY DEF Confirm, Settle, ReadDurably
<1>4. PICK s \in RequestRow :
         /\ req' = [req EXCEPT ![r] = s]
         /\ s.pc = pc /\ s.attempt = a /\ s.key = req[r].key /\ s.ours = req[r].ours
  <2>1. pc \in PC
    BY DEF PC, Putting, Reconciling, Result
  <2> QED BY <1>3, <2>1, GoToRow
<1>5. UNCHANGED <<final, temp, attempt>> /\ (SyncDirectory \/ NoSync)
  BY DEF Confirm, Settle, ReadDurably, FilesOnly
<1>6. /\ disk' \in [Attempt -> [final : 0..MaxKey, temp : SUBSET Key]]
      /\ \A b \in Attempt : Held(b) => Held(b)'
  BY <1>2, <1>5, SyncKeeps DEF NoSync, Held, FilesOnly
<1>7. s.pc = "stored" => Held(a)'
  <2>1. Published(a, req[r].key) => final[a] = 1
    BY <1>1, <1>2 DEF Published, RequestOK
  <2>2. attempt[a].checkpoint = 1
    BY <1>1, <1>2 DEF RequestOK, At
  <2> QED BY <1>2, <1>3, <1>4, <1>5, <2>1, <2>2, SyncKeeps DEF FilesOnly
<1>8. faults' \in 0..MaxFault
  BY <1>2, FaultType DEF Confirm, Settle, ReadDurably
<1>9. s.pc \in Putter => req[r].pc \in Putter
  BY <1>3, <1>4 DEF At, Putter, Putting
<1> QED BY <1>1, <1>2, <1>4, <1>5, <1>6, <1>7, <1>8, <1>9, StoreSafe DEF At

\* A put that failed takes away what it may: the published key only if it was
\* the one to take the temporary name, and not unrecorded if its claim is gone.
LEMMA CleanUpInv ==
  ASSUME ManifestInv, NEW r \in Request, FilesOnly, CleanUp(r),
         WithdrawsLate(r) => req[r].attempt \in gone'
  PROVE  ManifestInv'
<1> DEFINE a == req[r].attempt
<1>1. req[r].pc = "cleanup" /\ ~At(r, "idle")
  BY DEF CleanUp, At
<1>2. /\ req[r] \in RequestRow /\ a \in Attempt /\ RequestOK(r)
      /\ final \in [Attempt -> 0..MaxKey] /\ temp \in [Attempt -> SUBSET Key]
      /\ disk \in [Attempt -> [final : 0..MaxKey, temp : SUBSET Key]]
      /\ faults \in 0..MaxFault
  BY <1>1, Busy, Types DEF ManifestInv
<1>3. PICK s \in RequestRow :
         /\ req' = [req EXCEPT ![r] = s]
         /\ s.pc = "failed" /\ s.attempt = a /\ s.key = req[r].key /\ s.ours = req[r].ours
  <2>1. "failed" \in PC /\ GoTo(r, "failed")
    BY DEF PC, Result, CleanUp
  <2> QED BY <2>1, GoToRow
<1>4. UNCHANGED <<disk, attempt>> /\ temp' \in [Attempt -> SUBSET Key]
  BY <1>2 DEF CleanUp, Drop, NoSync, FilesOnly
<1>5. /\ final' \in [Attempt -> 0..MaxKey]
      /\ \A b \in Attempt : final'[b] = final[b] \/ (b = a /\ req[r].ours)
  BY <1>2 DEF CleanUp, NoKey
<1>6. \A b \in Attempt :
        Held(b) => Held(b)' \/ (b = a /\ At(r, "cleanup") /\ attempt[a].by = r)
  <2>1. ASSUME NEW b \in Attempt, final'[b] = final[b], Held(b)
        PROVE  Held(b)'
    BY <1>4, <2>1 DEF Held, FilesOnly
  <2>2. ASSUME NEW b \in Attempt, b = a, req[r].ours, final'[b] # final[b], attempt[b].by # r
        PROVE  Held(b)'
    <3>1. final'[b] = NoKey /\ final[b] # NoKey
      BY <1>2, <2>2 DEF CleanUp
    <3>2. b \in gone'
      BY <1>1, <2>2, <3>1 DEF WithdrawsLate, At
    <3> QED BY <3>2 DEF Held
  <2> QED BY <1>1, <1>5, <2>1, <2>2 DEF At
<1>7. faults' \in 0..MaxFault
  BY <1>2, FaultType DEF CleanUp
<1> QED BY <1>1, <1>2, <1>3, <1>4, <1>5, <1>6, <1>7, StoreSafe DEF At, Putter, Putting

------------------------------------------------------------------------------
(* The steps of an attempt                                                 *)

\* The work of a request on the files.
LEMMA StoreStepInv ==
  ASSUME ManifestInv, NEW r \in Request, Storing(r)
  PROVE  ManifestInv'
<1>1. /\ FilesOnly
      /\ WithdrawsLate(r) => req[r].attempt \in gone'
  <2>1. ~At(r, "idle")
    BY DEF Storing, StoreStep, WriteTemporary, Publish, UnlinkTemporary, Confirm, CleanUp,
           Inspect, RecoverTemporary, Settle, ReadDurably, At
  <2>2. req[r].attempt \in Attempt /\ gone \subseteq Attempt
    BY <2>1, Busy, Types DEF ManifestInv
  <2> QED BY <2>2 DEF Storing, StoreStep, FilesOnly
<1>2. CASE WriteTemporary(r) \/ UnlinkTemporary(r) \/ Inspect(r) \/ RecoverTemporary(r)
  BY <1>1, <1>2, NamesInv
<1>3. CASE Publish(r)
  BY <1>1, <1>3, PublishInv
<1>4. CASE Confirm(r) \/ Settle(r) \/ ReadDurably(r)
  BY <1>1, <1>4, StoredInv
<1>5. CASE CleanUp(r)
  BY <1>1, <1>5, CleanUpInv
<1> QED BY <1>2, <1>3, <1>4, <1>5 DEF Storing, StoreStep

\* An attempt is created, expires, or its claim grows old.
LEMMA TimeInv ==
  ASSUME ManifestInv, NEW a \in Attempt, CreateAttempt(a) \/ Expire(a) \/ Age(a)
  PROVE  ManifestInv'
<1>1. attempt[a] \in AttemptRow /\ faults \in 0..MaxFault
  BY Types DEF ManifestInv
<1>2. UNCHANGED <<files, req, faults, converted, gone, crashes>>
  BY DEF CreateAttempt, Expire, Age
<1>3. CASE CreateAttempt(a)
  <2> DEFINE n == [attempt[a] EXCEPT !.status = "PENDING", !.live = TRUE]
  <2>1. /\ n \in AttemptRow /\ n.status = "PENDING" /\ n.by = attempt[a].by
        /\ n.checkpoint = attempt[a].checkpoint
    BY <1>1 DEF AttemptRow, Status
  <2>2. attempt' = [attempt EXCEPT ![a] = n] /\ attempt[a].status \in Untouched
    BY <1>3 DEF CreateAttempt, Has, Untouched
  <2> HIDE DEF n
  <2> QED BY <1>1, <1>2, <2>1, <2>2, RowSafe DEF Untouched
<1>4. CASE Expire(a)
  <2> DEFINE n == [attempt[a] EXCEPT !.live = FALSE]
  <2>1. /\ n \in AttemptRow /\ n.status = attempt[a].status /\ n.by = attempt[a].by
        /\ n.checkpoint = attempt[a].checkpoint
    BY <1>1 DEF AttemptRow
  <2>2. attempt' = [attempt EXCEPT ![a] = n]
    BY <1>4 DEF Expire
  <2> HIDE DEF n
  <2> QED BY <1>1, <1>2, <2>1, <2>2, RowSafe DEF Has
<1>5. CASE Age(a)
  <2> DEFINE n == [attempt[a] EXCEPT !.fresh = FALSE]
  <2>1. /\ n \in AttemptRow /\ n.status = attempt[a].status /\ n.by = attempt[a].by
        /\ n.checkpoint = attempt[a].checkpoint
    BY <1>1 DEF AttemptRow
  <2>2. attempt' = [attempt EXCEPT ![a] = n]
    BY <1>5 DEF Age
  <2> HIDE DEF n
  <2> QED BY <1>1, <1>2, <2>1, <2>2, RowSafe DEF Has
<1> QED BY <1>3, <1>4, <1>5

\* An attempt goes to recovery, with the end of a request or without.
LEMMA RecoverySafe ==
  ASSUME ManifestInv, NEW a \in Attempt,
         \/ MarkRecovery(a)
         \/ /\ attempt' = [attempt EXCEPT ![a].status = "RECOVERY_REQUIRED"]
            /\ ~Has(a, "COMPLETED"),
         UNCHANGED req \/ \E r \in Request : Answer(r),
         UNCHANGED <<files, converted, gone, crashes>>, faults' \in 0..MaxFault
  PROVE  ManifestInv'
<1> DEFINE n == [attempt[a] EXCEPT !.status =
                   IF MarkRecovery(a) /\ attempt[a].status # "EXCHANGING"
                   THEN attempt[a].status ELSE "RECOVERY_REQUIRED"]
<1>1. attempt[a] \in AttemptRow
  BY Types DEF ManifestInv
<1>2. /\ n \in AttemptRow /\ n.by = attempt[a].by /\ n.checkpoint = attempt[a].checkpoint
      /\ n.status \in {attempt[a].status, "RECOVERY_REQUIRED"}
  BY <1>1 DEF AttemptRow, Status
<1>3. attempt' = [attempt EXCEPT ![a] = n]
  BY DEF MarkRecovery
<1>4. req' = req \/ \E r \in Request : req' = [req EXCEPT ![r] = Idle]
  BY DEF Answer
<1> HIDE DEF n
<1> QED BY <1>1, <1>2, <1>3, <1>4, RowSafe DEF Untouched, Has

\* The claims of a callback.
LEMMA CallbackInv ==
  ASSUME ManifestInv, NEW r \in Request, NEW a \in Attempt, Callback(r, a)
  PROVE  ManifestInv'
<1>1. /\ attempt[a] \in AttemptRow /\ converted \in [Attempt -> 0..MaxKey]
      /\ faults \in 0..MaxFault /\ AttemptOK(a)
  BY Types DEF ManifestInv
<1> DEFINE n == [attempt[a] EXCEPT !.status = "EXCHANGING", !.fresh = TRUE, !.by = r]
<1>2. /\ n \in AttemptRow /\ n.status = "EXCHANGING" /\ n.by = r
      /\ n.checkpoint = attempt[a].checkpoint
  BY <1>1 DEF AttemptRow, Status
<1>3. CASE ClaimPending(r, a)
  <2> DEFINE s == [Idle EXCEPT !.pc = "exchange", !.attempt = a, !.key = converted[a] + 1]
  <2>1. converted[a] = 0 /\ Has(a, "PENDING")
    BY <1>1, <1>3 DEF ClaimPending, AttemptOK, Has, Untouched
  <2>2. /\ s \in RequestRow /\ s.pc = "exchange" /\ s.attempt = a /\ s.key = 1 /\ ~s.ours
    <3>1. "exchange" \in PC /\ converted[a] + 1 = 1 /\ converted[a] + 1 \in 0..MaxKey
      BY <2>1 DEF PC
    <3> QED BY <3>1 DEF Idle, RequestRow
  <2>3. /\ attempt' = [attempt EXCEPT ![a] = n] /\ req' = [req EXCEPT ![r] = s]
        /\ At(r, "idle") /\ UNCHANGED <<files, faults, gone, crashes>>
    BY <1>3 DEF ClaimPending
  <2>4. converted' = [converted EXCEPT ![a] = 1]
    BY <1>3, <2>1 DEF ClaimPending
  <2> HIDE DEF n, s
  <2> QED BY <1>2, <2>1, <2>2, <2>3, <2>4, ClaimSafe
<1>4. CASE ClaimReconciliation(r, a)
  <2> DEFINE s == [Idle EXCEPT !.pc = "inspect", !.attempt = a, !.key = attempt[a].checkpoint]
  <2>1. attempt[a].checkpoint = 1 /\ ~Has(a, "COMPLETED")
    BY <1>1, <1>4 DEF ClaimReconciliation, Checkpointed, NoKey, AttemptOK, AttemptRow, Has
  <2>2. /\ s \in RequestRow /\ s.pc = "inspect" /\ s.attempt = a /\ s.key = 1 /\ ~s.ours
    <3>1. "inspect" \in PC /\ attempt[a].checkpoint \in 0..MaxKey
      BY <2>1 DEF PC, Reconciling
    <3> QED BY <2>1, <3>1 DEF Idle, RequestRow
  <2>3. /\ attempt' = [attempt EXCEPT ![a] = n] /\ req' = [req EXCEPT ![r] = s]
        /\ At(r, "idle") /\ UNCHANGED <<files, faults, converted, gone, crashes>>
    BY <1>4 DEF ClaimReconciliation
  <2> HIDE DEF n, s
  <2> QED BY <1>2, <2>1, <2>2, <2>3, ClaimSafe
<1>5. CASE FailClosed(r, a)
  BY <1>1, <1>5, RecoverySafe DEF FailClosed, Has
<1> QED BY <1>3, <1>4, <1>5 DEF Callback

\* GitHub's answer: the key is checkpointed and the put begins.
LEMMA ExchangedInv ==
  ASSUME ManifestInv, NEW r \in Request, Exchanged(r)
  PROVE  ManifestInv'
<1> DEFINE a == req[r].attempt
<1>1. At(r, "exchange") /\ ~At(r, "idle") /\ UNCHANGED <<files, faults, converted, gone, crashes>>
  BY DEF Exchanged, At
<1>2. /\ req[r] \in RequestRow /\ a \in Attempt /\ a # None /\ RequestOK(r) /\ AttemptOK(a)
      /\ attempt[a] \in AttemptRow /\ faults \in 0..MaxFault
      /\ req \in [Request -> RequestRow] /\ attempt \in [Attempt -> AttemptRow]
      /\ UNCHANGED <<final, temp, disk, anchored>>
  BY <1>1, Busy, Types DEF ManifestInv, files
<1>3. CASE ~(Has(a, "EXCHANGING") /\ ~Checkpointed(a))
  <2>1. MarkRecovery(a) /\ Answer(r)
    BY <1>3 DEF Exchanged
  <2> QED BY <1>1, <1>2, <2>1, RecoverySafe
<1>4. CASE Has(a, "EXCHANGING") /\ ~Checkpointed(a)
  <2>1. GoTo(r, "write") /\ "write" \in PC /\ attempt' = [attempt EXCEPT ![a].checkpoint = req[r].key]
    BY <1>4 DEF Exchanged, PC, Putting
  <2>2. PICK s \in RequestRow :
           /\ req' = [req EXCEPT ![r] = s]
           /\ s.pc = "write" /\ s.attempt = a /\ s.key = req[r].key /\ s.ours = req[r].ours
    BY <2>1, GoToRow
  <2> DEFINE n == [attempt[a] EXCEPT !.checkpoint = req[r].key]
  <2>3. /\ n \in AttemptRow /\ n.status = "EXCHANGING" /\ n.by = attempt[a].by /\ n.checkpoint = 1
    <3>1. req[r].key = 1 /\ 1 \in 0..MaxKey
      BY <1>1, <1>2 DEF RequestOK
    <3> QED BY <1>2, <1>4, <3>1 DEF AttemptRow, Has
  <2>4. attempt' = [attempt EXCEPT ![a] = n]
    BY <2>1
  <2> HIDE DEF n
  <2>5. /\ attempt'[a] = n /\ \A b \in Attempt \ {a} : attempt'[b] = attempt[b]
        /\ req'[r] = s /\ \A q \in Request \ {r} : req'[q] = req[q]
    BY <1>2, <2>2, <2>4
  <2>6. ManifestTypeOK'
    <3>1. req' \in [Request -> RequestRow] /\ attempt' \in [Attempt -> AttemptRow]
      BY <1>2, <2>2, <2>3, <2>4
    <3>2. \A q \in Request : ~At(q, "idle")' => req'[q].attempt # None
      BY <1>2, <2>2, <2>5, Types DEF ManifestInv, At
    <3> QED BY <1>1, <1>2, <3>1, <3>2, Types DEF ManifestInv
  <2>7. ASSUME NEW b \in Attempt
        PROVE  AttemptOK(b)'
    BY <1>1, <1>2, <2>3, <2>5 DEF ManifestInv, AttemptOK, Has, Held, Untouched
  <2>8. RequestOK(r)'
    <3>1. Alone(r) => Alone(r)'
      BY <2>2, <2>5 DEF Alone, At
    <3> QED BY <1>1, <1>2, <2>2, <2>3, <2>5, <3>1
            DEF RequestOK, At, Has, Untouched, Putter, Putting
  <2>9. ASSUME NEW q \in Request \ {r}
        PROVE  RequestOK(q)'
    <3>1. RequestOK(q) /\ req'[q] = req[q]
      BY <2>5 DEF ManifestInv
    <3>2. Alone(q) => Alone(q)'
      BY <1>1, <1>2, <2>2, <2>5 DEF Alone, At
    <3>3. CASE At(q, "idle")
      BY <3>1, <3>3 DEF RequestOK, At
    <3>4. CASE ~At(q, "idle")
      <4>1. req[q].attempt \in Attempt
        BY <3>4, Busy
      <4>2. CASE req[q].attempt = a
        <5>1. At(q, "exchange")
          BY <1>4, <3>1, <3>4, <4>2 DEF RequestOK, Checkpointed, NoKey
        <5> QED BY <1>2, <2>3, <2>5, <3>1, <3>2, <4>2, <5>1
                DEF RequestOK, At, Has, Untouched
      <4>3. CASE req[q].attempt # a
        BY <1>1, <1>2, <2>5, <3>1, <3>2, <4>1, <4>3 DEF RequestOK, At, Has, Held
      <4> QED BY <4>2, <4>3
    <3> QED BY <3>3, <3>4
  <2> QED BY <2>6, <2>7, <2>8, <2>9 DEF ManifestInv
<1> QED BY <1>3, <1>4

\* The App is registered, its key in place.
LEMMA CompleteInv ==
  ASSUME ManifestInv, NEW r \in Request, Complete(r)
  PROVE  ManifestInv'
<1> DEFINE a == req[r].attempt
           n == [attempt[a] EXCEPT !.status = "COMPLETED"]
<1>1. /\ At(r, "stored") /\ ~At(r, "idle") /\ Has(a, "EXCHANGING")
      /\ UNCHANGED <<files, faults, converted, gone, crashes>>
      /\ req' = [req EXCEPT ![r] = Idle]
  BY DEF Complete, At, Answer
<1>2. /\ a \in Attempt /\ RequestOK(r) /\ attempt[a] \in AttemptRow /\ faults \in 0..MaxFault
      /\ req \in [Request -> RequestRow]
  BY <1>1, Busy, Types DEF ManifestInv
<1>3. /\ n \in AttemptRow /\ n.status = "COMPLETED" /\ n.by = attempt[a].by
      /\ n.checkpoint = attempt[a].checkpoint
  BY <1>2 DEF AttemptRow, Status
<1>4. attempt' = [attempt EXCEPT ![a] = n]
  BY DEF Complete
<1>5. Held(a)
  BY <1>1, <1>2 DEF RequestOK
<1>6. ASSUME NEW q \in Request, req'[q].pc \in Putter, req[q].attempt = a
      PROVE  attempt[a].by # q
  <2>1. q # r /\ req'[q] = req[q]
    BY <1>1, <1>2, <1>6, IdleRow DEF Putter, Putting
  <2>2. RequestOK(q) /\ ~At(q, "idle") /\ req[q].pc \in Putter
    BY <1>6, <2>1 DEF ManifestInv, At, Putter, Putting
  <2>3. ~Alone(q)
    BY <1>1, <1>6, <2>1 DEF Alone
  <2> QED BY <1>6, <2>2, <2>3 DEF RequestOK
<1> HIDE DEF n
<1> QED BY <1>1, <1>2, <1>3, <1>4, <1>5, <1>6, RowSafe DEF Untouched

\* A request ends without the App.
LEMMA RequestFailsInv ==
  ASSUME ManifestInv, NEW r \in Request, ExchangeFails(r) \/ CompleteFails(r) \/ GiveUp(r)
  PROVE  ManifestInv'
<1> DEFINE a == req[r].attempt
<1>1. /\ ~At(r, "idle") /\ MarkRecovery(a) /\ Answer(r)
      /\ UNCHANGED <<files, converted, gone, crashes>> /\ (Fault \/ UNCHANGED faults)
  BY DEF ExchangeFails, CompleteFails, GiveUp, At
<1>2. a \in Attempt /\ faults' \in 0..MaxFault
  BY <1>1, Busy, FaultType, Types DEF ManifestInv
<1> QED BY <1>1, <1>2, RecoverySafe

\* The process ends: no request is left, and what is kept is on the disk.
LEMMA CrashInv ==
  ASSUME ManifestInv, Crash
  PROVE  ManifestInv'
<1>1. /\ final \in [Attempt -> 0..MaxKey] /\ temp \in [Attempt -> SUBSET Key]
      /\ disk \in [Attempt -> [final : 0..MaxKey, temp : SUBSET Key]]
      /\ attempt \in [Attempt -> AttemptRow] /\ converted \in [Attempt -> 0..MaxKey]
      /\ faults \in 0..MaxFault /\ crashes \in 0..MaxCrash
  BY Types DEF ManifestInv
<1>2. /\ req' = [r \in Request |-> Idle] /\ UNCHANGED <<faults, attempt, converted>>
      /\ crashes' \in 0..MaxCrash
  BY <1>1 DEF Crash
<1>3. /\ final' \in [Attempt -> 0..MaxKey] /\ temp' \in [Attempt -> SUBSET Key]
      /\ disk' \in [Attempt -> [final : 0..MaxKey, temp : SUBSET Key]]
  BY <1>1 DEF Crash, LosePower, LoseDirectory, NoKey, files
<1>4. gone' \subseteq Attempt /\ gone \subseteq gone' /\ anchored' \in BOOLEAN
  BY Types DEF ManifestInv, Crash, LosePower, LoseDirectory, files
<1>5. \A b \in Attempt : Held(b) => Held(b)'
  BY <1>1, <1>2, <1>4 DEF Crash, LosePower, LoseDirectory, NoKey, files, Held
<1>6. \A q \in Request : At(q, "idle")'
  BY <1>2, IdleRow DEF At
<1>7. req' \in [Request -> RequestRow]
  BY <1>2, IdleRow
<1>8. ManifestTypeOK'
  BY <1>1, <1>2, <1>3, <1>4, <1>6, <1>7, Types
<1>9. \A b \in Attempt : AttemptOK(b)'
  BY <1>2, <1>5 DEF ManifestInv, AttemptOK, Has
<1>10. \A q \in Request : RequestOK(q)'
  BY <1>6 DEF RequestOK
<1> QED BY <1>8, <1>9, <1>10 DEF ManifestInv

\* At the start nothing is converted and no request works.
LEMMA ManifestStart ==
  ASSUME ManifestInit
  PROVE  ManifestInv
<1>1. \A q \in Request : At(q, "idle")
  BY IdleRow DEF ManifestInit, StoreInit, At
<1>2. ManifestTypeOK
  <2>1. req \in [Request -> RequestRow]
    BY IdleRow DEF ManifestInit, StoreInit
  <2>2. attempt \in [Attempt -> AttemptRow]
    BY DEF ManifestInit, AttemptRow, Status, NoKey
  <2>3. /\ final \in [Attempt -> 0..MaxKey] /\ temp \in [Attempt -> SUBSET Key]
        /\ disk \in [Attempt -> [final : 0..MaxKey, temp : SUBSET Key]]
    BY DEF ManifestInit, StoreInit, NoKey
  <2>4. /\ faults \in 0..MaxFault /\ crashes \in 0..MaxCrash
        /\ gone \subseteq Attempt /\ anchored \in BOOLEAN /\ converted \in [Attempt -> 0..MaxKey]
    BY DEF ManifestInit, StoreInit
  <2> QED BY <1>1, <2>1, <2>2, <2>3, <2>4, Types
<1>3. \A b \in Attempt : AttemptOK(b)
  BY DEF ManifestInit, AttemptOK, Has, NoKey
<1> QED BY <1>1, <1>2, <1>3 DEF ManifestInv, RequestOK

\* Every step of the creation of Apps keeps the invariant.
LEMMA ManifestStepInv ==
  ASSUME ManifestInv, ManifestStep
  PROVE  ManifestInv'
<1>1. ASSUME NEW r \in Request, Handling(r)
      PROVE  ManifestInv'
  BY <1>1, ExchangedInv, CompleteInv, RequestFailsInv, StoreStepInv DEF Handling
<1> QED BY <1>1, TimeInv, CallbackInv DEF ManifestStep

------------------------------------------------------------------------------
(* The steps of an installation                                            *)

\* A row of the installation attempts changes, and is not completed by it.
LEMMA InstallRowSafe ==
  ASSUME InstallInv, NEW i \in InstallAttempt, NEW n \in InstallRow,
         install' = [install EXCEPT ![i] = n], UNCHANGED installed, visit' \in [Visit -> VisitRow],
         n.installation = install[i].installation,
         n.status # "NONE" => n.app # None,
         \/ n.status = install[i].status /\ n.app = install[i].app
         \/ ~Is(i, "COMPLETED") /\ n.status # "COMPLETED"
  PROVE  InstallInv'
<1>1. /\ install' \in [InstallAttempt -> InstallRow] /\ install'[i] = n
      /\ \A j \in InstallAttempt \ {i} : install'[j] = install[j]
  BY DEF InstallInv
<1>2. ASSUME NEW j \in InstallAttempt
      PROVE  InstallOK(j)'
  BY <1>1 DEF InstallInv, InstallOK, Is
<1> QED BY <1>1, <1>2 DEF InstallInv, Is

\* A visit ends, one way or another.
LEMMA LeaveType ==
  ASSUME InstallInv, NEW v \in Visit, Leave(v)
  PROVE  visit' \in [Visit -> VisitRow]
  BY DEF InstallInv, Leave, VisitRow

\* A visit gives its attempt up, for now or for good.
LEMMA MarkInv ==
  ASSUME InstallInv, NEW v \in Visit, NEW i \in InstallAttempt,
         Mark(v, i) \/ Release(v, i), UNCHANGED installed, visit' \in [Visit -> VisitRow]
  PROVE  InstallInv'
<1>1. install[i] \in InstallRow /\ (~Is(i, "NONE") => install[i].app # None)
  BY DEF InstallInv
<1>2. CASE Mark(v, i)
  <2> DEFINE n == [install[i] EXCEPT
                     !.status = IF HasClaim(v, i) THEN "RECOVERY_REQUIRED" ELSE @]
  <2>1. /\ n \in InstallRow /\ n.installation = install[i].installation
        /\ n.app = install[i].app
        /\ \/ n.status = install[i].status
           \/ Is(i, "VERIFYING") /\ n.status = "RECOVERY_REQUIRED"
    BY <1>1 DEF InstallRow, InstallStatus, HasClaim
  <2>2. install' = [install EXCEPT ![i] = n]
    BY <1>2 DEF Mark
  <2> HIDE DEF n
  <2> QED BY <1>1, <2>1, <2>2, InstallRowSafe DEF Is
<1>3. CASE Release(v, i)
  <2> DEFINE n == [install[i] EXCEPT !.status = IF HasClaim(v, i) THEN "PENDING" ELSE @,
                                     !.claim = IF HasClaim(v, i) THEN None ELSE @]
  <2>1. /\ n \in InstallRow /\ n.installation = install[i].installation
        /\ n.app = install[i].app
        /\ \/ n.status = install[i].status
           \/ Is(i, "VERIFYING") /\ n.status = "PENDING"
    BY <1>1 DEF InstallRow, InstallStatus, HasClaim
  <2>2. install' = [install EXCEPT ![i] = n]
    BY <1>3 DEF Release
  <2> HIDE DEF n
  <2> QED BY <1>1, <2>1, <2>2, InstallRowSafe DEF Is
<1> QED BY <1>2, <1>3

\* An installation attempt begins, expires, or its claim grows old.
LEMMA InstallTimeInv ==
  ASSUME InstallInv, NEW i \in InstallAttempt,
         (\E a \in Attempt : StartInstall(i, a)) \/ InstallExpires(i) \/ InstallAges(i)
  PROVE  InstallInv'
<1>1. /\ install[i] \in InstallRow /\ (~Is(i, "NONE") => install[i].app # None)
      /\ visit \in [Visit -> VisitRow]
  BY DEF InstallInv
<1>2. ASSUME NEW a \in Attempt, StartInstall(i, a)
      PROVE  InstallInv'
  <2> DEFINE n == [install[i] EXCEPT !.status = "PENDING", !.app = a, !.live = TRUE]
  <2>1. /\ n \in InstallRow /\ n.installation = install[i].installation
        /\ n.app # None /\ n.status = "PENDING"
    BY <1>1 DEF InstallRow, InstallStatus
  <2>2. install' = [install EXCEPT ![i] = n] /\ UNCHANGED <<installed, visit>> /\ Is(i, "NONE")
    BY <1>2 DEF StartInstall
  <2> HIDE DEF n
  <2> QED BY <1>1, <2>1, <2>2, InstallRowSafe DEF Is
<1>3. CASE InstallExpires(i)
  <2> DEFINE n == [install[i] EXCEPT !.live = FALSE]
  <2>1. /\ n \in InstallRow /\ n.installation = install[i].installation
        /\ n.app = install[i].app /\ n.status = install[i].status
    BY <1>1 DEF InstallRow
  <2>2. install' = [install EXCEPT ![i] = n] /\ UNCHANGED <<installed, visit>>
    BY <1>3 DEF InstallExpires
  <2> HIDE DEF n
  <2> QED BY <1>1, <2>1, <2>2, InstallRowSafe DEF Is
<1>4. CASE InstallAges(i)
  <2> DEFINE n == [install[i] EXCEPT !.fresh = FALSE]
  <2>1. /\ n \in InstallRow /\ n.installation = install[i].installation
        /\ n.app = install[i].app /\ n.status = install[i].status
    BY <1>1 DEF InstallRow
  <2>2. install' = [install EXCEPT ![i] = n] /\ UNCHANGED <<installed, visit>>
    BY <1>4 DEF InstallAges
  <2> HIDE DEF n
  <2> QED BY <1>1, <2>1, <2>2, InstallRowSafe DEF Is
<1> QED BY <1>2, <1>3, <1>4

\* A visit claims the attempt, or finds that it cannot be served.
LEMMA VisitBeginsInv ==
  ASSUME InstallInv, NEW v \in Visit, NEW i \in InstallAttempt, VisitBegins(v, i)
  PROVE  InstallInv'
<1>1. /\ install[i] \in InstallRow /\ (~Is(i, "NONE") => install[i].app # None)
      /\ visit \in [Visit -> VisitRow]
  BY DEF InstallInv
<1>2. ASSUME NEW x \in Installation, ClaimInstall(v, i, x)
      PROVE  InstallInv'
  <2> DEFINE n == [install[i] EXCEPT !.status = "VERIFYING", !.claim = v, !.fresh = TRUE]
  <2>1. /\ n \in InstallRow /\ n.installation = install[i].installation
        /\ n.app = install[i].app /\ n.status = "VERIFYING"
    BY <1>1 DEF InstallRow, InstallStatus
  <2>2. /\ install' = [install EXCEPT ![i] = n] /\ UNCHANGED installed
        /\ install[i].status \in {"PENDING", "VERIFYING"}
    BY <1>2 DEF ClaimInstall, ClaimableInstall, Is
  <2>3. visit' \in [Visit -> VisitRow]
    BY <1>1, <1>2 DEF ClaimInstall, VisitRow
  <2> HIDE DEF n
  <2> QED BY <1>1, <2>1, <2>2, <2>3, InstallRowSafe DEF Is
<1>3. CASE ClaimWithoutKey(v, i)
  <2> DEFINE n == [install[i] EXCEPT !.status = "RECOVERY_REQUIRED", !.claim = v, !.fresh = TRUE]
  <2>1. /\ n \in InstallRow /\ n.installation = install[i].installation
        /\ n.app = install[i].app /\ n.status = "RECOVERY_REQUIRED"
    BY <1>1 DEF InstallRow, InstallStatus
  <2>2. /\ install' = [install EXCEPT ![i] = n] /\ UNCHANGED <<installed, visit>>
        /\ install[i].status \in {"PENDING", "VERIFYING"}
    BY <1>3 DEF ClaimWithoutKey, ClaimableInstall, Is
  <2> HIDE DEF n
  <2> QED BY <1>1, <2>1, <2>2, InstallRowSafe DEF Is
<1>4. CASE RefuseExpired(v, i)
  <2> DEFINE n == [install[i] EXCEPT !.status = "RECOVERY_REQUIRED"]
  <2>1. /\ n \in InstallRow /\ n.installation = install[i].installation
        /\ n.app = install[i].app /\ n.status = "RECOVERY_REQUIRED"
    BY <1>1 DEF InstallRow, InstallStatus
  <2>2. /\ install' = [install EXCEPT ![i] = n] /\ UNCHANGED <<installed, visit>>
        /\ install[i].status \in {"PENDING", "VERIFYING"}
    BY <1>4 DEF RefuseExpired
  <2> HIDE DEF n
  <2> QED BY <1>1, <2>1, <2>2, InstallRowSafe DEF Is
<1> QED BY <1>2, <1>3, <1>4 DEF VisitBegins

\* The installation is bound to the App of its attempt; one that is bound
\* already is bound to that App, so no completed attempt is contradicted.
LEMMA CompleteInstallInv ==
  ASSUME InstallInv, NEW v \in Visit, NEW i \in InstallAttempt, NEW x \in Installation,
         Verified(i, x), CompleteInstall(v, i, x), visit' \in [Visit -> VisitRow]
  PROVE  InstallInv'
<1>1. CASE ~(HasClaim(v, i) /\ installed[x] \in {None, install[i].app})
  BY <1>1, MarkInv DEF CompleteInstall
<1>2. CASE HasClaim(v, i) /\ installed[x] \in {None, install[i].app}
  <2> DEFINE n == [install[i] EXCEPT !.status = "COMPLETED", !.installation = x]
  <2>1. /\ install[i] \in InstallRow /\ install[i].app # None
        /\ install \in [InstallAttempt -> InstallRow]
        /\ installed \in [Installation -> Attempt \union {None}]
    BY <1>2 DEF InstallInv, HasClaim, Is
  <2>2. /\ n \in InstallRow /\ n.installation = x /\ n.app = install[i].app
        /\ n.status = "COMPLETED"
    BY <2>1 DEF InstallRow, InstallStatus
  <2>3. /\ install' = [install EXCEPT ![i] = n]
        /\ installed' = [installed EXCEPT ![x] = install[i].app]
    BY <1>2 DEF CompleteInstall
  <2> HIDE DEF n
  <2>4. /\ install' \in [InstallAttempt -> InstallRow] /\ install'[i] = n
        /\ \A j \in InstallAttempt \ {i} : install'[j] = install[j]
    BY <2>1, <2>2, <2>3
  <2>5. /\ installed'[x] = install[i].app
        /\ \A y \in Installation \ {x} : installed'[y] = installed[y]
    BY <2>1, <2>3
  <2>6. installed' \in [Installation -> Attempt \union {None}]
    BY <2>1, <2>3 DEF InstallRow
  <2>7. InstallOK(i)'
    BY <2>2, <2>4, <2>5 DEF InstallOK, Is, Verified
  <2>8. ASSUME NEW j \in InstallAttempt \ {i}
        PROVE  InstallOK(j)'
    <3>1. /\ InstallOK(j) /\ install'[j] = install[j]
          /\ Is(j, "COMPLETED") => install[j].app # None
      BY <2>4 DEF InstallInv, Is
    <3>2. CASE Is(j, "COMPLETED")
      <4>1. install[j].installation = x => install[j].app = install[i].app
        BY <1>2, <3>1, <3>2 DEF InstallOK
      <4> QED BY <2>5, <3>1, <3>2, <4>1 DEF InstallOK, Is
    <3>3. CASE ~Is(j, "COMPLETED")
      BY <3>1, <3>3 DEF InstallOK, Is
    <3> QED BY <3>2, <3>3
  <2>9. \A j \in InstallAttempt : ~Is(j, "NONE")' => install'[j].app # None
    BY <2>1, <2>2, <2>4 DEF InstallInv, Is
  <2> QED BY <2>4, <2>6, <2>7, <2>8, <2>9 DEF InstallInv
<1> QED BY <1>1, <1>2

\* GitHub's answer, or none.
LEMMA VisitEndsInv ==
  ASSUME InstallInv, NEW v \in Visit,
         GithubConfirms(v) \/ GithubUnreachable(v) \/ GithubRefuses(v)
  PROVE  InstallInv'
<1>1. visit[v] # Away /\ Leave(v)
  BY DEF GithubConfirms, GithubUnreachable, GithubRefuses
<1>2. /\ visit[v].attempt \in InstallAttempt /\ visit[v].installation \in Installation
      /\ visit' \in [Visit -> VisitRow]
  BY <1>1, LeaveType DEF InstallInv, VisitRow
<1>3. CASE GithubConfirms(v)
  BY <1>2, <1>3, MarkInv, CompleteInstallInv DEF GithubConfirms
<1>4. CASE GithubUnreachable(v) \/ GithubRefuses(v)
  BY <1>2, <1>4, MarkInv DEF GithubUnreachable, GithubRefuses
<1> QED BY <1>3, <1>4

\* Every step of an installation keeps what is known of installations.
LEMMA InstallStepInv ==
  ASSUME InstallInv, InstallStep
  PROVE  InstallInv'
  BY InstallTimeInv, VisitBeginsInv, VisitEndsInv DEF InstallStep

------------------------------------------------------------------------------
(* The theorems                                                            *)

\* The invariant holds at the start and every step keeps it.
LEMMA Start == Init => Inv
<1> SUFFICES ASSUME Init PROVE Inv
  OBVIOUS
<1>1. ManifestInv
  BY ManifestStart DEF Init
<1>2. install \in [InstallAttempt -> InstallRow]
  BY DEF Init, InstallRow, InstallStatus
<1>3. \A i \in InstallAttempt : Is(i, "NONE") /\ install[i].installation = None
  BY DEF Init, Is
<1>4. visit \in [Visit -> VisitRow] /\ installed \in [Installation -> Attempt \union {None}]
  BY DEF Init, VisitRow
<1> QED BY <1>1, <1>2, <1>3, <1>4 DEF Inv, InstallInv, InstallOK, Is

\* Every step of a request, of a visit, of GitHub and of the machine keeps it.
LEMMA Step == Inv /\ [Next]_vars => Inv'
<1> SUFFICES ASSUME Inv, [Next]_vars PROVE Inv'
  OBVIOUS
<1>1. CASE ManifestStep /\ UNCHANGED installs
  <2>1. InstallInv'
    BY <1>1 DEF Inv, InstallInv, installs, InstallOK, Is
  <2> QED BY <1>1, <2>1, ManifestStepInv DEF Inv
<1>2. CASE InstallStep /\ UNCHANGED <<files, req, manifest>>
  <2>1. faults \in 0..MaxFault /\ (Fault \/ UNCHANGED faults)
    BY <1>2, Types DEF Inv, ManifestInv, InstallStep, VisitBegins, ClaimInstall, ClaimWithoutKey,
       GithubConfirms, GithubUnreachable, GithubRefuses
  <2>2. faults' \in 0..MaxFault
    BY <2>1, FaultType
  <2>3. UNCHANGED <<final, temp, disk, anchored, req, attempt, converted, gone, crashes>>
    BY <1>2 DEF files, manifest
  <2>4. ManifestTypeOK'
    BY <2>2, <2>3, Types DEF Inv, ManifestInv, At
  <2>5. ManifestInv'
    BY <2>3, <2>4 DEF Inv, ManifestInv, AttemptOK, RequestOK, Alone, At, Has, Held
  <2> QED BY <1>2, <2>5, InstallStepInv DEF Inv
<1>3. CASE Crash /\ visit' = [v \in Visit |-> Away] /\ UNCHANGED <<install, installed>>
  <2>1. visit' \in [Visit -> VisitRow]
    BY <1>3 DEF VisitRow
  <2>2. InstallInv'
    BY <1>3, <2>1 DEF Inv, InstallInv, InstallOK, Is
  <2> QED BY <1>3, <2>2, CrashInv DEF Inv
<1>4. CASE UNCHANGED vars
  <2>1. UNCHANGED <<final, temp, disk, anchored, req, faults, attempt, converted, gone, crashes,
                    install, installed, visit>>
    BY <1>4 DEF vars, files, manifest, installs
  <2>2. ManifestTypeOK'
    BY <2>1, Types DEF Inv, ManifestInv, At
  <2>3. ManifestInv'
    BY <2>1, <2>2 DEF Inv, ManifestInv, AttemptOK, RequestOK, Alone, At, Has, Held
  <2> QED BY <2>1, <2>3 DEF Inv, InstallInv, InstallOK, Is
<1> QED BY <1>1, <1>2, <1>3, <1>4 DEF Next

\* Every state of the App's setup and installation satisfies the invariant.
THEOREM Invariance == Spec => []Inv
  BY Start, Step, PTL DEF Spec

\* GithubApp's variables keep their types: rows, key files, requests, visits.
THEOREM TypeCorrect == Spec => []TypeOK
<1>1. Inv => TypeOK
  BY DEF Inv, ManifestInv, InstallInv, TypeOK, InstallRow, VisitRow, Is
<1> QED BY <1>1, Invariance, PTL

\* The code of a manifest attempt is sent to GitHub at most once, however many
\* requests, time-outs, reclaims and crashes there are.
THEOREM OneConverted == Spec => []OneConversion
<1>1. Inv => OneConversion
  BY DEF Inv, ManifestInv, AttemptOK, OneConversion
<1> QED BY <1>1, Invariance, PTL

\* The key of a registered App is in its file and on the disk, unless the put
\* that published it was cleaned up after its claim was taken over, or a power
\* loss took a directory that was never anchored: nothing else takes it away.
THEOREM KeyDurable == Spec => []RegisteredKeyIsDurable
<1>1. Inv => RegisteredKeyIsDurable
  BY DEF Inv, ManifestInv, AttemptOK, Held, RegisteredKeyIsDurable, NoKey
<1> QED BY <1>1, Invariance, PTL

\* A completed installation attempt names an installation of its own App, and
\* the installations table says the same, whichever visit was answered first.
THEOREM InstallProven == Spec => []InstallationProven
<1>1. Inv => InstallationProven
  BY DEF Inv, InstallInv, InstallOK, InstallationProven
<1> QED BY <1>1, Invariance, PTL

\* A row of the manifest attempts that is COMPLETED is left alone by a step.
LEMMA AttemptStays ==
  ASSUME Inv, ManifestStep \/ Crash \/ UNCHANGED attempt, NEW a \in Attempt, Has(a, "COMPLETED")
  PROVE  attempt'[a].status = "COMPLETED"
<1>1. attempt \in [Attempt -> AttemptRow]
  BY Types DEF Inv, ManifestInv
<1>2. ASSUME NEW b \in Attempt, MarkRecovery(b)
      PROVE  attempt'[a].status = "COMPLETED"
  BY <1>1, <1>2 DEF MarkRecovery, Has, AttemptRow
<1>3. ASSUME NEW b \in Attempt, CreateAttempt(b) \/ Expire(b) \/ Age(b)
      PROVE  attempt'[a].status = "COMPLETED"
  BY <1>1, <1>3 DEF CreateAttempt, Expire, Age, Has, AttemptRow
<1>4. ASSUME NEW r \in Request, NEW b \in Attempt, Callback(r, b)
      PROVE  attempt'[a].status = "COMPLETED"
  BY <1>1, <1>4 DEF Callback, ClaimPending, FailClosed, ClaimReconciliation, Has, AttemptRow
<1>5. ASSUME NEW r \in Request, Handling(r)
      PROVE  attempt'[a].status = "COMPLETED"
  <2> DEFINE b == req[r].attempt
  <2>1. \/ MarkRecovery(b) /\ ~At(r, "idle")
        \/ attempt' = [attempt EXCEPT ![b].checkpoint = req[r].key]
        \/ attempt' = [attempt EXCEPT ![b].status = "COMPLETED"]
        \/ UNCHANGED attempt
    BY <1>5 DEF Handling, Exchanged, ExchangeFails, Complete, CompleteFails, GiveUp, Storing, At
  <2>2. CASE MarkRecovery(b) /\ ~At(r, "idle")
    BY <1>2, <2>2, Busy DEF Inv
  <2>3. CASE \/ attempt' = [attempt EXCEPT ![b].checkpoint = req[r].key]
             \/ attempt' = [attempt EXCEPT ![b].status = "COMPLETED"]
             \/ UNCHANGED attempt
    BY <1>1, <2>3 DEF Has, AttemptRow
  <2> QED BY <2>1, <2>2, <2>3
<1>6. CASE ManifestStep
  BY <1>3, <1>4, <1>5, <1>6 DEF ManifestStep
<1> QED BY <1>6 DEF Crash, Has

\* So is a row of the installation attempts, with what it names.
LEMMA InstallStays ==
  ASSUME Inv, InstallStep \/ UNCHANGED install, NEW i \in InstallAttempt, Is(i, "COMPLETED")
  PROVE  install'[i].status = "COMPLETED" /\ install'[i].installation = install[i].installation
<1>1. install \in [InstallAttempt -> InstallRow] /\ visit \in [Visit -> VisitRow]
  BY DEF Inv, InstallInv
<1>2. ASSUME NEW v \in Visit, NEW j \in InstallAttempt, Mark(v, j) \/ Release(v, j)
      PROVE  install'[i].status = "COMPLETED" /\ install'[i].installation = install[i].installation
  <2>1. CASE i = j
    <3>1. ~HasClaim(v, j)
      BY <2>1 DEF HasClaim, Is
    <3> QED BY <1>1, <1>2, <2>1, <3>1 DEF Mark, Release, Is, InstallRow
  <2>2. CASE i # j
    BY <1>1, <1>2, <2>2 DEF Mark, Release, Is, InstallRow
  <2> QED BY <2>1, <2>2
<1>3. ASSUME NEW j \in InstallAttempt,
             (\E a \in Attempt : StartInstall(j, a)) \/ InstallExpires(j) \/ InstallAges(j)
      PROVE  install'[i].status = "COMPLETED" /\ install'[i].installation = install[i].installation
  <2>1. CASE \E a \in Attempt : StartInstall(j, a)
    <3>1. i # j /\ \E n : install' = [install EXCEPT ![j] = n]
      BY <2>1 DEF StartInstall, Is
    <3> QED BY <1>1, <3>1 DEF Is
  <2>2. CASE InstallExpires(j) \/ InstallAges(j)
    BY <1>1, <2>2 DEF InstallExpires, InstallAges, Is, InstallRow
  <2> QED BY <1>3, <2>1, <2>2
<1>4. ASSUME NEW v \in Visit, NEW j \in InstallAttempt, VisitBegins(v, j)
      PROVE  install'[i].status = "COMPLETED" /\ install'[i].installation = install[i].installation
  BY <1>1, <1>4 DEF VisitBegins, ClaimInstall, ClaimWithoutKey, RefuseExpired, ClaimableInstall,
     Is, InstallRow
<1>5. ASSUME NEW v \in Visit, GithubConfirms(v) \/ GithubUnreachable(v) \/ GithubRefuses(v)
      PROVE  install'[i].status = "COMPLETED" /\ install'[i].installation = install[i].installation
  <2> DEFINE j == visit[v].attempt
             x == visit[v].installation
  <2>1. j \in InstallAttempt
    BY <1>1, <1>5 DEF GithubConfirms, GithubUnreachable, GithubRefuses, VisitRow
  <2>2. \/ Mark(v, j) \/ Release(v, j)
        \/ /\ HasClaim(v, j)
           /\ install' = [install EXCEPT ![j].status = "COMPLETED", ![j].installation = x]
    BY <1>5 DEF GithubConfirms, GithubUnreachable, GithubRefuses, CompleteInstall
  <2>3. CASE /\ HasClaim(v, j)
             /\ install' = [install EXCEPT ![j].status = "COMPLETED", ![j].installation = x]
    <3>1. i # j
      BY <2>3 DEF HasClaim, Is
    <3> QED BY <1>1, <2>3, <3>1 DEF Is, InstallRow
  <2> QED BY <1>2, <2>1, <2>2, <2>3
<1>6. CASE InstallStep
  BY <1>3, <1>4, <1>5, <1>6 DEF InstallStep
<1> QED BY <1>6 DEF Is

\* Completion is final, of an App and of an installation, and so is what it names.
THEOREM CompletedStays == Spec => CompletedForGood
<1>1. ASSUME Inv, [Next]_vars
      PROVE  /\ \A a \in Attempt : Has(a, "COMPLETED") => attempt'[a].status = "COMPLETED"
             /\ \A i \in InstallAttempt : Is(i, "COMPLETED") => install'[i].status = "COMPLETED"
                                             /\ install'[i].installation = install[i].installation
  <2>1. /\ ManifestStep \/ Crash \/ UNCHANGED attempt
        /\ InstallStep \/ UNCHANGED install
    BY <1>1 DEF Next, vars, manifest, installs
  <2> QED BY <1>1, <2>1, AttemptStays, InstallStays
<1> QED BY <1>1, Invariance, PTL DEF Spec, CompletedForGood
==============================================================================
