----------------------------- MODULE Enrollment -----------------------------
(* The enrollment of a receiver's connector: the tokens an operator issues *)
(* and reissues (receiver-connection-service.ts), the identity file of the *)
(* connector (receiver-connector/src/identity.ts) and the start of its     *)
(* process (worker.ts, initialize).                                        *)
(*                                                                         *)
(* A token enrolls one identity, for good: no operation of the server      *)
(* releases a connector_id. An identity the server accepted and the        *)
(* connector lost would leave the receiver without a connector forever, so *)
(* the order of the durable steps on both sides is what matters here. A    *)
(* process may crash between any two of them, a power loss may undo what   *)
(* was not forced to disk, the state directory included, processes may     *)
(* share a state directory, answers are lost and requests reach the server *)
(* late.                                                                   *)
(*                                                                         *)
(* Secrets are part of the identity, and both sides offer the one protocol *)
(* version and the one set of capabilities. Token expiry is an event.      *)
EXTENDS Naturals, FiniteSets

CONSTANTS
    Receiver,     \* receiver_connections rows, one per application connection
    Host,         \* connector state directories
    Process,      \* connector processes
    Identity,     \* generated connector ids with their secrets
    MaxToken,     \* bound: tokens issued
    MaxConfig,    \* bound: changes of REDRIVE_ENROLLMENT_TOKEN
    MaxCrash,     \* bound: crashes, failed preparations and power losses
    Provisioned,  \* the state directories that exist before any connector runs
    None

ASSUME EnrollmentAssumption ==
    /\ Identity \intersect {None, "absent", "torn"} = {}
    /\ {MaxToken, MaxConfig, MaxCrash} \subseteq Nat

VARIABLES
    row,      \* receiver_connections
    issued,   \* number of tokens issued; token t is the t-th
    seen,     \* the identity file of a host, as its processes read it
    durable,  \* the identity file as a power loss would leave it
    home,     \* the state directory of a host, and whether its entry is on disk
    gone,     \* history: identities lost together with their state directory
    dir,      \* the state directory of each process
    config,   \* the enrollment token in the environment of a host
    proc,     \* the connector processes
    wire,     \* enrollment requests ever sent; each may reach the server again
    configs, crashes

server == <<row, issued>>
disk   == <<seen, durable, home, gone>>
env    == <<dir, config>>
bounds == <<configs, crashes>>
vars == <<server, disk, env, proc, wire, bounds>>

Token == 0..MaxToken   \* 0 is no token

NoFile == [id |-> "absent", ack |-> FALSE]
Torn   == [id |-> "torn", ack |-> FALSE]   \* created, its content not written
Intact(file) == file \notin {NoFile, Torn}
File == {NoFile, Torn} \union [id : Identity, ack : BOOLEAN]

Unenrolled == [token |-> 0, live |-> FALSE, connector |-> None, health |-> 0]
Off == [pc |-> "off", id |-> None, token |-> 0]
Preparing == {"off", "found", "missing", "made", "ready"}
PC == Preparing \union
      {"opened", "written", "enroll", "await", "accepted", "renamed", "running"}

(* Every enrolled receiver has its one first health job. *)
TypeOK ==
    /\ row \in [Receiver -> [token : 0..issued, live : BOOLEAN,
                             connector : Identity \union {None}, health : {0, 1}]]
    /\ \A r \in Receiver : /\ row[r].connector # None => row[r].token # 0
                           /\ (row[r].health = 1) = (row[r].connector # None)
    /\ issued \in Token
    /\ seen \in [Host -> File] /\ durable \in [Host -> File]
    /\ home \in [Host -> {"absent", "unforced", "forced"}] /\ gone \subseteq Identity
    /\ dir \in [Process -> Host] /\ config \in [Host -> 0..issued]
    /\ proc \in [Process -> [pc : PC, id : Identity \union {None}, token : 0..issued]]
    /\ \A p \in Process : proc[p].pc \notin Preparing => proc[p].id # None
    /\ wire \subseteq [token : 1..issued, id : Identity]
    /\ configs \in 0..MaxConfig /\ crashes \in 0..MaxCrash

Init ==
    /\ row = [r \in Receiver |-> Unenrolled] /\ issued = 0
    /\ seen = [h \in Host |-> NoFile] /\ durable = seen
    /\ home = [h \in Host |-> IF h \in Provisioned THEN "forced" ELSE "absent"] /\ gone = {}
    /\ dir \in [Process -> Host] /\ config = [h \in Host |-> 0]
    /\ proc = [p \in Process |-> Off] /\ wire = {}
    /\ configs = 0 /\ crashes = 0

At(p, pc) == proc[p].pc = pc
GoTo(p, pc) == proc' = [proc EXCEPT ![p].pc = pc]
Stop(p) == proc' = [proc EXCEPT ![p] = Off]

-----------------------------------------------------------------------------
(* The operator. issue replaces a token only once it has expired, reissue  *)
(* at any time, neither after the enrollment.                              *)

NewToken(r) ==
    /\ issued < MaxToken /\ issued' = issued + 1
    /\ row' = [row EXCEPT ![r].token = issued + 1, ![r].live = TRUE]
    /\ UNCHANGED <<disk, env, proc, wire, bounds>>

Issue(r) == /\ row[r].connector = None /\ ~row[r].live
            /\ NewToken(r)

Reissue_AfterEnrollment(r) == /\ row[r].token # 0
                              /\ NewToken(r)

Reissue(r) == /\ row[r].connector = None /\ row[r].token # 0
              /\ NewToken(r)

TokenExpires(r) ==
    /\ row[r].live
    /\ row' = [row EXCEPT ![r].live = FALSE]
    /\ UNCHANGED <<issued, disk, env, proc, wire, bounds>>

Configure(h) ==
    /\ configs < MaxConfig /\ configs' = configs + 1
    /\ \E t \in 0..issued \ {config[h]} : config' = [config EXCEPT ![h] = t]
    /\ UNCHANGED <<server, disk, dir, proc, wire, crashes>>

-----------------------------------------------------------------------------
(* The state directory (prepareStateDirectory). Who finds it missing makes  *)
(* it and forces the parents of what was missing; who finds it uses it, and *)
(* makes it without forcing anything if it is gone by then.                 *)

Look(p) ==
    /\ At(p, "off")
    /\ GoTo(p, IF home[dir[p]] = "absent" THEN "missing" ELSE "found")
    /\ UNCHANGED <<server, disk, env, wire, bounds>>

Make_WithoutForcing(p) ==
    /\ proc[p].pc \in {"found", "missing"}
    /\ home' = [home EXCEPT ![dir[p]] = IF @ = "absent" THEN "unforced" ELSE @]
    /\ GoTo(p, "ready")
    /\ UNCHANGED <<server, seen, durable, gone, env, wire, bounds>>

Make(p) ==
    /\ proc[p].pc \in {"found", "missing"}
    /\ home' = [home EXCEPT ![dir[p]] = IF @ = "absent" THEN "unforced" ELSE @]
    /\ GoTo(p, IF At(p, "missing") THEN "made" ELSE "ready")
    /\ UNCHANGED <<server, seen, durable, gone, env, wire, bounds>>

ForceParents(p) ==
    /\ At(p, "made")
    /\ home' = [home EXCEPT ![dir[p]] = IF @ = "unforced" THEN "forced" ELSE @]
    /\ GoTo(p, "ready")
    /\ UNCHANGED <<server, seen, durable, gone, env, wire, bounds>>

(* A failure to make or to force what was missing removes it again, unless *)
(* it is not empty or that fails as well.                                   *)
PrepareFails(p) ==
    /\ crashes < MaxCrash /\ crashes' = crashes + 1
    /\ proc[p].pc \in {"missing", "made"} /\ Stop(p)
    /\ \/ UNCHANGED home
       \/ seen[dir[p]] = NoFile /\ home' = [home EXCEPT ![dir[p]] = "absent"]
    /\ UNCHANGED <<server, seen, durable, gone, env, wire, configs>>

-----------------------------------------------------------------------------
(* The identity file. A file that exists is forced to disk before it is    *)
(* used; a torn one stops the process, and nothing repairs it. The token   *)
(* is looked at here, not before.                                          *)

Started(pc, h, i) == [pc |-> pc, id |-> i, token |-> config[h]]

(* Without an acknowledgement the process needs a token. *)
Loaded(h) == IF seen[h].ack THEN Started("running", h, seen[h].id)
             ELSE IF config[h] # 0 THEN Started("enroll", h, seen[h].id) ELSE Off

StartLoads(p) ==
    /\ At(p, "ready") /\ Intact(seen[dir[p]])
    /\ durable' = [durable EXCEPT ![dir[p]] = seen[dir[p]]]
    /\ proc' = [proc EXCEPT ![p] = Loaded(dir[p])]
    /\ UNCHANGED <<server, seen, home, gone, env, wire, bounds>>

StartStops(p) ==
    /\ At(p, "ready") /\ Stop(p)
    /\ seen[dir[p]] = Torn \/ home[dir[p]] = "absent"
    /\ UNCHANGED <<server, disk, env, wire, bounds>>

Used == gone \union {seen[h].id : h \in Host} \union {proc[p].id : p \in Process}
        \union {m.id : m \in wire}

StartCreates(p) ==
    /\ At(p, "ready") /\ home[dir[p]] # "absent" /\ seen[dir[p]] = NoFile
    /\ \E i \in Identity \ Used :
        proc' = [proc EXCEPT ![p] = Started("opened", dir[p], i)]
    /\ seen' = [seen EXCEPT ![dir[p]] = Torn]
    /\ UNCHANGED <<server, durable, home, gone, env, wire, bounds>>

Write(p) ==
    /\ At(p, "opened")
    /\ seen' = [seen EXCEPT ![dir[p]] = [id |-> proc[p].id, ack |-> FALSE]]
    /\ GoTo(p, "written")
    /\ UNCHANGED <<server, durable, home, gone, env, wire, bounds>>

(* The file and its directory are forced to disk before the token is even  *)
(* looked at.                                                               *)
Sync(p) ==
    /\ At(p, "written")
    /\ durable' = [durable EXCEPT ![dir[p]] = seen[dir[p]]]
    /\ IF proc[p].token # 0 THEN GoTo(p, "enroll") ELSE Stop(p)
    /\ UNCHANGED <<server, seen, home, gone, env, wire, bounds>>

-----------------------------------------------------------------------------
(* Enrollment, with the token the process found when it started.           *)

Request(p) == [token |-> proc[p].token, id |-> proc[p].id]

Send(p) ==
    /\ At(p, "enroll")
    /\ wire' = wire \union {Request(p)}
    /\ GoTo(p, "await")
    /\ UNCHANGED <<server, disk, env, bounds>>

(* A lost answer is asked for again, by withTransportRetry and by run. *)
NoAnswer(p) ==
    /\ At(p, "await") /\ GoTo(p, "enroll")
    /\ UNCHANGED <<server, disk, env, wire, bounds>>

Answer(m, pc) ==
    \/ \E p \in Process :
        /\ At(p, "await") /\ Request(p) = m
        /\ IF pc = "off" THEN Stop(p) ELSE GoTo(p, pc)
    \/ UNCHANGED proc

Enrollable(m, r) ==
    /\ row[r].token = m.token /\ row[r].connector = None /\ row[r].live
    /\ \A s \in Receiver : row[s].connector # m.id

Enroll(m, r) ==
    /\ m \in wire /\ Enrollable(m, r)
    /\ row' = [row EXCEPT ![r].connector = m.id, ![r].health = @ + 1]
    /\ Answer(m, "accepted")
    /\ UNCHANGED <<issued, disk, env, wire, bounds>>

(* A retry is recognised by its token and its identity, expired or not. *)
Replay_Expires(m) ==
    \E r \in Receiver : row[r].token = m.token /\ row[r].connector = m.id /\ row[r].live

Replay(m) == \E r \in Receiver : row[r].token = m.token /\ row[r].connector = m.id

EnrollReplays(m) ==
    /\ m \in wire /\ Replay(m)
    /\ Answer(m, "accepted")
    /\ UNCHANGED <<server, disk, env, wire, bounds>>

EnrollRefused(m) ==
    /\ m \in wire /\ ~Replay(m) /\ \A r \in Receiver : ~Enrollable(m, r)
    /\ Answer(m, "off")
    /\ UNCHANGED <<server, disk, env, wire, bounds>>

(* markEnrollmentAcknowledged reads the file again, forces it to disk, and *)
(* replaces it atomically unless another process already did.              *)
Acknowledge(p) ==
    /\ At(p, "accepted")
    /\ LET h == dir[p]
           same == Intact(seen[h]) /\ seen[h].id = proc[p].id
       IN /\ durable' = [durable EXCEPT ![h] = IF Intact(seen[h]) THEN seen[h] ELSE @]
          /\ seen' = [seen EXCEPT ![h] = IF same THEN [id |-> proc[p].id, ack |-> TRUE] ELSE @]
          /\ IF ~same THEN Stop(p)
             ELSE IF seen[h].ack THEN GoTo(p, "running") ELSE GoTo(p, "renamed")
    /\ UNCHANGED <<server, home, gone, env, wire, bounds>>

SyncAck(p) ==
    /\ At(p, "renamed")
    /\ durable' = [durable EXCEPT ![dir[p]] = seen[dir[p]]]
    /\ GoTo(p, "running")
    /\ UNCHANGED <<server, seen, home, gone, env, wire, bounds>>

-----------------------------------------------------------------------------
Crash(p) ==
    /\ crashes < MaxCrash /\ crashes' = crashes + 1
    /\ ~At(p, "off") /\ Stop(p)
    /\ UNCHANGED <<server, disk, env, wire, configs>>

(* What a power loss can leave of a file: what was forced to disk, what    *)
(* was last written, or, of a file that was never forced, an empty one. A  *)
(* state directory whose entry was not forced may be lost with everything  *)
(* in it; what the power loss left is on disk.                              *)
Remains(h) == {durable[h], seen[h]} \union
              (IF durable[h] = NoFile /\ seen[h] # NoFile THEN {Torn} ELSE {})

Leaves(h, file, place) ==
    /\ seen' = [seen EXCEPT ![h] = file] /\ durable' = [durable EXCEPT ![h] = file]
    /\ home' = [home EXCEPT ![h] = place]

PowerLoss(h) ==
    /\ crashes < MaxCrash /\ crashes' = crashes + 1
    /\ \/ /\ \E file \in Remains(h) :
              Leaves(h, file, IF home[h] = "absent" THEN "absent" ELSE "forced")
          /\ UNCHANGED gone
       \/ /\ home[h] = "unforced" /\ Leaves(h, NoFile, "absent")
          /\ gone' = gone \union ({seen[h].id} \intersect Identity)
    /\ proc' = [p \in Process |-> IF dir[p] = h THEN Off ELSE proc[p]]
    /\ UNCHANGED <<server, env, wire, configs>>

-----------------------------------------------------------------------------
Start(p) == Look(p) \/ Make(p) \/ ForceParents(p) \/ StartLoads(p) \/ StartStops(p)
            \/ StartCreates(p)
Proceed(p) == Write(p) \/ Sync(p) \/ Send(p) \/ NoAnswer(p) \/ Acknowledge(p) \/ SyncAck(p)
Serve(m) == (\E r \in Receiver : Enroll(m, r)) \/ EnrollReplays(m) \/ EnrollRefused(m)

Next ==
    \/ \E r \in Receiver : Issue(r) \/ Reissue(r) \/ TokenExpires(r)
    \/ \E h \in Host : Configure(h) \/ PowerLoss(h)
    \/ \E p \in Process : Start(p) \/ PrepareFails(p) \/ Proceed(p) \/ Crash(p)
    \/ \E m \in wire : Serve(m)

Spec == Init /\ [][Next]_vars

(* A connector process that is down is started again, a started one keeps  *)
(* going, and of the answers to a request repeated for ever one arrives.   *)
Accepted(p) == At(p, "await") /\ Serve(Request(p)) /\ proc[p].pc' # "await"

FairSpec ==
    /\ Spec
    /\ \A p \in Process : WF_vars(Start(p) \/ Proceed(p)) /\ SF_vars(Accepted(p))

-----------------------------------------------------------------------------
(* What the server enrolled the connector does not lose: the identity is   *)
(* on the disk of a host before it is offered, through every crash and     *)
(* power loss (loadOrCreateIdentity, ensureIdentityDurable, initialize).   *)
(* Only a state directory whose parents were never forced may take it      *)
(* along, and for that one failure is not enough: its maker died before it *)
(* forced them, or another process of the directory found it made.         *)
Shared == \E p, q \in Process : p # q /\ dir[p] = dir[q]

EnrolledIsDurable ==
    \A r \in Receiver : row[r].connector # None =>
        \/ \E h \in Host : durable[h].id = row[r].connector /\ seen[h].id = row[r].connector
        \/ row[r].connector \in gone /\ (crashes > 1 \/ Shared)

(* A connector that believes itself enrolled is: an acknowledged file, at  *)
(* whatever point a crash left it, holds the identity of a receiver        *)
(* (markEnrollmentAcknowledged after the answer).                           *)
AcknowledgedIsEnrolled ==
    \A h \in Host : seen[h].ack \/ durable[h].ack =>
        \E r \in Receiver : row[r].connector = seen[h].id

(* An identity serves one receiver, whichever tokens it is given           *)
(* (connector_id UNIQUE and the check before it).                           *)
OneReceiver ==
    \A r, s \in Receiver : row[r].connector # None /\ row[r].connector = row[s].connector => r = s

(* An enrollment stands, and so does the token it is recognised by: no     *)
(* issue, reissue, late request or second connector replaces either.       *)
EnrolledForGood ==
    [][\A r \in Receiver : row[r].connector # None =>
        row'[r].connector = row[r].connector /\ row'[r].token = row[r].token]_vars

(* A host whose identity the server enrolled comes to know it, although    *)
(* the answer was lost, the process crashed or the token expired since, as *)
(* long as its token stays configured and its directory is not lost        *)
(* (parseEnrollmentForReplay).                                              *)
EnrolledIsAcknowledged ==
    \A h \in Host : \A r \in Receiver :
        (/\ row[r].connector # None /\ row[r].connector = seen[h].id
         /\ config[h] = row[r].token /\ \E p \in Process : dir[p] = h)
            ~> (seen[h].ack \/ config[h] # row[r].token \/ row[r].connector \in gone)
=============================================================================
