-------------------------- MODULE EnrollmentProofs --------------------------
(* Theorems about the enrollment, for any receivers, state directories,    *)
(* processes, identities and bounds: what the server enrolled is on a disk *)
(* unless a state directory nobody forced was lost with it, what a         *)
(* connector has acknowledged is enrolled, and an enrollment stands.       *)
EXTENDS Enrollment, TLAPS

USE EnrollmentAssumption DEF Preparing

-----------------------------------------------------------------------------
(* The inductive invariant. An identity is held by a host when its file,   *)
(* as read and as a power loss would leave it, is of that identity.         *)

Held(i) == \E h \in Host : durable[h].id = i /\ seen[h].id = i
Kept(i) == Held(i) \/ i \in gone
IsEnrolled(i) == \E r \in Receiver : row[r].connector = i

Offering == {"enroll", "await", "accepted", "renamed", "running"}
Knowing  == {"accepted", "renamed", "running"}

\* What is on disk is an earlier version of the file, or nothing yet.
Agree == \A h \in Host : durable[h] = NoFile \/ durable[h].id = seen[h].id

\* What the file of a process is at each of its steps.
Holds ==
    \A p \in Process :
        /\ At(p, "opened") => seen[dir[p]] = Torn /\ durable[dir[p]] = NoFile
        /\ At(p, "written") => seen[dir[p]].id = proc[p].id
        /\ proc[p].pc \in Offering =>
            seen[dir[p]].id = proc[p].id /\ durable[dir[p]].id = proc[p].id

\* A file is created by one process.
Lone == \A p, q \in Process :
            At(p, "opened") /\ At(q, "opened") /\ dir[p] = dir[q] => p = q

\* A request needs a token.
Armed == \A p \in Process : proc[p].pc \in {"enroll", "await"} => proc[p].token # 0

\* Only identities on disk were ever offered to the server, or enrolled.
Sent == \A m \in wire : Kept(m.id)
EnrolledKept == \A r \in Receiver : row[r].connector # None => Kept(row[r].connector)

\* Who knows of an enrollment is enrolled.
ProcessKnows == \A p \in Process : proc[p].pc \in Knowing => IsEnrolled(proc[p].id)
FileKnows == \A h \in Host : seen[h].ack \/ durable[h].ack => IsEnrolled(seen[h].id)

DiskInv == Agree /\ Holds /\ Lone /\ Armed
Inv == TypeOK /\ DiskInv /\ Sent /\ EnrolledKept /\ ProcessKnows /\ FileKnows /\ OneReceiver

-----------------------------------------------------------------------------
(* Files and processes                                                     *)

\* An intact file has an identity; the others have none and no
\* acknowledgement.
LEMMA FileFacts ==
  /\ \A f \in File : /\ f.ack \in BOOLEAN
                     /\ Intact(f) <=> f.id \in Identity
                     /\ ~Intact(f) => ~f.ack
                     /\ f.id = NoFile.id => f = NoFile
  /\ \A i \in Identity : \A b \in BOOLEAN :
        LET f == [id |-> i, ack |-> b] IN f \in File /\ f.id = i /\ f.ack = b /\ Intact(f)
  /\ NoFile \in File /\ Torn \in File /\ NoFile # Torn /\ ~Intact(NoFile) /\ ~Intact(Torn)
  /\ NoFile.id \notin Identity /\ Torn.id \notin Identity /\ ~NoFile.ack /\ ~Torn.ack
<1>1. NoFile \in File /\ Torn \in File /\ NoFile # Torn /\ ~Intact(NoFile) /\ ~Intact(Torn)
      /\ NoFile.id \notin Identity /\ Torn.id \notin Identity /\ ~NoFile.ack /\ ~Torn.ack
      /\ NoFile.id # Torn.id /\ NoFile.ack \in BOOLEAN /\ Torn.ack \in BOOLEAN
  BY DEF File, Intact, NoFile, Torn
<1>2. ASSUME NEW f \in File PROVE f = NoFile \/ f = Torn \/ f \in [id : Identity, ack : BOOLEAN]
  BY DEF File
<1>3. ASSUME NEW f \in [id : Identity, ack : BOOLEAN]
      PROVE  /\ f \in File /\ f.ack \in BOOLEAN /\ f.id \in Identity
             /\ Intact(f)
  <2>1. f.ack \in BOOLEAN /\ f.id \in Identity /\ f \in File
    BY DEF File
  <2>2. Intact(f)
    BY <2>1, <1>1 DEF Intact
  <2> QED BY <2>1, <2>2
<1>4. ASSUME NEW i \in Identity, NEW b \in BOOLEAN
      PROVE  LET f == [id |-> i, ack |-> b] IN f \in File /\ f.id = i /\ f.ack = b /\ Intact(f)
  <2> DEFINE f == [id |-> i, ack |-> b]
  <2>1. f \in [id : Identity, ack : BOOLEAN] /\ f.id = i /\ f.ack = b
    OBVIOUS
  <2> HIDE DEF f
  <2> QED BY <2>1, <1>3
<1> HIDE DEF Intact, NoFile, Torn, File
<1> QED BY <1>1, <1>2, <1>3, <1>4

Proc == [pc : PC, id : Identity \union {None}, token : 0..issued]

\* A process that goes on keeps its identity and its token.
LEMMA GoToStep ==
  ASSUME proc \in [Process -> Proc], NEW p \in Process, NEW c \in PC, GoTo(p, c)
  PROVE  /\ proc' \in [Process -> Proc]
         /\ proc'[p].pc = c /\ proc'[p].id = proc[p].id /\ proc'[p].token = proc[p].token
         /\ \A q \in Process : q # p => proc'[q] = proc[q]
  BY DEF GoTo, Proc

\* A process that stops has no identity.
LEMMA StopStep ==
  ASSUME proc \in [Process -> Proc], issued \in Nat, NEW p \in Process, Stop(p)
  PROVE  /\ proc' \in [Process -> Proc]
         /\ proc'[p].pc = "off"
         /\ \A q \in Process : q # p => proc'[q] = proc[q]
<1>1. Off \in Proc /\ Off.pc = "off"
  BY DEF Off, Proc, PC
<1> QED BY <1>1 DEF Stop

\* The initial states satisfy the invariant.
LEMMA InitInv == Init => Inv
<1> SUFFICES ASSUME Init PROVE Inv
  OBVIOUS
<1>1. Unenrolled \in [token : 0..issued, live : BOOLEAN,
                      connector : Identity \union {None}, health : {0, 1}]
      /\ Unenrolled.connector = None /\ Unenrolled.health = 0
  BY DEF Init, Unenrolled
<1>2. Off \in Proc /\ Off.pc = "off"
  BY DEF Init, Off, Proc, PC
<1>3. TypeOK
  BY <1>1, <1>2, FileFacts DEF Init, TypeOK, Token, Proc
<1>4. /\ \A p \in Process : proc[p].pc = "off"
      /\ \A h \in Host : seen[h] = NoFile /\ durable[h] = NoFile
      /\ \A r \in Receiver : row[r].connector = None
  BY <1>1, <1>2 DEF Init
<1>5. DiskInv
  BY <1>4 DEF DiskInv, Agree, Holds, Lone, Armed, At, Offering
<1>6. Sent /\ EnrolledKept /\ ProcessKnows /\ FileKnows /\ OneReceiver
  BY <1>4, FileFacts DEF Init, Sent, EnrolledKept, ProcessKnows, FileKnows, OneReceiver, Knowing
<1> QED BY <1>3, <1>5, <1>6 DEF Inv

-----------------------------------------------------------------------------
(* What every step does to what is held, enrolled and known                *)

FilesKept ==
    /\ gone \subseteq gone'
    /\ \A h \in Host : \A i \in Identity :
        durable[h].id = i /\ seen[h].id = i =>
            (durable'[h].id = i /\ seen'[h].id = i) \/ i \in gone'
RowsKept ==
    \A r \in Receiver : row[r].connector # None => row'[r].connector = row[r].connector
NewRows ==
    \A r \in Receiver : row'[r].connector # row[r].connector =>
        /\ \E m \in wire : m.id = row'[r].connector
        /\ \A s \in Receiver \ {r} : /\ row'[s].connector = row[s].connector
                                     /\ row[s].connector # row'[r].connector
NewRequests ==
    \A m \in wire' : m \in wire \/ \E p \in Process : At(p, "enroll") /\ m.id = proc[p].id
NewKnowledge ==
    /\ \A p \in Process : proc'[p].pc \in Knowing =>
        \/ proc[p].pc \in Knowing /\ proc'[p].id = proc[p].id
        \/ \E r \in Receiver : row'[r].connector = proc'[p].id
    /\ \A h \in Host : seen'[h].ack \/ durable'[h].ack =>
        \/ (seen[h].ack \/ durable[h].ack) /\ seen'[h].id = seen[h].id
        \/ \E r \in Receiver : row'[r].connector = seen'[h].id

\* A step that keeps the files of identities and the enrolled rows, offers
\* what is on disk, enrolls what was offered and spreads what is known keeps
\* the invariant.
LEMMA StepSafe ==
  ASSUME Inv, TypeOK', DiskInv', FilesKept, RowsKept, NewRows, NewRequests, NewKnowledge
  PROVE  Inv'
<1>1. /\ wire \subseteq [token : 1..issued, id : Identity]
      /\ \A r \in Receiver : row[r].connector \in Identity \union {None}
      /\ \A r \in Receiver : row'[r].connector \in Identity \union {None}
      /\ \A p \in Process : proc[p].pc \notin Preparing => proc[p].id \in Identity
      /\ None \notin Identity
      /\ dir \in [Process -> Host]
  BY DEF Inv, TypeOK
<1>2. \A i \in Identity : Kept(i) => Kept(i)'
  BY DEF FilesKept, Held, Kept
<1>3. \A i \in Identity : IsEnrolled(i) => IsEnrolled(i)'
  BY <1>1 DEF RowsKept, IsEnrolled
<1>4. Sent'
  <2> SUFFICES ASSUME NEW m \in wire' PROVE Kept(m.id)'
    BY DEF Sent
  <2>1. CASE m \in wire
    BY <2>1, <1>1, <1>2 DEF Inv, Sent
  <2>2. ASSUME NEW p \in Process, At(p, "enroll"), m.id = proc[p].id PROVE Kept(m.id)'
    <3>1. Kept(m.id)
      BY <2>2, <1>1 DEF Inv, DiskInv, Holds, Held, Kept, At, Offering
    <3>2. m.id \in Identity
      BY <2>2, <1>1 DEF At
    <3> QED BY <3>1, <3>2, <1>2
  <2> QED BY <2>1, <2>2 DEF NewRequests
<1>5. EnrolledKept'
  <2> SUFFICES ASSUME NEW r \in Receiver, NEW i \in Identity, row'[r].connector = i
               PROVE  Kept(i)'
    BY <1>1 DEF EnrolledKept, Held, Kept
  <2>1. CASE row[r].connector = i
    BY <2>1, <1>1, <1>2 DEF Inv, EnrolledKept
  <2>2. CASE row[r].connector # i
    BY <2>2, <1>1, <1>2 DEF Inv, NewRows, Sent
  <2> QED BY <2>1, <2>2
<1>6. OneReceiver'
  <2> SUFFICES ASSUME NEW r \in Receiver, NEW s \in Receiver, r # s,
                      row'[r].connector # None, row'[r].connector = row'[s].connector
               PROVE  FALSE
    BY DEF OneReceiver
  <2>1. CASE row'[r].connector # row[r].connector
    BY <2>1 DEF NewRows
  <2>2. CASE row'[s].connector # row[s].connector
    BY <2>2 DEF NewRows
  <2> QED BY <2>1, <2>2 DEF Inv, OneReceiver
<1>7. \A h \in Host : seen[h].ack \/ durable[h].ack => seen[h].id \in Identity
  <2> TAKE h \in Host
  <2> HAVE seen[h].ack \/ durable[h].ack
  <2>1. seen[h] \in File /\ durable[h] \in File
    BY DEF Inv, TypeOK
  <2>2. CASE seen[h].ack
    BY <2>1, <2>2, FileFacts
  <2>3. CASE durable[h].ack
    BY <2>1, <2>3, FileFacts DEF Inv, DiskInv, Agree
  <2> QED BY <2>2, <2>3
<1>8. ProcessKnows'
  <2> SUFFICES ASSUME NEW p \in Process, proc'[p].pc \in Knowing
               PROVE  \E r \in Receiver : row'[r].connector = proc'[p].id
    BY DEF ProcessKnows, IsEnrolled
  <2>1. CASE proc[p].pc \in Knowing /\ proc'[p].id = proc[p].id
    <3>1. proc[p].id \in Identity /\ IsEnrolled(proc[p].id)
      BY <2>1, <1>1 DEF Inv, ProcessKnows, Knowing
    <3> QED BY <3>1, <2>1, <1>3 DEF IsEnrolled
  <2> QED BY <2>1 DEF NewKnowledge
<1>9. FileKnows'
  <2> SUFFICES ASSUME NEW h \in Host, seen'[h].ack \/ durable'[h].ack
               PROVE  \E r \in Receiver : row'[r].connector = seen'[h].id
    BY DEF FileKnows, IsEnrolled
  <2>1. CASE (seen[h].ack \/ durable[h].ack) /\ seen'[h].id = seen[h].id
    <3>1. seen[h].id \in Identity /\ IsEnrolled(seen[h].id)
      BY <2>1, <1>7 DEF Inv, FileKnows
    <3> QED BY <3>1, <2>1, <1>3 DEF IsEnrolled
  <2> QED BY <2>1 DEF NewKnowledge
<1> QED BY <1>4, <1>5, <1>6, <1>8, <1>9 DEF Inv

-----------------------------------------------------------------------------
(* The operator *)

Rows(T) == [Receiver -> [token : T, live : BOOLEAN, connector : Identity \union {None},
                         health : {0, 1}]]

LEMMA RowsWider == ASSUME NEW S, NEW T, S \subseteq T, NEW f \in Rows(S) PROVE f \in Rows(T)
<1> DEFINE Type(X) == [token : X, live : BOOLEAN, connector : Identity \union {None}, health : {0, 1}]
<1>1. ASSUME NEW x \in Type(S) PROVE x \in Type(T)
  BY Zenon
<1> QED BY <1>1, Zenon DEF Rows

LEMMA TokenStep ==
  ASSUME NEW T, row \in Rows(T), NEW r \in Receiver, NEW t \in T,
         row' = [row EXCEPT ![r].token = t, ![r].live = TRUE]
  PROVE  /\ row' \in Rows(T)
         /\ row'[r].token = t /\ row'[r].connector = row[r].connector
         /\ row'[r].health = row[r].health
         /\ \A s \in Receiver : s # r => row'[s] = row[s]
  BY Zenon DEF Rows

\* An issued or reissued token; the receiver is not enrolled.
LEMMA NewTokenSafe ==
  ASSUME Inv, NEW r \in Receiver, row[r].connector = None, NewToken(r)
  PROVE  Inv'
<1>1. issued \in Nat /\ issued' = issued + 1 /\ issued' \in Token
  BY DEF Inv, TypeOK, Token, NewToken
<1>2. /\ row' \in Rows(0..issued')
      /\ row'[r].connector = None /\ row'[r].token = issued + 1 /\ row'[r].health = row[r].health
      /\ \A s \in Receiver : s # r => row'[s] = row[s]
  <2>1. 0..issued \subseteq 0..issued' /\ issued + 1 \in 0..issued'
    BY <1>1
  <2>2. row \in Rows(0..issued')
    BY <2>1, RowsWider DEF Inv, TypeOK, Rows
  <2>3. row' = [row EXCEPT ![r].token = issued + 1, ![r].live = TRUE]
    BY DEF NewToken
  <2>4. /\ row' \in Rows(0..issued')
        /\ row'[r].token = issued + 1 /\ row'[r].connector = row[r].connector
        /\ row'[r].health = row[r].health
        /\ \A s \in Receiver : s # r => row'[s] = row[s]
    BY <2>1, <2>2, <2>3, TokenStep, Zenon
  <2> QED BY <2>4
<1>3. UNCHANGED <<seen, durable, home, gone, dir, config, proc, wire, configs, crashes>>
  BY DEF NewToken, disk, env, bounds
<1>4. TypeOK'
  BY <1>1, <1>2, <1>3 DEF Inv, TypeOK, Rows
<1>5. DiskInv'
  BY <1>3 DEF Inv, DiskInv, Agree, Holds, Lone, Armed, At
<1>6. FilesKept /\ RowsKept /\ NewRows /\ NewRequests /\ NewKnowledge
  BY <1>2, <1>3 DEF FilesKept, RowsKept, NewRows, NewRequests, NewKnowledge
<1> QED BY <1>4, <1>5, <1>6, StepSafe

LEMMA TokenExpiresSafe ==
  ASSUME Inv, NEW r \in Receiver, TokenExpires(r)
  PROVE  Inv'
<1>1. /\ row' \in Rows(0..issued)
      /\ \A s \in Receiver : /\ row'[s].token = row[s].token
                             /\ row'[s].connector = row[s].connector
                             /\ row'[s].health = row[s].health
  <2>1. row \in Rows(0..issued) /\ row' = [row EXCEPT ![r].live = FALSE]
    BY DEF Inv, TypeOK, Rows, TokenExpires
  <2> QED BY <2>1, Zenon DEF Rows
<1>2. UNCHANGED <<issued, seen, durable, home, gone, dir, config, proc, wire, configs, crashes>>
  BY DEF TokenExpires, disk, env, bounds
<1>3. TypeOK'
  BY <1>1, <1>2 DEF Inv, TypeOK, Rows
<1>4. DiskInv'
  BY <1>2 DEF Inv, DiskInv, Agree, Holds, Lone, Armed, At
<1>5. FilesKept /\ RowsKept /\ NewRows /\ NewRequests /\ NewKnowledge
  BY <1>1, <1>2 DEF FilesKept, RowsKept, NewRows, NewRequests, NewKnowledge
<1> QED BY <1>3, <1>4, <1>5, StepSafe

LEMMA ConfigureSafe ==
  ASSUME Inv, NEW h \in Host, Configure(h)
  PROVE  Inv'
<1>1. UNCHANGED <<row, issued, seen, durable, home, gone, dir, proc, wire, crashes>>
  BY DEF Configure, server, disk
<1>2. config' \in [Host -> 0..issued] /\ configs' \in 0..MaxConfig
  BY DEF Inv, TypeOK, Configure
<1>3. TypeOK'
  BY <1>1, <1>2 DEF Inv, TypeOK
<1>4. DiskInv'
  BY <1>1 DEF Inv, DiskInv, Agree, Holds, Lone, Armed, At
<1>5. FilesKept /\ RowsKept /\ NewRows /\ NewRequests /\ NewKnowledge
  BY <1>1 DEF FilesKept, RowsKept, NewRows, NewRequests, NewKnowledge
<1> QED BY <1>3, <1>4, <1>5, StepSafe

-----------------------------------------------------------------------------
(* The identity file *)

\* A process forces the file it has read or written to disk.
LEMMA SyncStep ==
  ASSUME Inv, NEW p \in Process, NEW h \in Host, h = dir[p], seen[h].id \in Identity,
         UNCHANGED <<seen, gone, dir>>,
         durable' = [durable EXCEPT ![h] = seen[h]],
         \A q \in Process : q # p => proc'[q] = proc[q],
         proc'[p].pc # "off" => proc'[p].pc \in Offering /\ proc'[p].id = seen[h].id,
         proc'[p].pc \in {"enroll", "await"} => proc'[p].token # 0
  PROVE  /\ durable' \in [Host -> File] /\ DiskInv' /\ FilesKept
         /\ \A g \in Host : seen[g].ack \/ durable'[g].ack => seen[g].ack \/ durable[g].ack
<1>1. /\ durable' \in [Host -> File] /\ durable'[h] = seen[h]
      /\ \A g \in Host : g # h => durable'[g] = durable[g]
  BY DEF Inv, TypeOK
<1>2. Agree' /\ FilesKept
  BY <1>1 DEF Inv, DiskInv, Agree, FilesKept
<1>3. Holds'
  <2> SUFFICES ASSUME NEW q \in Process
               PROVE  /\ At(q, "opened")' => seen[dir[q]] = Torn /\ durable'[dir[q]] = NoFile
                      /\ At(q, "written")' => seen[dir[q]].id = proc'[q].id
                      /\ proc'[q].pc \in Offering => seen[dir[q]].id = proc'[q].id
                                                     /\ durable'[dir[q]].id = proc'[q].id
    BY DEF Holds, At
  <2>1. CASE q = p
    BY <2>1, <1>1 DEF At, Offering
  <2>2. CASE q # p
    <3>1. proc'[q] = proc[q] /\ dir[q] \in Host
      BY <2>2 DEF Inv, TypeOK
    <3>2. CASE dir[q] = h
      BY <3>1, <3>2, <1>1, FileFacts DEF Inv, DiskInv, Holds, At, Offering
    <3>3. CASE dir[q] # h
      BY <3>1, <3>3, <1>1 DEF Inv, DiskInv, Holds, At
    <3> QED BY <3>2, <3>3
  <2> QED BY <2>1, <2>2
<1>4. Lone' /\ Armed'
  BY DEF Inv, DiskInv, Lone, Armed, At, Offering
<1> QED BY <1>1, <1>2, <1>3, <1>4 DEF DiskInv

\* A process that prepares its directory, or gives up, leaves the files alone.
LEMMA PrepareStep ==
  ASSUME Inv, NEW p \in Process,
         UNCHANGED <<row, issued, seen, durable, gone, dir, config, wire, configs>>,
         home' \in [Host -> {"absent", "unforced", "forced"}], crashes' \in 0..MaxCrash,
         proc' \in [Process -> Proc], proc'[p].pc \in Preparing,
         \A q \in Process : q # p => proc'[q] = proc[q]
  PROVE  Inv'
<1>1. TypeOK'
  BY DEF Inv, TypeOK, Proc
<1>2. DiskInv'
  <2>1. Agree'
    BY DEF Inv, DiskInv, Agree
  <2>2. Holds' /\ Lone' /\ Armed'
    BY DEF Inv, DiskInv, Holds, Lone, Armed, At, Offering
  <2> QED BY <2>1, <2>2 DEF DiskInv
<1>3. FilesKept /\ RowsKept /\ NewRows /\ NewRequests /\ NewKnowledge
  BY DEF FilesKept, RowsKept, NewRows, NewRequests, NewKnowledge, Knowing
<1> QED BY <1>1, <1>2, <1>3, StepSafe

LEMMA PrepareSafe ==
  ASSUME Inv, NEW p \in Process,
         Look(p) \/ Make(p) \/ ForceParents(p) \/ PrepareFails(p) \/ StartStops(p)
  PROVE  Inv'
<1>1. UNCHANGED <<row, issued, seen, durable, gone, dir, config, wire, configs>>
  BY DEF Look, Make, ForceParents, PrepareFails, StartStops, server, disk, env, bounds
<1>2. home' \in [Host -> {"absent", "unforced", "forced"}]
  <2>1. home \in [Host -> {"absent", "unforced", "forced"}] /\ dir[p] \in Host
    BY DEF Inv, TypeOK
  <2> QED BY <2>1 DEF Look, Make, ForceParents, PrepareFails, StartStops, disk
<1>3. crashes' \in 0..MaxCrash
  BY DEF Inv, TypeOK, Look, Make, ForceParents, PrepareFails, StartStops, bounds
<1>4. /\ proc' \in [Process -> Proc] /\ proc'[p].pc \in Preparing
      /\ \A q \in Process : q # p => proc'[q] = proc[q]
  <2>1. proc \in [Process -> Proc] /\ issued \in Nat /\ Preparing \subseteq PC
    BY DEF Inv, TypeOK, Proc, Token, PC
  <2>2. CASE Stop(p)
    BY <2>1, <2>2, StopStep
  <2>3. ASSUME NEW c \in Preparing, GoTo(p, c)
        PROVE  /\ proc' \in [Process -> Proc] /\ proc'[p].pc \in Preparing
               /\ \A q \in Process : q # p => proc'[q] = proc[q]
    BY <2>1, <2>3, GoToStep
  <2> QED BY <2>2, <2>3 DEF Look, Make, ForceParents, PrepareFails, StartStops
<1> QED BY <1>1, <1>2, <1>3, <1>4, PrepareStep

\* An existing file is forced to disk: what is read is what is on disk.
LEMMA StartLoadsSafe ==
  ASSUME Inv, NEW p \in Process, StartLoads(p)
  PROVE  Inv'
<1> DEFINE h == dir[p]
<1>1. UNCHANGED <<row, issued, seen, home, gone, dir, config, wire, configs, crashes>>
  BY DEF StartLoads, server, env, bounds
<1>2. /\ h \in Host /\ seen[h] \in File /\ seen[h].id \in Identity /\ config[h] \in 0..issued
      /\ None \notin Identity
  BY FileFacts DEF Inv, TypeOK, StartLoads
<1>3. /\ proc' \in [Process -> Proc] /\ proc'[p] = Loaded(h)
      /\ \A q \in Process : q # p => proc'[q] = proc[q]
  <2>1. Loaded(h) \in Proc
    BY <1>2 DEF Loaded, Started, Off, Proc, PC, Inv, TypeOK, Token
  <2> QED BY <2>1 DEF Inv, TypeOK, StartLoads, Proc
<1>4. \/ Loaded(h).pc = "off"
      \/ /\ Loaded(h).pc = "enroll" \/ (Loaded(h).pc = "running" /\ seen[h].ack)
         /\ Loaded(h).id = seen[h].id /\ (Loaded(h).pc = "enroll" => Loaded(h).token # 0)
  <2>1. CASE seen[h].ack
    <3>1. Loaded(h) = Started("running", h, seen[h].id)
      BY <2>1, Zenon DEF Loaded
    <3>2. Loaded(h).pc = "running" /\ Loaded(h).pc # "enroll" /\ Loaded(h).id = seen[h].id
      BY <3>1 DEF Started
    <3> QED BY <2>1, <3>2, Zenon
  <2>2. CASE ~seen[h].ack
    <3>1. Loaded(h) = IF config[h] # 0 THEN Started("enroll", h, seen[h].id) ELSE Off
      BY <2>2, Zenon DEF Loaded
    <3> QED BY <3>1 DEF Started, Off
  <2> QED BY <2>1, <2>2
<1> HIDE DEF h
<1>5. /\ durable' \in [Host -> File] /\ DiskInv' /\ FilesKept
      /\ \A g \in Host : seen[g].ack \/ durable'[g].ack => seen[g].ack \/ durable[g].ack
  BY <1>1, <1>2, <1>3, <1>4, SyncStep DEF StartLoads, h, Offering
<1>6. TypeOK'
  BY <1>1, <1>2, <1>5, <1>3, <1>4 DEF Inv, TypeOK, Proc
<1>7. RowsKept /\ NewRows /\ NewRequests
  BY <1>1 DEF RowsKept, NewRows, NewRequests
<1>8. NewKnowledge
  <2>1. proc'[p].pc \in Knowing => \E r \in Receiver : row[r].connector = proc'[p].id
    BY <1>2, <1>3, <1>4 DEF Knowing, Inv, FileKnows, IsEnrolled
  <2> QED BY <1>1, <1>3, <1>5, <2>1 DEF NewKnowledge
<1> QED BY <1>6, <1>5, <1>7, <1>8, StepSafe

\* A file that is not there is created, and by one process.
LEMMA StartCreatesSafe ==
  ASSUME Inv, NEW p \in Process, StartCreates(p)
  PROVE  Inv'
<1> DEFINE h == dir[p]
<1>1. UNCHANGED <<row, issued, durable, home, gone, dir, config, wire, configs, crashes>>
  BY DEF StartCreates, server, env, bounds
<1>2. /\ h \in Host /\ seen[h] = NoFile /\ durable[h] = NoFile /\ config[h] \in 0..issued
      /\ None \notin Identity
  BY FileFacts DEF Inv, TypeOK, DiskInv, Agree, StartCreates
<1>3. /\ seen' \in [Host -> File] /\ seen'[h] = Torn
      /\ \A g \in Host : g # h => seen'[g] = seen[g]
  BY <1>2, FileFacts DEF Inv, TypeOK, StartCreates
<1>4. /\ proc' \in [Process -> Proc] /\ proc'[p].pc = "opened" /\ proc'[p].id \in Identity
      /\ \A q \in Process : q # p => proc'[q] = proc[q]
  <2>1. PICK i \in Identity : proc' = [proc EXCEPT ![p] = Started("opened", h, i)]
    BY DEF StartCreates
  <2>2. Started("opened", h, i) \in Proc /\ Started("opened", h, i).pc = "opened"
        /\ Started("opened", h, i).id = i
    BY <1>2 DEF Started, Proc, PC
  <2> QED BY <2>1, <2>2 DEF Inv, TypeOK, Proc
<1> HIDE DEF h
<1>5. \A q \in Process : q # p /\ dir[q] = h => ~At(q, "opened") /\ ~At(q, "written")
                                                /\ proc[q].pc \notin Offering
  BY <1>2, FileFacts DEF Inv, TypeOK, DiskInv, Holds, At, Offering
<1>6. TypeOK'
  BY <1>1, <1>2, <1>3, <1>4 DEF Inv, TypeOK, Proc
<1>7. DiskInv'
  <2>1. Agree'
    BY <1>1, <1>2, <1>3 DEF Inv, DiskInv, Agree
  <2>2. Holds'
    <3> SUFFICES ASSUME NEW q \in Process
                 PROVE  /\ At(q, "opened")' => seen'[dir[q]] = Torn /\ durable[dir[q]] = NoFile
                        /\ At(q, "written")' => seen'[dir[q]].id = proc'[q].id
                        /\ proc'[q].pc \in Offering => seen'[dir[q]].id = proc'[q].id
                                                       /\ durable[dir[q]].id = proc'[q].id
      BY <1>1 DEF Holds, At
    <3>1. CASE q = p
      BY <3>1, <1>2, <1>3, <1>4 DEF At, Offering, h
    <3>2. CASE q # p /\ dir[q] = h
      BY <3>2, <1>4, <1>5 DEF At
    <3>3. CASE q # p /\ dir[q] # h
      BY <3>3, <1>3, <1>4 DEF Inv, DiskInv, Holds, At, TypeOK
    <3> QED BY <3>1, <3>2, <3>3
  <2>3. Lone'
    BY <1>1, <1>4, <1>5 DEF Inv, DiskInv, Lone, At, h
  <2>4. Armed'
    BY <1>4 DEF Inv, DiskInv, Armed, At
  <2> QED BY <2>1, <2>2, <2>3, <2>4 DEF DiskInv
<1>8. FilesKept /\ RowsKept /\ NewRows /\ NewRequests
  BY <1>1, <1>2, <1>3, FileFacts DEF FilesKept, RowsKept, NewRows, NewRequests
<1>9. NewKnowledge
  <2>1. \A g \in Host : seen'[g].ack \/ durable[g].ack =>
            (seen[g].ack \/ durable[g].ack) /\ seen'[g].id = seen[g].id
    BY <1>2, <1>3, FileFacts
  <2> QED BY <1>1, <1>4, <2>1 DEF NewKnowledge, Knowing
<1> QED BY <1>6, <1>7, <1>8, <1>9, StepSafe

\* Its content is written.
LEMMA WriteSafe ==
  ASSUME Inv, NEW p \in Process, Write(p)
  PROVE  Inv'
<1> DEFINE h == dir[p]
<1>1. UNCHANGED <<row, issued, durable, home, gone, dir, config, wire, configs, crashes>>
  BY DEF Write, server, env, bounds
<1>2. /\ h \in Host /\ seen[h] = Torn /\ durable[h] = NoFile /\ At(p, "opened")
      /\ proc[p].id \in Identity
  BY DEF Inv, TypeOK, DiskInv, Holds, Write, At
<1>3. /\ seen' \in [Host -> File] /\ seen'[h].id = proc[p].id /\ ~seen'[h].ack
      /\ \A g \in Host : g # h => seen'[g] = seen[g]
  <2> DEFINE f == [id |-> proc[p].id, ack |-> FALSE]
  <2>1. f \in File /\ f.id = proc[p].id /\ ~f.ack
    BY <1>2, FileFacts
  <2>2. seen' = [seen EXCEPT ![h] = f]
    BY DEF Write
  <2> HIDE DEF f
  <2> QED BY <1>2, <2>1, <2>2 DEF Inv, TypeOK
<1>4. /\ proc' \in [Process -> Proc] /\ proc'[p].pc = "written" /\ proc'[p].id = proc[p].id
      /\ \A q \in Process : q # p => proc'[q] = proc[q]
  <2>1. proc \in [Process -> Proc] /\ GoTo(p, "written") /\ "written" \in PC
    BY DEF Inv, TypeOK, Proc, Write, PC
  <2> QED BY <2>1, GoToStep
<1> HIDE DEF h
<1>5. \A q \in Process : q # p /\ dir[q] = h => ~At(q, "opened") /\ ~At(q, "written")
                                                /\ proc[q].pc \notin Offering
  BY <1>2, FileFacts DEF Inv, TypeOK, DiskInv, Holds, Lone, At, Offering, h
<1>6. TypeOK'
  BY <1>1, <1>2, <1>3, <1>4 DEF Inv, TypeOK, Proc
<1>7. DiskInv'
  <2>1. Agree'
    BY <1>1, <1>2, <1>3 DEF Inv, DiskInv, Agree
  <2>2. Holds'
    <3> SUFFICES ASSUME NEW q \in Process
                 PROVE  /\ At(q, "opened")' => seen'[dir[q]] = Torn /\ durable[dir[q]] = NoFile
                        /\ At(q, "written")' => seen'[dir[q]].id = proc'[q].id
                        /\ proc'[q].pc \in Offering => seen'[dir[q]].id = proc'[q].id
                                                       /\ durable[dir[q]].id = proc'[q].id
      BY <1>1 DEF Holds, At
    <3>1. CASE q = p
      BY <3>1, <1>2, <1>3, <1>4 DEF At, Offering, h
    <3>2. CASE q # p /\ dir[q] = h
      BY <3>2, <1>4, <1>5 DEF At
    <3>3. CASE q # p /\ dir[q] # h
      BY <3>3, <1>3, <1>4 DEF Inv, DiskInv, Holds, At, TypeOK
    <3> QED BY <3>1, <3>2, <3>3
  <2>3. Lone'
    BY <1>1, <1>4 DEF Inv, DiskInv, Lone, At
  <2>4. Armed'
    BY <1>4 DEF Inv, DiskInv, Armed, At
  <2> QED BY <2>1, <2>2, <2>3, <2>4 DEF DiskInv
<1>8. FilesKept /\ RowsKept /\ NewRows /\ NewRequests
  BY <1>1, <1>2, <1>3, FileFacts DEF FilesKept, RowsKept, NewRows, NewRequests
<1>9. NewKnowledge
  <2>1. \A g \in Host : seen'[g].ack \/ durable[g].ack =>
            (seen[g].ack \/ durable[g].ack) /\ seen'[g].id = seen[g].id
    BY <1>2, <1>3, FileFacts
  <2> QED BY <1>1, <1>4, <2>1 DEF NewKnowledge, Knowing
<1> QED BY <1>6, <1>7, <1>8, <1>9, StepSafe

\* What was written is forced to disk.
LEMMA SyncSafe ==
  ASSUME Inv, NEW p \in Process, Sync(p)
  PROVE  Inv'
<1> DEFINE h == dir[p]
<1>1. UNCHANGED <<row, issued, seen, home, gone, dir, config, wire, configs, crashes>>
  BY DEF Sync, server, env, bounds
<1>2. /\ h \in Host /\ seen[h] \in File /\ seen[h].id = proc[p].id /\ At(p, "written")
      /\ proc[p].id \in Identity
  BY DEF Inv, TypeOK, DiskInv, Holds, Sync, At
<1>3. /\ proc' \in [Process -> Proc]
      /\ \/ proc'[p].pc = "off"
         \/ /\ proc'[p].pc = "enroll" /\ proc'[p].id = proc[p].id /\ proc'[p].token # 0
      /\ \A q \in Process : q # p => proc'[q] = proc[q]
  <2>1. proc \in [Process -> Proc] /\ issued \in Nat /\ "enroll" \in PC
    BY DEF Inv, TypeOK, Proc, Token, PC
  <2>2. CASE GoTo(p, "enroll") /\ proc[p].token # 0
    BY <2>1, <2>2, GoToStep
  <2>3. CASE Stop(p)
    BY <2>1, <2>3, StopStep
  <2> QED BY <2>2, <2>3 DEF Sync
<1> HIDE DEF h
<1>4. /\ durable' \in [Host -> File] /\ DiskInv' /\ FilesKept
      /\ \A g \in Host : seen[g].ack \/ durable'[g].ack => seen[g].ack \/ durable[g].ack
  BY <1>1, <1>2, <1>3, SyncStep DEF Sync, h, Offering
<1>5. TypeOK'
  BY <1>1, <1>2, <1>4, <1>3 DEF Inv, TypeOK, Proc
<1>6. RowsKept /\ NewRows /\ NewRequests
  BY <1>1 DEF RowsKept, NewRows, NewRequests
<1>7. NewKnowledge
  BY <1>1, <1>3, <1>4 DEF NewKnowledge, Knowing
<1> QED BY <1>5, <1>4, <1>6, <1>7, StepSafe

-----------------------------------------------------------------------------
(* Requests and answers *)

\* A process that goes on with the file it has, or stops, keeps DiskInv.
LEMMA ProcessStep ==
  ASSUME Inv, UNCHANGED <<seen, durable, gone, dir>>,
         \A q \in Process :
            \/ proc'[q] = proc[q]
            \/ proc'[q].pc \in Preparing
            \/ /\ proc[q].pc \in Offering /\ proc'[q].pc \in Offering
               /\ proc'[q].id = proc[q].id /\ proc'[q].token = proc[q].token
               /\ proc'[q].pc \in {"enroll", "await"} => proc[q].pc \in {"enroll", "await"}
  PROVE  DiskInv' /\ FilesKept
<1>1. UNCHANGED <<seen, durable, gone, dir>>
  OBVIOUS
<1>2. Agree' /\ FilesKept
  BY <1>1 DEF Inv, DiskInv, Agree, FilesKept
<1>3. Holds' /\ Lone'
  BY <1>1 DEF Inv, DiskInv, Holds, Lone, At, Offering
<1>4. Armed'
  BY DEF Inv, DiskInv, Armed
<1> QED BY <1>2, <1>3, <1>4 DEF DiskInv

LEMMA SendSafe ==
  ASSUME Inv, NEW p \in Process, Send(p)
  PROVE  Inv'
<1>1. UNCHANGED <<row, issued, seen, durable, home, gone, dir, config, configs, crashes>>
  BY DEF Send, server, disk, env, bounds
<1>2. At(p, "enroll") /\ wire' = wire \union {Request(p)} /\ Request(p).id = proc[p].id
  BY DEF Send, Request
<1>3. /\ proc' \in [Process -> Proc] /\ proc'[p].pc = "await" /\ proc'[p].id = proc[p].id
      /\ proc'[p].token = proc[p].token
      /\ \A q \in Process : q # p => proc'[q] = proc[q]
  <2>1. proc \in [Process -> Proc] /\ GoTo(p, "await") /\ "await" \in PC
    BY DEF Inv, TypeOK, Proc, Send, PC
  <2> QED BY <2>1, GoToStep
<1>4. DiskInv' /\ FilesKept
  BY <1>1, <1>2, <1>3, ProcessStep DEF Send, At, Offering
<1>5. TypeOK'
  <2>1. Request(p) \in [token : 1..issued, id : Identity]
    BY <1>2 DEF Inv, TypeOK, DiskInv, Armed, Request, At, Token
  <2> QED BY <1>1, <1>2, <1>3, <2>1 DEF Inv, TypeOK, Proc
<1>6. RowsKept /\ NewRows /\ NewRequests /\ NewKnowledge
  BY <1>1, <1>2, <1>3 DEF RowsKept, NewRows, NewRequests, NewKnowledge, Knowing
<1> QED BY <1>4, <1>5, <1>6, StepSafe

LEMMA NoAnswerSafe ==
  ASSUME Inv, NEW p \in Process, NoAnswer(p)
  PROVE  Inv'
<1>1. UNCHANGED <<row, issued, seen, durable, home, gone, dir, config, wire, configs, crashes>>
  BY DEF NoAnswer, server, disk, env, bounds
<1>2. /\ proc' \in [Process -> Proc] /\ proc'[p].pc = "enroll" /\ proc'[p].id = proc[p].id
      /\ proc'[p].token = proc[p].token
      /\ \A q \in Process : q # p => proc'[q] = proc[q]
  <2>1. proc \in [Process -> Proc] /\ GoTo(p, "enroll") /\ "enroll" \in PC
    BY DEF Inv, TypeOK, Proc, NoAnswer, PC
  <2> QED BY <2>1, GoToStep
<1>3. DiskInv' /\ FilesKept
  BY <1>1, <1>2, ProcessStep DEF NoAnswer, At, Offering
<1>4. TypeOK'
  BY <1>1, <1>2 DEF Inv, TypeOK, Proc, NoAnswer, At
<1>5. RowsKept /\ NewRows /\ NewRequests /\ NewKnowledge
  BY <1>1, <1>2 DEF RowsKept, NewRows, NewRequests, NewKnowledge, Knowing
<1> QED BY <1>3, <1>4, <1>5, StepSafe

\* Who receives an answer asked for it; a request may also be a late one.
LEMMA AnswerStep ==
  ASSUME Inv, NEW m, NEW pc \in {"accepted", "off"}, Answer(m, pc), UNCHANGED <<seen, durable, gone, dir>>
  PROVE  /\ proc' \in [Process -> Proc] /\ DiskInv' /\ FilesKept
         /\ \A q \in Process :
              /\ proc'[q].pc \notin Preparing => proc'[q].id # None
              /\ proc'[q].pc \in Knowing =>
                    \/ proc[q].pc \in Knowing /\ proc'[q].id = proc[q].id
                    \/ pc = "accepted" /\ proc'[q].id = m.id
<1>1. proc \in [Process -> Proc] /\ issued \in Nat /\ {"accepted", "off"} \subseteq PC
      /\ \A q \in Process : proc[q].pc \notin Preparing => proc[q].id # None
  BY DEF Inv, TypeOK, Proc, Token, PC
<1>2. CASE UNCHANGED proc
  BY <1>1, <1>2, ProcessStep
<1>3. ASSUME NEW p \in Process, At(p, "await"), Request(p) = m,
             IF pc = "off" THEN Stop(p) ELSE GoTo(p, pc)
      PROVE  /\ proc' \in [Process -> Proc] /\ DiskInv' /\ FilesKept
             /\ \A q \in Process :
                  /\ proc'[q].pc \notin Preparing => proc'[q].id # None
                  /\ proc'[q].pc \in Knowing =>
                        \/ proc[q].pc \in Knowing /\ proc'[q].id = proc[q].id
                        \/ pc = "accepted" /\ proc'[q].id = m.id
  <2>1. m.id = proc[p].id
    BY <1>3 DEF Request
  <2>2. /\ proc' \in [Process -> Proc]
        /\ \/ proc'[p].pc = "off"
           \/ /\ pc = "accepted" /\ proc'[p].pc = pc
              /\ proc'[p].id = proc[p].id /\ proc'[p].token = proc[p].token
        /\ \A q \in Process : q # p => proc'[q] = proc[q]
    <3>1. CASE pc = "off"
      BY <1>1, <1>3, <3>1, StopStep
    <3>2. CASE pc = "accepted"
      BY <1>1, <1>3, <3>2, GoToStep
    <3> QED BY <3>1, <3>2
  <2>3. DiskInv' /\ FilesKept
    BY <1>3, <2>2, ProcessStep DEF At, Offering
  <2> QED BY <1>1, <1>3, <2>1, <2>2, <2>3 DEF Knowing, At
<1> QED BY <1>2, <1>3 DEF Answer

\* A new identity is enrolled.
LEMMA EnrollSafe ==
  ASSUME Inv, NEW m \in wire, NEW r \in Receiver, Enroll(m, r)
  PROVE  Inv'
<1>1. UNCHANGED <<issued, seen, durable, home, gone, dir, config, wire, configs, crashes>>
  BY DEF Enroll, disk, env, bounds
<1>2. /\ row[r].connector = None /\ row[r].token # 0 /\ row[r].health = 0
      /\ \A s \in Receiver : row[s].connector # m.id
      /\ m.id \in Identity /\ m.id # None
  <2>1. m \in [token : 1..issued, id : Identity] /\ issued \in Nat
    BY DEF Inv, TypeOK, Token
  <2>2. row[r].health \in {0, 1}
    BY DEF Inv, TypeOK
  <2> QED BY <2>1, <2>2 DEF Inv, TypeOK, Enroll, Enrollable
<1>3. /\ row' \in Rows(0..issued)
      /\ row'[r].token = row[r].token /\ row'[r].connector = m.id /\ row'[r].health = 1
      /\ \A s \in Receiver : s # r => row'[s] = row[s]
  <2>1. row \in Rows(0..issued) /\ 1 \in {0, 1} /\ m.id \in Identity \union {None}
    BY <1>2 DEF Inv, TypeOK, Rows
  <2>2. row' = [row EXCEPT ![r].connector = m.id, ![r].health = row[r].health + 1]
    BY Zenon DEF Enroll
  <2>3. row[r].health + 1 = 1
    BY <1>2
  <2>4. row' = [row EXCEPT ![r].connector = m.id, ![r].health = 1]
    BY <2>2, <2>3, Zenon
  <2> QED BY <2>1, <2>4, Zenon DEF Rows
<1>4. /\ proc' \in [Process -> Proc] /\ DiskInv' /\ FilesKept
      /\ \A q \in Process :
            /\ proc'[q].pc \notin Preparing => proc'[q].id # None
            /\ proc'[q].pc \in Knowing =>
                  \/ proc[q].pc \in Knowing /\ proc'[q].id = proc[q].id
                  \/ proc'[q].id = m.id
  BY <1>1, AnswerStep DEF Enroll
<1>5. TypeOK'
  <2>1. /\ row' \in [Receiver -> [token : 0..issued, live : BOOLEAN,
                                  connector : Identity \union {None}, health : {0, 1}]]
        /\ \A s \in Receiver : /\ row'[s].connector # None => row'[s].token # 0
                               /\ (row'[s].health = 1) = (row'[s].connector # None)
    BY <1>2, <1>3 DEF Inv, TypeOK, Rows
  <2> QED BY <1>1, <1>4, <2>1 DEF Inv, TypeOK, Proc
<1>6. RowsKept /\ NewRows /\ NewRequests
  BY <1>1, <1>2, <1>3 DEF RowsKept, NewRows, NewRequests
<1>7. NewKnowledge
  BY <1>1, <1>3, <1>4 DEF NewKnowledge
<1> QED BY <1>4, <1>5, <1>6, <1>7, StepSafe

\* A retry is told of its enrollment.
LEMMA EnrollReplaysSafe ==
  ASSUME Inv, NEW m \in wire, EnrollReplays(m)
  PROVE  Inv'
<1>1. UNCHANGED <<row, issued, seen, durable, home, gone, dir, config, wire, configs, crashes>>
  BY DEF EnrollReplays, server, disk, env, bounds
<1>2. \E r \in Receiver : row[r].connector = m.id
  BY DEF EnrollReplays, Replay
<1>3. /\ proc' \in [Process -> Proc] /\ DiskInv' /\ FilesKept
      /\ \A q \in Process :
            /\ proc'[q].pc \notin Preparing => proc'[q].id # None
            /\ proc'[q].pc \in Knowing =>
                  \/ proc[q].pc \in Knowing /\ proc'[q].id = proc[q].id
                  \/ proc'[q].id = m.id
  BY <1>1, AnswerStep DEF EnrollReplays
<1>4. TypeOK'
  BY <1>1, <1>3 DEF Inv, TypeOK, Proc
<1>5. RowsKept /\ NewRows /\ NewRequests /\ NewKnowledge
  BY <1>1, <1>2, <1>3 DEF RowsKept, NewRows, NewRequests, NewKnowledge
<1> QED BY <1>3, <1>4, <1>5, StepSafe

LEMMA EnrollRefusedSafe ==
  ASSUME Inv, NEW m \in wire, EnrollRefused(m)
  PROVE  Inv'
<1>1. UNCHANGED <<row, issued, seen, durable, home, gone, dir, config, wire, configs, crashes>>
  BY DEF EnrollRefused, server, disk, env, bounds
<1>2. /\ proc' \in [Process -> Proc] /\ DiskInv' /\ FilesKept
      /\ \A q \in Process :
            /\ proc'[q].pc \notin Preparing => proc'[q].id # None
            /\ proc'[q].pc \in Knowing => proc[q].pc \in Knowing /\ proc'[q].id = proc[q].id
  BY <1>1, AnswerStep DEF EnrollRefused
<1>3. TypeOK'
  BY <1>1, <1>2 DEF Inv, TypeOK, Proc
<1>4. RowsKept /\ NewRows /\ NewRequests /\ NewKnowledge
  BY <1>1, <1>2 DEF RowsKept, NewRows, NewRequests, NewKnowledge
<1> QED BY <1>2, <1>3, <1>4, StepSafe

\* The acknowledgement: the file of an accepted process is its own.
LEMMA AcknowledgeSafe ==
  ASSUME Inv, NEW p \in Process, Acknowledge(p)
  PROVE  Inv'
<1> DEFINE h == dir[p]
           f == [id |-> proc[p].id, ack |-> TRUE]
<1>1. UNCHANGED <<row, issued, home, gone, dir, config, wire, configs, crashes>>
  BY DEF Acknowledge, server, env, bounds
<1>2. /\ h \in Host /\ seen[h] \in File /\ seen[h].id = proc[p].id /\ Intact(seen[h])
      /\ At(p, "accepted") /\ proc[p].id \in Identity
  <2>1. h \in Host /\ seen[h] \in File /\ seen[h].id = proc[p].id /\ proc[p].id \in Identity
    BY DEF Inv, TypeOK, DiskInv, Holds, Acknowledge, At, Offering
  <2> QED BY <2>1, FileFacts DEF Acknowledge
<1>3. f \in File /\ f.id = proc[p].id /\ f.ack
  BY <1>2, FileFacts
<1>4. /\ durable' = [durable EXCEPT ![h] = seen[h]]
      /\ seen' = [seen EXCEPT ![h] = f]
      /\ GoTo(p, "running") \/ GoTo(p, "renamed")
  <2>1. durable' = [durable EXCEPT ![h] = seen[h]]
    BY <1>2, Zenon DEF Acknowledge
  <2>2. seen' = [seen EXCEPT ![h] = f]
    BY <1>2, Zenon DEF Acknowledge
  <2>3. IF seen[h].ack THEN GoTo(p, "running") ELSE GoTo(p, "renamed")
    BY <1>2, Zenon DEF Acknowledge
  <2> QED BY <2>1, <2>2, <2>3, Zenon
<1> HIDE DEF f
<1>5. /\ durable' \in [Host -> File] /\ durable'[h] = seen[h]
      /\ seen' \in [Host -> File] /\ seen'[h] = f
      /\ \A g \in Host : g # h => durable'[g] = durable[g] /\ seen'[g] = seen[g]
  BY <1>2, <1>3, <1>4 DEF Inv, TypeOK
<1>6. /\ proc' \in [Process -> Proc]
      /\ proc'[p].pc \in {"running", "renamed"} /\ proc'[p].id = proc[p].id
      /\ \A q \in Process : q # p => proc'[q] = proc[q]
  <2>1. proc \in [Process -> Proc] /\ {"running", "renamed"} \subseteq PC
    BY DEF Inv, TypeOK, Proc, PC
  <2> QED BY <2>1, <1>4, GoToStep
<1> HIDE DEF h
<1>7. TypeOK'
  BY <1>1, <1>2, <1>5, <1>6 DEF Inv, TypeOK, Proc
<1>8. DiskInv'
  <2>1. Agree'
    BY <1>2, <1>3, <1>5 DEF Inv, DiskInv, Agree
  <2>2. Holds'
    <3> SUFFICES ASSUME NEW q \in Process
                 PROVE  /\ At(q, "opened")' => seen'[dir[q]] = Torn /\ durable'[dir[q]] = NoFile
                        /\ At(q, "written")' => seen'[dir[q]].id = proc'[q].id
                        /\ proc'[q].pc \in Offering => seen'[dir[q]].id = proc'[q].id
                                                       /\ durable'[dir[q]].id = proc'[q].id
      BY <1>1 DEF Holds, At
    <3>1. CASE q = p
      BY <3>1, <1>2, <1>3, <1>5, <1>6 DEF At, Offering, h
    <3>2. CASE q # p
      <4>1. proc'[q] = proc[q] /\ dir[q] \in Host
        BY <3>2, <1>6 DEF Inv, TypeOK
      <4>2. CASE dir[q] = h
        BY <4>1, <4>2, <1>2, <1>3, <1>5, FileFacts DEF Inv, DiskInv, Holds, At, Offering
      <4>3. CASE dir[q] # h
        BY <4>1, <4>3, <1>5 DEF Inv, DiskInv, Holds, At
      <4> QED BY <4>2, <4>3
    <3> QED BY <3>1, <3>2
  <2>3. Lone'
    BY <1>1, <1>6 DEF Inv, DiskInv, Lone, At
  <2>4. Armed'
    BY <1>6 DEF Inv, DiskInv, Armed, At
  <2> QED BY <2>1, <2>2, <2>3, <2>4 DEF DiskInv
<1>9. FilesKept /\ RowsKept /\ NewRows /\ NewRequests
  BY <1>1, <1>2, <1>3, <1>5 DEF FilesKept, RowsKept, NewRows, NewRequests
<1>10. NewKnowledge
  <2>1. \E r \in Receiver : row'[r].connector = proc[p].id
    BY <1>1, <1>2 DEF Inv, ProcessKnows, Knowing, At, IsEnrolled
  <2>2. \A g \in Host : seen'[g].ack \/ durable'[g].ack =>
            \/ (seen[g].ack \/ durable[g].ack) /\ seen'[g].id = seen[g].id
            \/ seen'[g].id = proc[p].id
    BY <1>3, <1>5
  <2> QED BY <1>1, <1>6, <2>1, <2>2 DEF NewKnowledge, Knowing
<1> QED BY <1>7, <1>8, <1>9, <1>10, StepSafe

\* The directory is forced to disk after the acknowledgement.
LEMMA SyncAckSafe ==
  ASSUME Inv, NEW p \in Process, SyncAck(p)
  PROVE  Inv'
<1> DEFINE h == dir[p]
<1>1. UNCHANGED <<row, issued, seen, home, gone, dir, config, wire, configs, crashes>>
  BY DEF SyncAck, server, env, bounds
<1>2. /\ h \in Host /\ seen[h] \in File /\ seen[h].id = proc[p].id /\ At(p, "renamed")
      /\ proc[p].id \in Identity
  BY DEF Inv, TypeOK, DiskInv, Holds, SyncAck, At, Offering
<1>3. /\ proc' \in [Process -> Proc] /\ proc'[p].pc = "running" /\ proc'[p].id = proc[p].id
      /\ \A q \in Process : q # p => proc'[q] = proc[q]
  <2>1. proc \in [Process -> Proc] /\ GoTo(p, "running") /\ "running" \in PC
    BY DEF Inv, TypeOK, Proc, SyncAck, PC
  <2> QED BY <2>1, GoToStep
<1> HIDE DEF h
<1>4. /\ durable' \in [Host -> File] /\ DiskInv' /\ FilesKept
      /\ \A g \in Host : seen[g].ack \/ durable'[g].ack => seen[g].ack \/ durable[g].ack
  BY <1>1, <1>2, <1>3, SyncStep DEF SyncAck, h, Offering
<1>5. TypeOK'
  BY <1>1, <1>2, <1>4, <1>3 DEF Inv, TypeOK, Proc
<1>6. RowsKept /\ NewRows /\ NewRequests
  BY <1>1 DEF RowsKept, NewRows, NewRequests
<1>7. NewKnowledge
  <2>1. proc[p].pc \in Knowing
    BY <1>2 DEF Knowing, At
  <2> QED BY <1>1, <1>3, <1>4, <2>1 DEF NewKnowledge
<1> QED BY <1>5, <1>4, <1>6, <1>7, StepSafe

-----------------------------------------------------------------------------
(* Failures *)

LEMMA CrashSafe ==
  ASSUME Inv, NEW p \in Process, Crash(p)
  PROVE  Inv'
<1>1. UNCHANGED <<row, issued, seen, durable, home, gone, dir, config, wire, configs>>
  BY DEF Crash, server, disk, env
<1>2. /\ proc' \in [Process -> Proc] /\ proc'[p].pc = "off"
      /\ \A q \in Process : q # p => proc'[q] = proc[q]
  <2>1. proc \in [Process -> Proc] /\ issued \in Nat /\ Stop(p)
    BY DEF Inv, TypeOK, Proc, Token, Crash
  <2> QED BY <2>1, StopStep
<1>3. DiskInv' /\ FilesKept
  BY <1>1, <1>2, ProcessStep
<1>4. crashes' \in 0..MaxCrash
  BY DEF Inv, TypeOK, Crash
<1>5. TypeOK'
  BY <1>1, <1>2, <1>4 DEF Inv, TypeOK, Proc
<1>6. RowsKept /\ NewRows /\ NewRequests /\ NewKnowledge
  BY <1>1, <1>2 DEF RowsKept, NewRows, NewRequests, NewKnowledge, Knowing
<1> QED BY <1>3, <1>5, <1>6, StepSafe

\* What is lost was never offered, or is lost with its directory: a file that
\* remains is of the identity that was on disk.
LEMMA PowerLossSafe ==
  ASSUME Inv, NEW h \in Host, PowerLoss(h)
  PROVE  Inv'
<1>1. UNCHANGED <<row, issued, dir, config, wire, configs>>
  BY DEF PowerLoss, server, env
<1>2. crashes' \in 0..MaxCrash
  BY DEF Inv, TypeOK, PowerLoss
<1>3. PICK file, place :
        /\ Leaves(h, file, place) /\ place \in {"absent", "forced"}
        /\ \/ file \in Remains(h) /\ gone' = gone
           \/ file = NoFile /\ gone' = gone \union ({seen[h].id} \intersect Identity)
  BY DEF PowerLoss
<1>4. /\ file \in File
      /\ \/ file = durable[h] \/ file = seen[h] \/ (file = Torn /\ durable[h] = NoFile)
         \/ file = NoFile /\ (seen[h].id \in Identity => seen[h].id \in gone')
      /\ seen[h] \in File /\ durable[h] \in File
      /\ gone \subseteq gone' /\ gone' \subseteq Identity
  BY <1>3, FileFacts DEF Remains, Inv, TypeOK
<1>5. /\ seen' \in [Host -> File] /\ seen'[h] = file
      /\ durable' \in [Host -> File] /\ durable'[h] = file
      /\ home' \in [Host -> {"absent", "unforced", "forced"}]
      /\ \A g \in Host : g # h => durable'[g] = durable[g] /\ seen'[g] = seen[g]
  BY <1>3, <1>4 DEF Inv, TypeOK, Leaves
<1>6. /\ proc' \in [Process -> Proc]
      /\ \A q \in Process : IF dir[q] = h THEN proc'[q].pc = "off" ELSE proc'[q] = proc[q]
  <2>1. Off \in Proc /\ Off.pc = "off" /\ proc \in [Process -> Proc]
    BY DEF Off, Proc, PC, Inv, TypeOK, Token
  <2> QED BY <2>1 DEF PowerLoss
<1>7. TypeOK'
  BY <1>1, <1>2, <1>4, <1>5, <1>6 DEF Inv, TypeOK, Proc
<1>8. DiskInv'
  <2>1. Agree'
    BY <1>5 DEF Inv, DiskInv, Agree
  <2>2. Holds'
    BY <1>1, <1>5, <1>6 DEF Inv, TypeOK, DiskInv, Holds, At, Offering
  <2>3. Lone' /\ Armed'
    BY <1>1, <1>6 DEF Inv, DiskInv, Lone, Armed, At
  <2> QED BY <2>1, <2>2, <2>3 DEF DiskInv
<1>9. FilesKept
  BY <1>4, <1>5, FileFacts DEF FilesKept
<1>10. RowsKept /\ NewRows /\ NewRequests
  BY <1>1 DEF RowsKept, NewRows, NewRequests
<1>11. NewKnowledge
  <2>1. file.ack => (seen[h].ack \/ durable[h].ack) /\ file.id = seen[h].id
    BY <1>4, FileFacts DEF Inv, DiskInv, Agree
  <2> QED BY <1>1, <1>5, <1>6, <2>1 DEF NewKnowledge, Knowing
<1> QED BY <1>7, <1>8, <1>9, <1>10, <1>11, StepSafe

-----------------------------------------------------------------------------
(* Every step *)

LEMMA NextInv == Inv /\ [Next]_vars => Inv'
<1> SUFFICES ASSUME Inv, [Next]_vars PROVE Inv'
  OBVIOUS
<1>1. CASE UNCHANGED vars
  BY <1>1 DEF vars, server, disk, env, bounds, Inv, TypeOK, DiskInv, Agree, Holds, Lone, Armed,
              Sent, EnrolledKept, ProcessKnows, FileKnows, OneReceiver, Held, Kept, IsEnrolled, At
<1>2. ASSUME NEW r \in Receiver, Issue(r) \/ Reissue(r) \/ TokenExpires(r) PROVE Inv'
  BY <1>2, NewTokenSafe, TokenExpiresSafe DEF Issue, Reissue
<1>3. ASSUME NEW h \in Host, Configure(h) \/ PowerLoss(h) PROVE Inv'
  BY <1>3, ConfigureSafe, PowerLossSafe
<1>4. ASSUME NEW p \in Process, Start(p) \/ PrepareFails(p) \/ Proceed(p) \/ Crash(p) PROVE Inv'
  BY <1>4, PrepareSafe, StartLoadsSafe, StartCreatesSafe, WriteSafe, SyncSafe, SendSafe, NoAnswerSafe,
     AcknowledgeSafe, SyncAckSafe, CrashSafe DEF Start, Proceed
<1>5. ASSUME NEW m \in wire, Serve(m) PROVE Inv'
  BY <1>5, EnrollSafe, EnrollReplaysSafe, EnrollRefusedSafe DEF Serve
<1> QED BY <1>1, <1>2, <1>3, <1>4, <1>5 DEF Next

\* Of an enrolled receiver no step changes the connector or the token.
LEMMA Stands ==
  ASSUME Inv, [Next]_vars, NEW r \in Receiver, row[r].connector # None
  PROVE  row'[r].connector = row[r].connector /\ row'[r].token = row[r].token
<1>1. row \in Rows(0..issued)
  BY DEF Inv, TypeOK, Rows
<1>2. CASE UNCHANGED row
  BY <1>2
<1>3. ASSUME NEW s \in Receiver, row[s].connector = None, NewToken(s)
      PROVE  row'[r] = row[r]
  BY <1>1, <1>3, Zenon DEF NewToken, Rows
<1>4. ASSUME NEW s \in Receiver, TokenExpires(s)
      PROVE  row'[r].connector = row[r].connector /\ row'[r].token = row[r].token
  BY <1>1, <1>4, Zenon DEF TokenExpires, Rows
<1>5. ASSUME NEW m \in wire, NEW s \in Receiver, Enroll(m, s)
      PROVE  row'[r] = row[r]
  BY <1>1, <1>5, Zenon DEF Enroll, Enrollable, Rows
<1> QED
  BY <1>2, <1>3, <1>4, <1>5
     DEF Next, vars, server, Issue, Reissue, Configure, PowerLoss, Start, Look, Make, ForceParents,
         PrepareFails, StartLoads, StartStops, StartCreates,
         Proceed, Write, Sync, Send, NoAnswer, Acknowledge, SyncAck, Crash, Serve, EnrollReplays,
         EnrollRefused

LEMMA SpecInv == Spec => []Inv
<1> QED BY InitInv, NextInv, PTL DEF Spec

-----------------------------------------------------------------------------
(* The state directory. As long as nothing failed, the one process of a    *)
(* directory leaves it unforced only while it prepares it.                  *)

Sole(h) == /\ crashes = 0
           /\ \A p, q \in Process : dir[p] = h /\ dir[q] = h => p = q

\* There is no file without a directory.
Housed == \A h \in Host : home[h] = "absent" => seen[h] = NoFile

Empty == \A h \in Host : Sole(h) /\ home[h] = "unforced" => seen[h] = NoFile

Stage(pc, place) ==
    /\ pc = "off" => place # "unforced"
    /\ pc = "missing" => place = "absent"
    /\ pc = "made" => place # "absent"
    /\ pc \notin {"off", "missing", "made"} => place = "forced"

Staged == \A p \in Process : Sole(dir[p]) => Stage(proc[p].pc, home[dir[p]])

\* What was lost with its directory took two failures or two processes.
Excused == gone # {} => crashes > 1 \/ Shared

HomeInv == Housed /\ Empty /\ Staged /\ Excused

LEMMA InitHome == Init => HomeInv
<1> SUFFICES ASSUME Init PROVE HomeInv
  OBVIOUS
<1>1. /\ \A p \in Process : proc[p].pc = "off" /\ dir[p] \in Host
      /\ \A h \in Host : seen[h] = NoFile /\ home[h] \in {"absent", "forced"}
      /\ gone = {}
  BY DEF Init, Off
<1> QED BY <1>1 DEF HomeInv, Housed, Empty, Staged, Stage, Excused

\* A step of one process that loses nothing, and after which its directory
\* is in a stage it should be in unless something failed or it is shared.
LEMMA HomeStep ==
  ASSUME Inv, HomeInv, NEW p \in Process, UNCHANGED <<gone, dir>>,
         crashes' \in Nat, crashes' >= crashes,
         \A q \in Process : q # p => proc'[q] = proc[q],
         \A h \in Host : h # dir[p] => seen'[h] = seen[h] /\ home'[h] = home[h],
         home'[dir[p]] = "absent" => seen'[dir[p]] = NoFile,
         crashes' = 0 /\ Sole(dir[p]) =>
            /\ home'[dir[p]] = "unforced" => seen'[dir[p]] = NoFile
            /\ Stage(proc'[p].pc, home'[dir[p]])
  PROVE  HomeInv'
<1>1. dir \in [Process -> Host] /\ crashes \in Nat
  BY DEF Inv, TypeOK
<1>2. \A h \in Host : Sole(h)' => Sole(h) /\ crashes' = 0
  BY <1>1 DEF Sole
<1>3. Housed'
  BY <1>1 DEF HomeInv, Housed
<1>4. Empty'
  BY <1>1, <1>2 DEF HomeInv, Empty
<1>5. Staged'
  <2> SUFFICES ASSUME NEW q \in Process, Sole(dir[q])' PROVE Stage(proc'[q].pc, home'[dir[q]])
    BY DEF Staged, Stage
  <2>1. Sole(dir[q]) /\ crashes' = 0
    BY <1>1, <1>2 DEF Sole
  <2>2. CASE q = p
    BY <2>1, <2>2
  <2>3. CASE q # p
    <3>1. dir[q] # dir[p]
      BY <2>1, <2>3 DEF Sole
    <3> QED BY <1>1, <2>1, <2>3, <3>1 DEF HomeInv, Staged
  <2> QED BY <2>2, <2>3
<1>6. Excused'
  BY <1>1 DEF HomeInv, Excused, Shared
<1> QED BY <1>3, <1>4, <1>5, <1>6 DEF HomeInv

\* A step of a process that has its directory and leaves it as it is.
LEMMA LaterStep ==
  ASSUME Inv, HomeInv, NEW p \in Process, UNCHANGED <<home, gone, dir, crashes>>,
         proc[p].pc \notin {"off", "missing", "made"}, proc'[p].pc \notin {"missing", "made"},
         \A q \in Process : q # p => proc'[q] = proc[q],
         \A h \in Host : h # dir[p] => seen'[h] = seen[h],
         home[dir[p]] = "absent" => seen'[dir[p]] = NoFile
  PROVE  HomeInv'
<1>1. crashes \in Nat
  BY DEF Inv, TypeOK
<1>2. Sole(dir[p]) => home[dir[p]] = "forced"
  BY DEF HomeInv, Staged, Stage
<1>3. Sole(dir[p]) => Stage(proc'[p].pc, home'[dir[p]])
  BY <1>2 DEF Stage
<1>4. Sole(dir[p]) => home'[dir[p]] # "unforced"
  BY <1>2
<1> QED BY <1>1, <1>3, <1>4, HomeStep

LEMMA PrepareHome ==
  ASSUME Inv, HomeInv, NEW p \in Process, Look(p) \/ Make(p) \/ ForceParents(p)
  PROVE  HomeInv'
<1>1. UNCHANGED <<seen, gone, dir, crashes>> /\ crashes \in Nat
  BY DEF Inv, TypeOK, Look, Make, ForceParents, disk, env, bounds
<1>2. /\ dir[p] \in Host /\ home \in [Host -> {"absent", "unforced", "forced"}]
      /\ proc \in [Process -> Proc] /\ Preparing \subseteq PC
  BY DEF Inv, TypeOK, Proc, PC
<1>3. home[dir[p]] = "absent" => seen[dir[p]] = NoFile
  BY <1>2 DEF HomeInv, Housed
<1>4. Sole(dir[p]) => /\ home[dir[p]] = "unforced" => seen[dir[p]] = NoFile
                      /\ Stage(proc[p].pc, home[dir[p]])
  BY <1>2 DEF HomeInv, Empty, Staged
<1>5. CASE Look(p)
  <2>1. GoTo(p, IF home[dir[p]] = "absent" THEN "missing" ELSE "found") /\ At(p, "off")
        /\ UNCHANGED home
    BY <1>5 DEF Look, disk
  <2>2. /\ proc'[p].pc = IF home[dir[p]] = "absent" THEN "missing" ELSE "found"
        /\ \A q \in Process : q # p => proc'[q] = proc[q]
    BY <1>2, <2>1, GoToStep
  <2>3. Sole(dir[p]) => Stage(proc'[p].pc, home[dir[p]])
    BY <1>2, <1>4, <2>1, <2>2 DEF Stage, At
  <2> QED BY <1>1, <1>3, <1>4, <2>1, <2>2, <2>3, HomeStep
<1>6. CASE Make(p)
  <2>1. /\ GoTo(p, IF At(p, "missing") THEN "made" ELSE "ready")
        /\ proc[p].pc \in {"found", "missing"}
        /\ home' = [home EXCEPT ![dir[p]] = IF @ = "absent" THEN "unforced" ELSE @]
    BY <1>6 DEF Make
  <2>2. /\ proc'[p].pc = IF At(p, "missing") THEN "made" ELSE "ready"
        /\ \A q \in Process : q # p => proc'[q] = proc[q]
    BY <1>2, <2>1, GoToStep
  <2>3. /\ home'[dir[p]] = IF home[dir[p]] = "absent" THEN "unforced" ELSE home[dir[p]]
        /\ \A h \in Host : h # dir[p] => home'[h] = home[h]
    BY <1>2, <2>1
  <2>4. Sole(dir[p]) => /\ home'[dir[p]] = "unforced" => seen[dir[p]] = NoFile
                        /\ Stage(proc'[p].pc, home'[dir[p]])
    BY <1>3, <1>4, <2>1, <2>2, <2>3 DEF Stage, At
  <2> QED BY <1>1, <2>2, <2>3, <2>4, HomeStep
<1>7. CASE ForceParents(p)
  <2>1. /\ GoTo(p, "ready") /\ At(p, "made")
        /\ home' = [home EXCEPT ![dir[p]] = IF @ = "unforced" THEN "forced" ELSE @]
    BY <1>7 DEF ForceParents
  <2>2. proc'[p].pc = "ready" /\ \A q \in Process : q # p => proc'[q] = proc[q]
    BY <1>2, <2>1, GoToStep
  <2>3. /\ home'[dir[p]] = IF home[dir[p]] = "unforced" THEN "forced" ELSE home[dir[p]]
        /\ \A h \in Host : h # dir[p] => home'[h] = home[h]
    BY <1>2, <2>1
  <2>4. Sole(dir[p]) => Stage(proc'[p].pc, home'[dir[p]])
    BY <1>2, <1>4, <2>1, <2>2, <2>3 DEF Stage, At
  <2> QED BY <1>1, <1>3, <2>2, <2>3, <2>4, HomeStep
<1> QED BY <1>5, <1>6, <1>7

\* The process that has created the file writes it, and so on.
LEMMA FileHome ==
  ASSUME Inv, HomeInv, NEW p \in Process,
         \/ StartLoads(p) \/ StartStops(p) \/ StartCreates(p) \/ Write(p) \/ Sync(p)
         \/ Send(p) \/ NoAnswer(p) \/ Acknowledge(p) \/ SyncAck(p)
  PROVE  HomeInv'
<1>1. UNCHANGED <<home, gone, dir, crashes>>
  BY DEF StartLoads, StartStops, StartCreates, Write, Sync, Send, NoAnswer, Acknowledge, SyncAck,
         disk, env, bounds
<1>2. /\ dir[p] \in Host /\ proc \in [Process -> Proc] /\ issued \in Nat /\ seen \in [Host -> File]
  BY DEF Inv, TypeOK, Proc, Token
<1>3. home[dir[p]] = "absent" => seen[dir[p]] = NoFile
  BY <1>2 DEF HomeInv, Housed
<1>4. \A h \in Host : h # dir[p] => seen'[h] = seen[h]
  BY <1>2 DEF StartLoads, StartStops, StartCreates, Write, Sync, Send, NoAnswer, Acknowledge, SyncAck,
              disk
<1>5. home[dir[p]] = "absent" => seen'[dir[p]] = NoFile
  <2>1. CASE UNCHANGED seen
    BY <2>1, <1>3
  <2>2. CASE StartCreates(p)
    BY <2>2 DEF StartCreates
  <2>3. CASE Write(p)
    BY <2>3, <1>3, FileFacts DEF Write, Inv, DiskInv, Holds
  <2>4. CASE Acknowledge(p)
    <3>1. seen[dir[p]].id \in Identity
      BY <2>4, <1>2 DEF Acknowledge, Inv, TypeOK, DiskInv, Holds, At, Offering
    <3> QED BY <3>1, <1>3, FileFacts
  <2> QED BY <2>1, <2>2, <2>3, <2>4
          DEF StartLoads, StartStops, Sync, Send, NoAnswer, SyncAck, disk
<1>6. proc[p].pc \notin {"off", "missing", "made"}
  BY DEF StartLoads, StartStops, StartCreates, Write, Sync, Send, NoAnswer, Acknowledge, SyncAck, At
<1>7. proc'[p].pc \notin {"missing", "made"} /\ \A q \in Process : q # p => proc'[q] = proc[q]
  <2>1. CASE Stop(p)
    BY <2>1, <1>2, StopStep
  <2>2. ASSUME NEW c \in PC \ Preparing, GoTo(p, c)
        PROVE  proc'[p].pc \notin {"missing", "made"} /\ \A q \in Process : q # p => proc'[q] = proc[q]
    BY <2>2, <1>2, GoToStep
  <2>3. ASSUME NEW x, proc' = [proc EXCEPT ![p] = x], x.pc \notin {"missing", "made"}
        PROVE  proc'[p].pc \notin {"missing", "made"} /\ \A q \in Process : q # p => proc'[q] = proc[q]
    BY <2>3, <1>2
  <2>4. Loaded(dir[p]).pc \notin {"missing", "made"}
    BY DEF Loaded, Started, Off
  <2>5. \A i : Started("opened", dir[p], i).pc \notin {"missing", "made"}
    BY DEF Started
  <2>6. {"written", "enroll", "await", "running", "renamed"} \subseteq PC \ Preparing
    BY DEF PC
  <2> QED BY <2>1, <2>2, <2>3, <2>4, <2>5, <2>6
          DEF StartLoads, StartStops, StartCreates, Write, Sync, Send, NoAnswer, Acknowledge, SyncAck
<1> QED BY <1>1, <1>4, <1>5, <1>6, <1>7, LaterStep

\* The process that has its answer is one that asked.
LEMMA ServeHome ==
  ASSUME Inv, HomeInv, NEW m \in wire, Serve(m)
  PROVE  HomeInv'
<1>1. UNCHANGED <<seen, home, gone, dir, crashes>>
  BY DEF Serve, Enroll, EnrollReplays, EnrollRefused, disk, env, bounds
<1>2. \E pc \in {"accepted", "off"} : Answer(m, pc)
  BY DEF Serve, Enroll, EnrollReplays, EnrollRefused
<1>3. CASE UNCHANGED proc
  BY <1>1, <1>3 DEF HomeInv, Housed, Empty, Staged, Stage, Excused, Sole, Shared
<1>4. ASSUME NEW p \in Process, At(p, "await"), Stop(p) \/ GoTo(p, "accepted")
      PROVE  HomeInv'
  <2>1. /\ dir[p] \in Host /\ proc \in [Process -> Proc] /\ issued \in Nat /\ "accepted" \in PC
    BY DEF Inv, TypeOK, Proc, Token, PC
  <2>2. proc'[p].pc \in {"off", "accepted"} /\ \A q \in Process : q # p => proc'[q] = proc[q]
    BY <1>4, <2>1, StopStep, GoToStep
  <2>3. home[dir[p]] = "absent" => seen[dir[p]] = NoFile
    BY <2>1 DEF HomeInv, Housed
  <2> QED BY <1>1, <1>4, <2>2, <2>3, LaterStep DEF At
<1> QED BY <1>2, <1>3, <1>4 DEF Answer

\* After a failure nothing is asked of the directories but that no file is
\* without one.
LEMMA FailHome ==
  ASSUME Inv, HomeInv, NEW p \in Process, Crash(p) \/ PrepareFails(p)
  PROVE  HomeInv'
<1>1. /\ dir[p] \in Host /\ proc \in [Process -> Proc] /\ issued \in Nat /\ crashes \in Nat
      /\ home \in [Host -> {"absent", "unforced", "forced"}]
  BY DEF Inv, TypeOK, Proc, Token
<1>2. UNCHANGED <<seen, gone, dir>> /\ crashes' = crashes + 1
  BY DEF Crash, PrepareFails, disk, env
<1>3. \A q \in Process : q # p => proc'[q] = proc[q]
  BY <1>1, StopStep DEF Crash, PrepareFails
<1>4. /\ \A h \in Host : h # dir[p] => home'[h] = home[h]
      /\ home'[dir[p]] = "absent" => seen[dir[p]] = NoFile
  BY <1>1 DEF Crash, PrepareFails, disk, HomeInv, Housed
<1> QED BY <1>1, <1>2, <1>3, <1>4, HomeStep

\* A first failure loses no identity of a directory with one process.
LEMMA PowerLossHome ==
  ASSUME Inv, HomeInv, NEW h \in Host, PowerLoss(h)
  PROVE  HomeInv'
<1>1. /\ crashes \in Nat /\ crashes' = crashes + 1 /\ dir' = dir
      /\ seen \in [Host -> File] /\ durable \in [Host -> File]
      /\ home \in [Host -> {"absent", "unforced", "forced"}]
  BY DEF Inv, TypeOK, PowerLoss, env
<1>2. Empty' /\ Staged'
  BY <1>1 DEF Empty, Staged, Sole
<1>3. Housed'
  <2>1. PICK file, place :
          /\ Leaves(h, file, place)
          /\ file = NoFile \/ (file \in Remains(h) /\ (place = "absent" => home[h] = "absent"))
    BY DEF PowerLoss
  <2>2. home[h] = "absent" => seen[h] = NoFile /\ durable[h] = NoFile
    BY <1>1, FileFacts DEF HomeInv, Housed, Inv, DiskInv, Agree
  <2>3. place = "absent" => file = NoFile
    BY <2>1, <2>2 DEF Remains
  <2> QED BY <1>1, <2>1, <2>3 DEF Leaves, HomeInv, Housed
<1>4. Excused'
  <2>1. CASE gone' = gone
    BY <2>1, <1>1 DEF HomeInv, Excused, Shared
  <2>2. CASE home[h] = "unforced" /\ gone' = gone \union ({seen[h].id} \intersect Identity)
    <3>1. CASE crashes > 0
      BY <3>1, <1>1 DEF Excused
    <3>2. CASE Shared
      BY <3>2, <1>1 DEF Excused, Shared
    <3>3. CASE crashes = 0 /\ ~Shared
      <4>1. Sole(h)
        BY <3>3 DEF Sole, Shared
      <4>2. seen[h] = NoFile
        BY <2>2, <4>1 DEF HomeInv, Empty
      <4>3. gone' = gone
        BY <2>2, <4>2, FileFacts
      <4> QED BY <4>3, <1>1 DEF HomeInv, Excused, Shared
    <3> QED BY <1>1, <3>1, <3>2, <3>3
  <2> QED BY <2>1, <2>2 DEF PowerLoss
<1> QED BY <1>2, <1>3, <1>4 DEF HomeInv

LEMMA NextHome == Inv /\ HomeInv /\ [Next]_vars => HomeInv'
<1> SUFFICES ASSUME Inv, HomeInv, [Next]_vars PROVE HomeInv'
  OBVIOUS
<1>1. CASE UNCHANGED <<seen, home, gone, dir, proc, crashes>>
  BY <1>1 DEF HomeInv, Housed, Empty, Staged, Stage, Excused, Sole, Shared
<1>2. ASSUME NEW p \in Process, Start(p) \/ PrepareFails(p) \/ Proceed(p) \/ Crash(p) PROVE HomeInv'
  BY <1>2, PrepareHome, FileHome, FailHome DEF Start, Proceed
<1>3. ASSUME NEW h \in Host, PowerLoss(h) PROVE HomeInv'
  BY <1>3, PowerLossHome
<1>4. ASSUME NEW m \in wire, Serve(m) PROVE HomeInv'
  BY <1>4, ServeHome
<1> QED
  BY <1>1, <1>2, <1>3, <1>4
     DEF Next, vars, disk, env, bounds, Issue, Reissue, NewToken, TokenExpires, Configure

LEMMA SpecHome == Spec => []HomeInv
<1> QED BY InitHome, NextHome, SpecInv, PTL DEF Spec

-----------------------------------------------------------------------------
(* The theorems *)

\* The variables have their types, and every enrolled receiver its one
\* first health job.
THEOREM TypeCorrect == Spec => []TypeOK
<1>1. Inv => TypeOK
  BY DEF Inv
<1> QED BY <1>1, SpecInv, PTL

\* An identity the server enrolled is on the disk of a host through every
\* crash and power loss, but for a state directory whose entry was not forced
\* to disk because its maker failed or another process was at it (identity.ts,
\* prepareStateDirectory, loadOrCreateIdentity).
THEOREM Durable == Spec => []EnrolledIsDurable
<1>1. Inv /\ HomeInv => EnrolledIsDurable
  BY DEF Inv, EnrolledKept, Held, Kept, HomeInv, Excused, EnrolledIsDurable
<1> QED BY <1>1, SpecInv, SpecHome, PTL

\* An acknowledged identity file is of a receiver's connector (identity.ts,
\* markEnrollmentAcknowledged).
THEOREM Acknowledged == Spec => []AcknowledgedIsEnrolled
<1>1. Inv => AcknowledgedIsEnrolled
  BY DEF Inv, FileKnows, IsEnrolled, AcknowledgedIsEnrolled
<1> QED BY <1>1, SpecInv, PTL

\* No identity enrolls for two receivers (receiver-connection-service.ts,
\* enroll).
THEOREM One == Spec => []OneReceiver
<1>1. Inv => OneReceiver
  BY DEF Inv
<1> QED BY <1>1, SpecInv, PTL

\* Neither an issue or reissue nor a late request or a second connector
\* replaces the connector of an enrolled receiver, or the token it is
\* recognised by (receiver-connection-service.ts, issue, reissue, enroll).
THEOREM ForGood == Spec => EnrolledForGood
<1>1. Inv /\ [Next]_vars => [\A r \in Receiver : row[r].connector # None =>
          row'[r].connector = row[r].connector /\ row'[r].token = row[r].token]_vars
  BY Stands
<1> QED BY <1>1, SpecInv, PTL DEF Spec, EnrolledForGood
=============================================================================
