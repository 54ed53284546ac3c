---------------------------- MODULE SecretStore ----------------------------
(* The private key files of the GitHub Apps (secret-store.ts): one object  *)
(* per manifest attempt, published by link(2) from a temporary file and    *)
(* never replaced, and the reconciliation of an object that a crash left   *)
(* with both its names.                                                    *)
(*                                                                         *)
(* A key stands for the file that holds it: its bytes are complete and     *)
(* forced to disk before the first link, so a name either leads to all of  *)
(* them or to nothing. A name is only durable once the directory has been  *)
(* forced to disk too. Every file operation may fail, a process may die    *)
(* between any two, and a power loss keeps each unforced change or not.    *)
(*                                                                         *)
(* The store makes its directory when there is none and never forces the   *)
(* parent, so a directory it made may go in a power loss with all it holds.*)
(* One that is on the disk itself is anchored: the operator made it, or it *)
(* has come through a power loss.                                          *)
(*                                                                         *)
(* Ownership, mode and symlink checks guard against others who write to    *)
(* the directory; nobody does here. A check and the forcing of the         *)
(* directory that follows it are one step.                                 *)
EXTENDS Naturals, FiniteSets

CONSTANTS
    Attempt,    \* manifest attempts; each has one reference, derived from its id
    Request,    \* requests to the callback, all of them the process may run
    MaxKey,     \* bound: conversions of one attempt
    MaxFault,   \* bound: operations on files, the database or GitHub that fail
    None

ASSUME SecretStoreAssumption == MaxKey \in Nat \ {0} /\ MaxFault \in Nat

VARIABLES
    final,    \* the key the reference of an attempt leads to, 0 for no file
    temp,     \* the keys of an attempt that have a temporary name
    disk,     \* both, as a power loss that leaves the directory would leave them
    anchored, \* the name of the directory is on the disk
    req,      \* the requests, each with the point it has reached
    faults

files == <<final, temp, disk, anchored>>

Key == 1..MaxKey
NoKey == 0

(* What a request does to the files: a put from "write" to "confirm" with  *)
(* "cleanup" when it fails, a reconciliation from "inspect" to "read".     *)
Putting == {"write", "link", "unlink", "confirm", "cleanup"}
Reconciling == {"inspect", "recover", "settle", "read"}
Result == {"stored", "failed", "retry", "lost"}
PC == {"idle", "exchange"} \union Putting \union Reconciling \union Result

Idle == [pc |-> "idle", attempt |-> None, key |-> NoKey, ours |-> FALSE]

StoreTypeOK ==
    /\ final \in [Attempt -> 0..MaxKey]
    /\ temp \in [Attempt -> SUBSET Key]
    /\ disk \in [Attempt -> [final : 0..MaxKey, temp : SUBSET Key]]
    /\ req \in [Request -> [pc : PC, attempt : Attempt \union {None},
                            key : 0..MaxKey, ours : BOOLEAN]]
    /\ anchored \in BOOLEAN
    /\ faults \in 0..MaxFault

StoreInit ==
    /\ final = [a \in Attempt |-> NoKey] /\ temp = [a \in Attempt |-> {}]
    /\ disk = [a \in Attempt |-> [final |-> NoKey, temp |-> {}]]
    /\ anchored \in BOOLEAN
    /\ req = [r \in Request |-> Idle] /\ faults = 0

At(r, pc) == req[r].pc = pc
GoTo(r, pc) == req' = [req EXCEPT ![r].pc = pc]
Fault == faults < MaxFault /\ faults' = faults + 1

Links(a, k) == Cardinality({n \in {"final"} : final[a] = k} \union {n \in {"temp"} : k \in temp[a]})

(* readPrivateKey: the object has one name. *)
Readable(a) == final[a] # NoKey /\ Links(a, final[a]) = 1

Add(a, k) == temp' = [temp EXCEPT ![a] = @ \union {k}]
Drop(a, k) == temp' = [temp EXCEPT ![a] = @ \ {k}]

(* syncDirectory: the names as they are become durable, in a directory     *)
(* that is on the disk itself.                                             *)
SyncDirectory == disk' = [a \in Attempt |-> [final |-> final[a], temp |-> temp[a]]]
NoSync == disk' = disk

-----------------------------------------------------------------------------
(* putPrivateKeyForManifestAttempt *)

WriteTemporary(r) ==
    /\ At(r, "write")
    /\ \/ Add(req[r].attempt, req[r].key) /\ GoTo(r, "link") /\ UNCHANGED faults
       \/ /\ Fault /\ GoTo(r, "cleanup")
          /\ temp' = temp \/ Add(req[r].attempt, req[r].key)
    /\ UNCHANGED <<final, disk>>

(* The link never replaces an object; one that is there is not this key,   *)
(* a key being converted once.                                             *)
Publish(r) ==
    /\ At(r, "link")
    /\ \/ /\ IF final[req[r].attempt] = NoKey
             THEN /\ final' = [final EXCEPT ![req[r].attempt] = req[r].key]
                  /\ GoTo(r, "unlink")
             ELSE GoTo(r, "cleanup") /\ UNCHANGED final
          /\ UNCHANGED faults
       \/ Fault /\ GoTo(r, "cleanup") /\ UNCHANGED final
    /\ UNCHANGED <<temp, disk>>

(* ours: this request has taken the temporary name away itself, and may    *)
(* therefore take the published one away too.                              *)
UnlinkTemporary(r) ==
    /\ At(r, "unlink")
    /\ \/ /\ req' = [req EXCEPT ![r].pc = "confirm",
                                ![r].ours = req[r].key \in temp[req[r].attempt]]
          /\ Drop(req[r].attempt, req[r].key) /\ UNCHANGED faults
       \/ Fault /\ GoTo(r, "cleanup") /\ UNCHANGED temp
    /\ UNCHANGED <<final, disk>>

Published(a, k) == final[a] = k /\ Links(a, k) = 1

Confirm(r) ==
    /\ At(r, "confirm")
    /\ \/ /\ IF Published(req[r].attempt, req[r].key)
             THEN SyncDirectory /\ GoTo(r, "stored")
             ELSE NoSync /\ GoTo(r, "cleanup")
          /\ UNCHANGED faults
       \/ Fault /\ NoSync /\ GoTo(r, "cleanup")
    /\ UNCHANGED <<final, temp>>

(* Mutant: the published object is withdrawn whoever took the temporary name. *)
CleanUp_EvenAmbiguous(r) ==
    LET a == req[r].attempt
        k == req[r].key
    IN  /\ At(r, "cleanup") /\ GoTo(r, "failed")
        /\ Drop(a, k)
        /\ final' = [final EXCEPT ![a] = IF @ = k THEN NoKey ELSE @]
        /\ UNCHANGED faults /\ NoSync

(* The finally block of a put that failed; its own failure is swallowed. *)
CleanUp(r) ==
    LET a == req[r].attempt
        k == req[r].key
    IN  /\ At(r, "cleanup") /\ GoTo(r, "failed")
        /\ \/ /\ Drop(a, k)
              /\ final' = [final EXCEPT ![a] = IF req[r].ours /\ @ = k THEN NoKey ELSE @]
              /\ UNCHANGED faults
           \/ Fault /\ UNCHANGED <<final, temp>>
        /\ NoSync

-----------------------------------------------------------------------------
(* verifyPrivateKeyForManifestAttempt. A raw file error is retryable; a    *)
(* missing object and a contradiction are not.                             *)

(* Mutant: an object with both its names is taken for a contradiction. *)
Inspect_OneName(r) ==
    LET a == req[r].attempt
    IN  /\ At(r, "inspect")
        /\ \/ /\ GoTo(r, IF Readable(a) THEN "read" ELSE "lost")
              /\ UNCHANGED faults
           \/ Fault /\ GoTo(r, "retry")
        /\ UNCHANGED <<final, temp, disk>>

Inspect(r) ==
    LET a == req[r].attempt
    IN  /\ At(r, "inspect")
        /\ \/ /\ GoTo(r, IF final[a] = NoKey THEN "lost"
                         ELSE IF Links(a, final[a]) = 1 THEN "read" ELSE "recover")
              /\ UNCHANGED faults
           \/ Fault /\ GoTo(r, "retry")
        /\ UNCHANGED <<final, temp, disk>>

(* The temporary name is taken away by this request, or has been by another *)
(* one: before the directory was listed, a contradiction, or after, a race  *)
(* that is lost in peace if the object is still published.                  *)
RecoverTemporary(r) ==
    LET a == req[r].attempt
    IN  /\ At(r, "recover")
        /\ \/ /\ Drop(a, final[a]) /\ UNCHANGED faults
              /\ \/ final[a] # NoKey /\ GoTo(r, "settle")
                 \/ final[a] \notin temp[a] /\ GoTo(r, "lost")
           \/ Fault /\ GoTo(r, "retry") /\ UNCHANGED temp
        /\ UNCHANGED <<final, disk>>

Settle(r) ==
    /\ At(r, "settle")
    /\ \/ /\ UNCHANGED faults
          /\ IF Published(req[r].attempt, req[r].key)
             THEN SyncDirectory /\ GoTo(r, "read")
             ELSE (SyncDirectory \/ NoSync) /\ GoTo(r, "lost")
       \/ Fault /\ NoSync /\ GoTo(r, "retry")
    /\ UNCHANGED <<final, temp>>

(* The object is read and forced to disk, then its digest is compared. *)
ReadDurably(r) ==
    /\ At(r, "read")
    /\ \/ /\ UNCHANGED faults
          /\ IF Published(req[r].attempt, req[r].key)
             THEN SyncDirectory /\ GoTo(r, "stored")
             ELSE NoSync /\ GoTo(r, "lost")
       \/ Fault /\ NoSync /\ GoTo(r, "retry")
    /\ UNCHANGED <<final, temp>>

(* Nothing the store does anchors its directory. *)
StoreStep(r) ==
    /\ \/ WriteTemporary(r) \/ Publish(r) \/ UnlinkTemporary(r) \/ Confirm(r) \/ CleanUp(r)
       \/ Inspect(r) \/ RecoverTemporary(r) \/ Settle(r) \/ ReadDurably(r)
    /\ UNCHANGED anchored

-----------------------------------------------------------------------------
(* Power loss: every change of a name since the last forcing of the        *)
(* directory is on the disk or is not.                                     *)
LosePower ==
    /\ final' \in [Attempt -> 0..MaxKey] /\ temp' \in [Attempt -> SUBSET Key]
    /\ \A a \in Attempt :
          /\ final'[a] \in {final[a], disk[a].final}
          /\ temp[a] \intersect disk[a].temp \subseteq temp'[a]
          /\ temp'[a] \subseteq temp[a] \union disk[a].temp
    /\ disk' = [a \in Attempt |-> [final |-> final'[a], temp |-> temp'[a]]]
    /\ anchored' = TRUE

(* A power loss that takes the directory; the next process makes it again. *)
LoseDirectory ==
    /\ ~anchored /\ UNCHANGED anchored
    /\ final' = [a \in Attempt |-> NoKey] /\ temp' = [a \in Attempt |-> {}]
    /\ disk' = [a \in Attempt |-> [final |-> NoKey, temp |-> {}]]
=============================================================================
