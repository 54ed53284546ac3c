------------------------- MODULE ObservationProofs -------------------------
(***************************************************************************)
(* Theorems about what an incident is told, and by whom.                   *)
(*                                                                         *)
(* About Evidence, for every set of requests, deliveries, business states  *)
(* and artifacts and any number of turns: the snapshot, the observations   *)
(* and the verified repair are the attributed answers of their turns, the  *)
(* snapshot and the workflow events tell the same story, and a request     *)
(* corrects one turn at most.  The argument has two halves.  What a        *)
(* collector checks of the events of a turn, whatever they are, makes the  *)
(* answer it takes the one answer to the one question: that is about       *)
(* TurnEvents alone.  And a call works on a turn no other call works on,   *)
(* which has ended before anything is taken from it and never changes      *)
(* after: so what is stored stays what its turn says.                      *)
(*                                                                         *)
(* About ReadJobs, for every set of jobs and connector processes, every    *)
(* lease, deadline and number of attempts: what is recorded was observed   *)
(* under the last lease of its job, the receiver's health is that of the   *)
(* completed health job leased last, and an outcome, once there, is final, *)
(* as is the answer to a report.  No process and no report carries a       *)
(* generation its job has not reached, and a job that is leased again      *)
(* leaves the generations of all of them behind: a report that is refused  *)
(* is refused for good, its generation is past or its time is.             *)
(***************************************************************************)
EXTENDS Evidence, ReadJobs, TLAPS

------------------------------------------------------------------------------
(* What a collector takes from the events of a turn                        *)

\* What a collector of an investigation checks makes the answer attributed.
LEMMA InvestigationAttributed ==
  ASSUME NEW log, NEW t, NEW m, NEW r, NEW aside,
         "skill" \in aside, "create" \notin aside, "read" \notin aside,
         Unique(log, ToolCalls(log), "call"),
         OnlyThread(log, t), CreatedByRoot(log, t), Within(log, t, aside \union {"read"}),
         OneRead(log, t, m), Correlated(log), ResponsesFor(log, m) = {r},
         log[m].args = "exact"
  PROVE  Attributed(log, aside, log[r].text)
<1> DEFINE root == {n \in ToolCalls(log) : log[n].thread # log[t].thread}
<1>1. /\ m \in To(log, "read") /\ log[m].thread = log[t].thread
      /\ t \in Of(log, "thread.created") /\ r \in Of(log, "tool.response")
      /\ r \in ResponsesFor(log, m)
  BY DEF OneRead, OnlyThread, ResponsesFor
<1>2. PICK c \in root : {n \in root : log[n].tool = "create"} = {c} /\ log[c].call = log[t].call
  BY DEF CreatedByRoot
<1>3. \A n \in root : log[n].thread = log[t].parent /\ log[n].tool \in {"create", "skill"}
  BY DEF CreatedByRoot
<1>4. \A n \in ToolCalls(log) : n \notin root => log[n].tool \in aside \union {"read"}
  BY DEF Within
<1>5. c \in To(log, "create") /\ log[c].thread = log[t].parent /\ log[c].thread # log[t].thread
  BY <1>2, <1>3 DEF To
<1>6. To(log, "create") = {c}
  BY <1>2, <1>4, <1>5 DEF To
<1>7. To(log, "read") = {m}
  BY <1>1, <1>3, <1>4 DEF To, OneRead
<1>8. ToolCalls(log) \ {c, m} \subseteq UNION {To(log, tool) : tool \in aside}
  <2> SUFFICES ASSUME NEW n \in ToolCalls(log), n # c, n # m
               PROVE  \E tool \in aside : n \in To(log, tool)
    OBVIOUS
  <2>1. n \in To(log, log[n].tool) /\ log[n].tool # "create" /\ log[n].tool # "read"
    BY <1>6, <1>7 DEF To
  <2> QED BY <1>3, <1>4, <2>1
<1>9. {k \in Of(log, "tool.response") : log[k].call = log[m].call} = {r}
  <2>1. log[r].call = log[m].call
    BY <1>1 DEF ResponsesFor
  <2>2. ASSUME NEW k \in Of(log, "tool.response"), log[k].call = log[m].call
        PROVE  k = r
    <3>1. PICK n \in ToolCalls(log) : k \in ResponsesFor(log, n)
      BY DEF Correlated
    <3>2. log[n].call = log[m].call /\ m \in ToolCalls(log)
      BY <1>1, <2>2, <3>1 DEF ResponsesFor, To
    <3>3. n = m
      BY <3>2 DEF Unique
    <3> QED BY <3>1, <3>3
  <2> QED BY <1>1, <2>1, <2>2
<1>10. Of(log, "thread.created") = {t} /\ log[m].thread # log[c].thread /\ log[c].call = log[t].call
  BY <1>1, <1>2, <1>5 DEF OnlyThread
<1> QED
  BY <1>1, <1>5, <1>6, <1>7, <1>8, <1>9, <1>10, Zenon DEF Attributed

\* Whatever list of events a turn has, an answer that is taken from it is the
\* answer to its one question.
LEMMA ProviderSound ==
  ASSUME NEW log, NEW o \in ProviderOutcome(log)
  PROVE  \/ o = Refused("rejected") \/ o = Refused("extra")
         \/ \E answer, clash : o = Taken(answer, clash, TRUE)
<1> DEFINE found == {f \in Of(log, "thread.created") \X To(log, "read")
                                                      \X Of(log, "tool.response") :
                       ProviderTurn(log, f[1], f[2], f[3])}
           outcome(f) == CASE log[f[2]].args = "exact" ->
                     Taken(log[f[3]].text, log[f[1]].id = log[f[3]].id,
                           Attributed(log, {"skill", "schema"}, log[f[3]].text))
                [] log[f[2]].args = "extra" -> Refused("extra")
                [] OTHER -> Refused("rejected")
<1>1. o = Refused("rejected") \/ \E f \in found : o = outcome(f)
  BY DEF ProviderOutcome
<1>2. ASSUME NEW f \in found, log[f[2]].args = "exact"
      PROVE  Attributed(log, {"skill", "schema"}, log[f[3]].text)
  <2>1. ProviderTurn(log, f[1], f[2], f[3])
    OBVIOUS
  <2>2. {"skill", "schema"} \union {"read"} = {"skill", "schema", "read"}
    OBVIOUS
  <2> QED BY <1>2, <2>1, <2>2, InvestigationAttributed DEF ProviderTurn, ProviderEvents, Answered
<1> QED BY <1>1, <1>2

\* Likewise of a receiver investigation.
LEMMA ReceiverSound ==
  ASSUME NEW log, NEW o \in ReceiverOutcome(log)
  PROVE  o = Refused("rejected") \/ \E answer : o = Taken(answer, FALSE, TRUE)
<1> DEFINE found == {f \in Of(log, "thread.created") \X To(log, "read")
                                                      \X Of(log, "tool.response") :
                       ReceiverTurn(log, f[1], f[2], f[3]) /\ log[f[2]].args = "exact"}
<1>1. \/ o = Refused("rejected")
      \/ \E f \in found : o = Taken(log[f[3]].text, FALSE, Attributed(log, {"skill"}, log[f[3]].text))
  BY DEF ReceiverOutcome
<1>2. ASSUME NEW f \in found
      PROVE  Attributed(log, {"skill"}, log[f[3]].text)
  <2>1. ReceiverTurn(log, f[1], f[2], f[3]) /\ log[f[2]].args = "exact"
    OBVIOUS
  <2>2. {"skill"} \union {"read"} = {"skill", "read"}
    OBVIOUS
  <2> QED
    BY <2>1, <2>2, InvestigationAttributed DEF ReceiverTurn, ReceiverEvents, CreatedByMain, Answered
<1> QED BY <1>1, <1>2

\* A recovery artifact that is taken was asked for once and is the last word.
LEMMA RecoverySound ==
  ASSUME NEW S, NEW log \in Seq(S), NEW o \in RecoveryOutcome(log)
  PROVE  o = Refused("rejected") \/ \E answer \in Artifact : o = Taken(answer, FALSE, TRUE)
<1> DEFINE found == {f \in To(log, "artifact") \X Of(log, "tool.response") \X Of(log, "model.message") :
                       RecoveryTurn(log, f[1], f[2], f[3])}
<1>1. \/ o = Refused("rejected")
      \/ \E f \in found : o = Taken(log[f[3]].text, FALSE, Authoritative(log, log[f[3]].text))
  BY DEF RecoveryOutcome
<1>2. ASSUME NEW f \in found
      PROVE  Authoritative(log, log[f[3]].text) /\ log[f[3]].text \in Artifact
  <2> DEFINE m == f[1]
             r == f[2]
             n == f[3]
  <2>1. /\ RecoveryTurn(log, m, r, n) /\ m \in To(log, "artifact")
        /\ n \in Of(log, "model.message") /\ r \in Of(log, "tool.response")
    OBVIOUS
  <2> HIDE DEF m, r, n
  <2>2. log[n].text = log[r].text /\ log[n].text \in Artifact
    BY <2>1 DEF RecoveryTurn, ValidArtifact
  <2>3. \A k \in Of(log, "tool.response") : log[k].call = log[m].call => k = r
    <3> SUFFICES ASSUME NEW k \in Of(log, "tool.response"), log[k].call = log[m].call
                 PROVE  k = r
      OBVIOUS
    <3>1. PICK j \in ToolCalls(log) : k \in ResponsesFor(log, j)
      BY <2>1 DEF RecoveryTurn, Correlated
    <3>2. m \in ToolCalls(log) /\ log[j].call = log[m].call
      BY <2>1, <3>1 DEF ResponsesFor, To
    <3>3. j = m
      BY <2>1, <3>2 DEF RecoveryTurn, RecoveryEvents, Unique
    <3> QED BY <2>1, <3>1, <3>3 DEF RecoveryTurn
  <2>4. \A k \in Of(log, "model.message") : k > n => log[k].text = "none"
    <3>1. Of(log, "model.message") \subseteq Nat
      BY DEF Of
    <3>2. \A k \in Of(log, "model.message") : log[k].text # "none" /\ k >= n => k = n
      BY <2>1 DEF RecoveryTurn, LastText
    <3> SUFFICES ASSUME NEW k \in Of(log, "model.message"), k > n
                 PROVE  log[k].text = "none"
      OBVIOUS
    <3>3. k \in Nat /\ n \in Nat
      BY <2>1, <3>1
    <3>4. k >= n /\ k # n
      BY <3>3
    <3> QED BY <3>2, <3>4
  <2>5. ToolCalls(log) \subseteq To(log, "artifact") \union To(log, "sandbox")
    BY <2>1 DEF RecoveryTurn, RecoveryEvents, To
  <2>6. Authoritative(log, log[n].text)
    BY <2>1, <2>2, <2>3, <2>4, <2>5, Zenon DEF Authoritative
  <2> QED BY <2>2, <2>6 DEF n
<1> QED BY <1>1, <1>2

\* Whatever a turn did, in whatever order its events come: if one of the three
\* collectors takes an answer from it, that answer is attributed (or, of a
\* recovery, authoritative) in the turn as a whole.
THEOREM TakenIsAttributed ==
  ASSUME NEW S, NEW log \in Seq(S),
         NEW o \in ProviderOutcome(log) \union ReceiverOutcome(log) \union RecoveryOutcome(log),
         o.is = "taken"
  PROVE  o.sound = TRUE
<1>1. \A why : Refused(why).is = why
  BY DEF Refused
<1>2. o # Refused("rejected") /\ o # Refused("extra")
  BY <1>1
<1>3. \A answer, clash : Taken(answer, clash, TRUE).sound = TRUE
  BY DEF Taken
<1>4. CASE o \in ProviderOutcome(log)
  BY <1>2, <1>3, <1>4, ProviderSound, Zenon
<1>5. CASE o \in ReceiverOutcome(log)
  BY <1>2, <1>3, <1>5, ReceiverSound, Zenon
<1>6. CASE o \in RecoveryOutcome(log)
  BY <1>2, <1>3, <1>6, RecoverySound, Zenon
<1> QED BY <1>4, <1>5, <1>6

\* A list that deviates from a list of events is a list.
LEMMA DeviationsAreLists ==
  ASSUME NEW S, NEW log \in Seq(S), NEW stray, NEW list \in Deviations(log, stray)
  PROVE  \E T : list \in Seq(T)
<1> DEFINE With(n) == {[log[n] EXCEPT !.id = log[k].id] : k \in DOMAIN log}
           Renamed == UNION {With(n) : n \in DOMAIN log}
           T == S \union stray \union Renamed
<1>1. log \in Seq(T) /\ \A n \in DOMAIN log : log[n] \in T
  OBVIOUS
<1>2. ASSUME NEW n \in DOMAIN log
      PROVE  /\ SubSeq(log, 1, n - 1) \in Seq(T) /\ SubSeq(log, n, Len(log)) \in Seq(T)
             /\ SubSeq(log, n + 1, Len(log)) \in Seq(T)
  <2> HIDE DEF T
  <2>1. n \in 1..Len(log) /\ Len(log) \in Nat
    BY <1>1
  <2> QED BY <1>1, <2>1
<1>3. ASSUME NEW e \in T
      PROVE  <<e>> \in Seq(T)
  <2> HIDE DEF T
  <2> QED BY <1>3
<1>4. ASSUME NEW n \in DOMAIN log, NEW e \in T,
             list \in {RemoveAt(log, n), InsertAt(log, n, e), ReplaceAt(log, n, e)}
      PROVE  list \in Seq(T)
  <2> HIDE DEF T
  <2>1. CASE list = RemoveAt(log, n)
    BY <1>2, <2>1 DEF RemoveAt
  <2>2. CASE list = InsertAt(log, n, e)
    <3>1. SubSeq(log, 1, n - 1) \o <<e>> \in Seq(T)
      BY <1>2, <1>3
    <3> QED BY <1>2, <2>2, <3>1 DEF InsertAt
  <2>3. CASE list = ReplaceAt(log, n, e)
    BY <1>1, <2>3 DEF ReplaceAt
  <2> QED BY <1>4, <2>1, <2>2, <2>3
<1>5. ASSUME NEW n \in DOMAIN log, NEW k \in DOMAIN log, list = [log EXCEPT ![n].id = log[k].id]
      PROVE  list \in Seq(T)
  <2>1. [log[n] EXCEPT !.id = log[k].id] \in With(n)
    BY Zenon
  <2>2. With(n) \subseteq Renamed
    <3> HIDE DEF With
    <3> QED OBVIOUS
  <2>3. [log[n] EXCEPT !.id = log[k].id] \in T
    BY <2>1, <2>2, Zenon
  <2> HIDE DEF T
  <2> QED BY <1>1, <1>5, <2>3
<1>6. ASSUME NEW n \in 1..(Len(log) - 1),
             list = [log EXCEPT ![n] = log[n + 1], ![n + 1] = log[n]]
      PROVE  list \in Seq(T)
  <2> HIDE DEF T
  <2>1. n \in DOMAIN log /\ n + 1 \in DOMAIN log
    BY <1>1
  <2> QED BY <1>1, <1>6, <2>1
<1>7. CASE list \in {InsertAt(log, n, e) : n \in DOMAIN log, e \in stray \union {log[k] : k \in DOMAIN log}}
  <2>1. stray \union {log[k] : k \in DOMAIN log} \subseteq T
    BY <1>1
  <2> HIDE DEF T
  <2>2. PICK n \in DOMAIN log, e \in T : list = InsertAt(log, n, e)
    BY <1>7, <2>1
  <2> QED BY <1>4, <2>2
<1>8. CASE list \in {ReplaceAt(log, n, e) : n \in DOMAIN log, e \in stray}
  <2>1. PICK n \in DOMAIN log, e \in stray : list = ReplaceAt(log, n, e)
    BY <1>8
  <2>2. e \in T
    OBVIOUS
  <2> HIDE DEF T
  <2> QED BY <1>4, <2>1, <2>2
<1>9. CASE list \in {RemoveAt(log, n) : n \in DOMAIN log}
  BY <1>1, <1>4, <1>9
<1> QED BY <1>1, <1>5, <1>6, <1>7, <1>8, <1>9 DEF Deviations

\* The lists of a recovery turn are lists.
LEMMA RecoveryListsAreLists == \A log \in RecoveryLists : \E T : log \in Seq(T)
<1> SUFFICES ASSUME NEW log \in RecoveryLists
             PROVE  \E T : log \in Seq(T)
  OBVIOUS
<1>1. PICK answer, text, stray : log \in Deviations(Recovery(answer, text), stray)
  BY DEF RecoveryLists, Lists
<1>2. ASSUME NEW a, NEW b, NEW c, NEW d, NEW e, NEW f, NEW g, NEW h
      PROVE  <<a, b, c, d, e, f, g, h>> \in Seq({a, b, c, d, e, f, g, h})
  OBVIOUS
<1>3. PICK S : Recovery(answer, text) \in Seq(S)
  BY <1>2 DEF Recovery
<1> QED BY <1>1, <1>3, DeviationsAreLists

\* What a turn of a kind may come to: an answer that is taken is sound, a
\* repair is a valid artifact, and only a provider's turn has extra arguments.
Sound(o, kind) ==
    \/ o = Refused("rejected")
    \/ kind = "provider" /\ o = Refused("extra")
    \/ \E answer, clash : o = Taken(answer, clash, TRUE) /\ (kind = "recovery" => answer \in Artifact)

\* What the collectors do not look into, the answer, changes nothing.
LEMMA AnsweringSound ==
  ASSUME NEW outcomes, NEW answers, NEW kind \in {"provider", "receiver"},
         \A o \in outcomes : Sound(o, kind), NEW o \in Answering(outcomes, answers)
  PROVE  Sound(o, kind)
<1>1. CASE o \in outcomes
  BY <1>1
<1>2. CASE o \notin outcomes
  <2>1. PICK p \in outcomes, a \in answers : p.is = "taken" /\ o = Taken(a, p.clash, p.sound)
    BY <1>2 DEF Answering
  <2>2. PICK answer, clash : p = Taken(answer, clash, TRUE)
    <3>1. \A why : Refused(why).is = why
      BY DEF Refused
    <3>2. p # Refused("rejected") /\ p # Refused("extra")
      BY <2>1, <3>1
    <3>3. Sound(p, kind)
      OBVIOUS
    <3> QED BY <3>2, <3>3, Zenon DEF Sound
  <2>3. o = Taken(a, clash, TRUE)
    BY <2>1, <2>2 DEF Taken
  <2> QED BY <2>3 DEF Sound
<1> QED BY <1>1, <1>2

\* Every outcome of a turn is sound.
LEMMA OutcomesSound ==
  ASSUME NEW kind \in Kind, NEW o \in Outcomes[kind]
  PROVE  Sound(o, kind)
<1>1. CASE kind = "provider"
  <2>1. \A log : \A p \in ProviderOutcome(log) : Sound(p, kind)
    BY <1>1, ProviderSound DEF Sound
  <2>2. \A p \in UNION {ProviderOutcome(log) : log \in ProviderLists} : Sound(p, kind)
    BY <2>1
  <2> QED BY <1>1, <2>2, AnsweringSound DEF Outcomes, ProviderTurns
<1>2. CASE kind = "receiver"
  <2>1. \A log : \A p \in ReceiverOutcome(log) : Sound(p, kind)
    BY <1>2, ReceiverSound DEF Sound
  <2>2. \A p \in UNION {ReceiverOutcome(log) : log \in ReceiverLists} : Sound(p, kind)
    BY <2>1
  <2> QED BY <1>2, <2>2, AnsweringSound DEF Outcomes, ReceiverTurns
<1>3. CASE kind = "recovery"
  <2>1. PICK log \in RecoveryLists : o \in RecoveryOutcome(log)
    BY <1>3 DEF Outcomes, RecoveryTurns
  <2>2. PICK S : log \in Seq(S)
    BY RecoveryListsAreLists
  <2> QED BY <1>3, <2>1, <2>2, RecoverySound DEF Sound
<1> QED BY <1>1, <1>2, <1>3 DEF Kind

------------------------------------------------------------------------------
(* The invariant of an incident's evidence                                 *)

TurnRow == [kind : Kind, got : {Running} \union UNION {Outcomes[kind] : kind \in Kind}]
Observation == [answer : Business \ {Bad}, turn : Turn]
CallType == [pc : {"idle", "ready", "start", "live", "collect", "capture"}, kind : Kind,
             attempt : 1..2, turn : 0..MaxTurn, first : 0..MaxTurn]

\* A call that has a turn, which it may share with others.
HasTurn == {"live", "collect", "capture"}

Ended(t) == t \in DOMAIN turns /\ turns[t].got # Running

Contradicted ==
    /\ evidence # NoEvidence /\ evidence.answer = Failed
    /\ \E n \in DOMAIN observations : observations[n].answer = Once

\* The first turn of a corrected call is refused for its extra arguments, and
\* that is on record.
Corrected(c) ==
    LET t == call[c].first IN
    /\ t \in DOMAIN turns /\ turns[t].got.is = "extra"
    /\ [type |-> "INVESTIGATION_FAILED", turn |-> t] \in events

CallOK(c) ==
    LET t == call[c].turn IN
    /\ call[c].pc \notin HasTurn => t = 0
    /\ call[c].pc \in HasTurn => t \in DOMAIN turns /\ turns[t].kind = call[c].kind
    /\ call[c].pc \in {"collect", "capture"} => turns[t].got # Running
    /\ At(c, "capture") => /\ Is(c, "provider") /\ turns[t].got.is = "taken"
                           /\ [type |-> "INVESTIGATOR_STARTED", turn |-> t] \in events
    /\ At(c, "ready") => Is(c, "recovery")
    /\ ~At(c, "idle") /\ Is(c, "receiver") => evidence # NoEvidence
    /\ ~At(c, "idle") /\ Is(c, "recovery") => Contradicted
    /\ call[c].attempt = 2 => Corrected(c)

\* An event names a turn; one that says more than that it failed names a turn
\* from which an answer was taken, whichever call it was that read it.
EventOK(e) ==
    /\ e.turn \in DOMAIN turns
    /\ e.type # "INVESTIGATION_FAILED" => turns[e.turn].got.is = "taken"
    /\ e.type \notin {"INVESTIGATION_FAILED", "INVESTIGATOR_STARTED"} => evidence # NoEvidence

RowsOK ==
    /\ evidence # NoEvidence => evidence.turn \in DOMAIN turns /\ From(evidence, "provider")
    /\ \A n \in DOMAIN observations :
          observations[n].turn \in DOMAIN turns /\ From(observations[n], "receiver")
    /\ observations # <<>> => evidence # NoEvidence
    /\ attempt.state # "NONE" => Contradicted
    /\ attempt.state = "REPAIR_VERIFIED" =>
          attempt.turn \in DOMAIN turns /\ From(attempt, "recovery")

EvidenceInv ==
    /\ EvidenceTypeOK /\ turns \in Seq(TurnRow) /\ observations \in Seq(Observation)
    /\ \A c \in Call : CallOK(c)
    /\ \A e \in events : EventOK(e)
    /\ RowsOK
    /\ Provenance

USE EvidenceAssumption

------------------------------------------------------------------------------
(* How a step changes an incident's evidence                               *)

\* A turn that was started, and what it came to.
LEMMA TurnFacts ==
  ASSUME EvidenceInv, NEW t \in DOMAIN turns
  PROVE  /\ t \in Turn /\ t # 0
         /\ turns[t] \in TurnRow
         /\ turns[t].got \in Outcomes[turns[t].kind] \union {Running}
<1>1. turns \in Seq(TurnRow) /\ Len(turns) <= MaxTurn
  BY DEF EvidenceInv, EvidenceTypeOK
<1>2. t \in 1..Len(turns) /\ Len(turns) \in Nat
  BY <1>1
<1>3. t \in Turn /\ t # 0
  BY <1>1, <1>2 DEF Turn
<1>4. turns[t].got \in Outcomes[turns[t].kind] \union {Running}
  BY DEF EvidenceInv, EvidenceTypeOK
<1> QED BY <1>1, <1>3, <1>4

\* What is taken from a turn is sound.
LEMMA TakenSound ==
  ASSUME EvidenceInv, NEW t \in DOMAIN turns, turns[t].got.is = "taken"
  PROVE  /\ turns[t].got.sound
         /\ turns[t].kind = "recovery" => turns[t].got.answer \in Artifact
<1> DEFINE o == turns[t].got
           kind == turns[t].kind
<1>1. kind \in Kind /\ o \in Outcomes[kind] \union {Running}
  BY TurnFacts DEF TurnRow
<1> HIDE DEF o, kind
<1>2. \A why : Refused(why).is = why
  BY DEF Refused
<1>3. o.is = "taken"
  BY DEF o
<1>4. o # Running /\ o # Refused("rejected") /\ o # Refused("extra")
  BY <1>2, <1>3 DEF Running
<1>5. Sound(o, kind)
  BY <1>1, <1>4, OutcomesSound
<1>6. PICK answer, clash : o = Taken(answer, clash, TRUE) /\ (kind = "recovery" => answer \in Artifact)
  BY <1>4, <1>5, Zenon DEF Sound
<1>7. o.answer = answer /\ o.sound = TRUE
  BY <1>6 DEF Taken
<1>8. o.sound
  BY <1>7, Zenon
<1>9. kind = "recovery" => o.answer \in Artifact
  BY <1>6, <1>7
<1> QED BY <1>8, <1>9, Zenon DEF o, kind

\* The call that steps is in its new state, the others are as they were.
LEMMA CallIs ==
  ASSUME EvidenceInv, NEW c \in Call, NEW s \in CallType, call' = [call EXCEPT ![c] = s]
  PROVE  /\ call' \in [Call -> CallType] /\ call'[c] = s
         /\ \A d \in Call \ {c} : call'[d] = call[d]
  BY DEF EvidenceInv, EvidenceTypeOK, CallType

\* A step of a call keeps what concerns the others: events, evidence and the
\* contradiction only come, and turns keep what they came to.
LEMMA CallsSafe ==
  ASSUME EvidenceInv, NEW c \in Call, NEW s \in CallType, call' = [call EXCEPT ![c] = s],
         UNCHANGED turns, events \subseteq events',
         evidence # NoEvidence => evidence' # NoEvidence,
         Contradicted => Contradicted',
         CallOK(c)'
  PROVE  \A d \in Call : CallOK(d)'
<1>1. \A d \in Call \ {c} : call'[d] = call[d]
  BY CallIs
<1>2. \A d \in Call : CallOK(d)
  BY DEF EvidenceInv
<1>3. ASSUME NEW d \in Call \ {c}
      PROVE  CallOK(d)'
  <2>1. call'[d] = call[d] /\ CallOK(d)
    BY <1>1, <1>2
  <2>2. Corrected(d) => Corrected(d)'
    BY <2>1 DEF Corrected
  <2> QED BY <2>1, <2>2 DEF CallOK, At, Is
<1> QED BY <1>3

\* Events that say what an investigator did or that it failed.
LEMMA ReportsSafe ==
  ASSUME EvidenceInv, UNCHANGED <<turns, evidence>>, events \subseteq events',
         \A e \in events' : e \in events \/ \E t \in DOMAIN turns :
            \/ e = [type |-> "INVESTIGATION_FAILED", turn |-> t]
            \/ e = [type |-> "INVESTIGATOR_STARTED", turn |-> t] /\ turns[t].got.is = "taken"
  PROVE  /\ events' \in SUBSET [type : Workflow, turn : Turn]
         /\ \A e \in events' : EventOK(e)'
         /\ Provenance'
<1>1. \A t \in DOMAIN turns : t \in Turn
  BY TurnFacts
<1>2. events' \in SUBSET [type : Workflow, turn : Turn]
  BY <1>1 DEF EvidenceInv, EvidenceTypeOK, Workflow
<1>3. \A e \in events' : EventOK(e)'
  BY DEF EvidenceInv, EventOK
<1>4. \A e \in events' : e.type \notin {"INVESTIGATION_FAILED", "INVESTIGATOR_STARTED"} => e \in events
  OBVIOUS
<1>5. Provenance'
  <2>1. /\ Says1("EVIDENCE_CAPTURED")' = Says1("EVIDENCE_CAPTURED")
        /\ Says1("EVIDENCE_REOBSERVED")' = Says1("EVIDENCE_REOBSERVED")
        /\ Says1("OBSERVATION_CONFLICT")' = Says1("OBSERVATION_CONFLICT")
    BY <1>4 DEF Says1
  <2>2. Provenance
    BY DEF EvidenceInv
  <2> QED BY <1>4, <2>1, <2>2 DEF Provenance
<1> QED BY <1>2, <1>3, <1>5

AttemptRow == [state : {"NONE", "RUNNING", "FAILED", "REPAIR_VERIFIED"},
               answer : Artifact \union {"none"}, turn : 0..MaxTurn]

\* A step of a call that leaves the snapshot and the observations.
LEMMA CallStep ==
  ASSUME EvidenceInv, NEW c \in Call, NEW s \in CallType, call' = [call EXCEPT ![c] = s],
         UNCHANGED <<bound, turns, evidence, observations>>,
         events \subseteq events',
         \A e \in events' : e \in events \/ \E t \in DOMAIN turns :
            \/ e = [type |-> "INVESTIGATION_FAILED", turn |-> t]
            \/ e = [type |-> "INVESTIGATOR_STARTED", turn |-> t] /\ turns[t].got.is = "taken",
         attempt' \in AttemptRow,
         attempt' # attempt =>
            /\ Contradicted
            /\ attempt'.state = "REPAIR_VERIFIED" =>
                  attempt'.turn \in DOMAIN turns /\ From(attempt', "recovery"),
         CallOK(c)'
  PROVE  EvidenceInv'
<1>1. call' \in [Call -> CallType]
  BY CallIs
<1>2. Contradicted' <=> Contradicted
  BY DEF Contradicted
<1>3. \A d \in Call : CallOK(d)'
  BY <1>2, CallsSafe
<1>5. /\ events' \in SUBSET [type : Workflow, turn : Turn]
      /\ \A e \in events' : EventOK(e)'
      /\ Provenance'
  BY ReportsSafe
<1>6. RowsOK'
  <2>1. RowsOK
    BY DEF EvidenceInv
  <2>2. CASE attempt' = attempt
    BY <1>2, <2>1, <2>2 DEF RowsOK, From
  <2>3. CASE attempt' # attempt
    BY <1>2, <2>1, <2>3 DEF RowsOK, From
  <2> QED BY <2>2, <2>3
<1>7. EvidenceTypeOK'
  BY <1>1, <1>5 DEF EvidenceInv, EvidenceTypeOK, CallType, AttemptRow
<1> QED BY <1>3, <1>5, <1>6, <1>7 DEF EvidenceInv

\* The call that is away, and one that begins.
LEMMA AwayFacts ==
  /\ Away \in CallType /\ Away.pc = "idle" /\ Away.turn = 0 /\ Away.attempt = 1
  /\ \A pc \in {"ready", "start"}, kind \in Kind :
        LET s == [pc |-> pc, kind |-> kind, attempt |-> 1, turn |-> 0, first |-> 0] IN
        s \in CallType
<1>1. 0 \in 0..MaxTurn /\ 1 \in 1..2
  OBVIOUS
<1> QED BY <1>1 DEF Away, CallType, Kind

\* A call that returns, with or without a report of its failure.
LEMMA ReturnStep ==
  ASSUME EvidenceInv, NEW c \in Call, Return(c),
         UNCHANGED <<bound, turns, evidence, observations>>,
         attempt' \in AttemptRow,
         attempt' # attempt =>
            /\ Contradicted
            /\ attempt'.state = "REPAIR_VERIFIED" =>
                  attempt'.turn \in DOMAIN turns /\ From(attempt', "recovery"),
         \/ UNCHANGED events
         \/ Append1("INVESTIGATION_FAILED", call[c].turn) /\ call[c].pc \in HasTurn
  PROVE  EvidenceInv'
<1>1. call' = [call EXCEPT ![c] = Away] /\ call'[c] = Away
  BY AwayFacts, CallIs DEF Return
<1>2. /\ events \subseteq events'
      /\ \A e \in events' : e \in events \/ \E t \in DOMAIN turns :
            e = [type |-> "INVESTIGATION_FAILED", turn |-> t]
  BY DEF Append1, EvidenceInv, CallOK
<1>3. CallOK(c)'
  BY <1>1, AwayFacts DEF CallOK, HasTurn, At, Is
<1> QED BY <1>1, <1>2, <1>3, AwayFacts, CallStep

\* Requests begin.
LEMMA BeginStep ==
  ASSUME EvidenceInv, NEW c \in Call, BeginProvider(c) \/ BeginReceiver(c) \/ BeginRecovery(c)
  PROVE  EvidenceInv'
<1>1. PICK s : /\ call' = [call EXCEPT ![c] = s] /\ s \in CallType
               /\ s.pc \in {"ready", "start"} /\ s.turn = 0 /\ s.attempt = 1
               /\ s.pc = "ready" => s.kind = "recovery"
               /\ s.kind = "receiver" => evidence # NoEvidence
               /\ s.kind = "recovery" => Contradiction
  <2>1. PICK pc \in {"ready", "start"}, kind \in Kind :
          /\ call' = [call EXCEPT ![c] = [pc |-> pc, kind |-> kind, attempt |-> 1, turn |-> 0,
                                         first |-> 0]]
          /\ pc = "ready" => kind = "recovery"
          /\ kind = "receiver" => evidence # NoEvidence
          /\ kind = "recovery" => Contradiction
    BY DEF BeginProvider, BeginReceiver, BeginRecovery, Away, Kind
  <2> DEFINE r == [pc |-> pc, kind |-> kind, attempt |-> 1, turn |-> 0, first |-> 0]
  <2>2. r \in CallType /\ r.pc = pc /\ r.turn = 0 /\ r.attempt = 1 /\ r.kind = kind
    BY AwayFacts
  <2>3. call' = [call EXCEPT ![c] = r]
    BY <2>1
  <2> HIDE DEF r
  <2> QED BY <2>1, <2>2, <2>3
<1>2. UNCHANGED <<bound, turns, evidence, observations, events, attempt>>
  BY DEF BeginProvider, BeginReceiver, BeginRecovery
<1>3. Contradiction => Contradicted
  <2> SUFFICES ASSUME Contradiction
               PROVE  Contradicted
    OBVIOUS
  <2>1. observations \in Seq(Observation) /\ observations # <<>>
    BY DEF EvidenceInv, Contradiction
  <2>2. Len(observations) \in DOMAIN observations
    BY <2>1
  <2>3. observations[Len(observations)].answer = Once
    BY DEF Contradiction, Last
  <2> QED BY <2>1, <2>2, <2>3 DEF Contradiction, Contradicted, EvidenceInv, RowsOK
<1>4. CallOK(c)'
  <2>1. call'[c] = s
    BY <1>1, CallIs
  <2> QED BY <1>1, <1>2, <1>3, <2>1 DEF CallOK, HasTurn, At, Is, Contradicted
<1>5. attempt \in AttemptRow
  BY DEF EvidenceInv, EvidenceTypeOK, AttemptRow
<1>7. events \subseteq events' /\ \A e \in events' : e \in events
  BY <1>2
<1> QED BY <1>1, <1>2, <1>4, <1>5, <1>7, CallStep

\* A call that goes on under the same turn.
LEMMA GoStep ==
  ASSUME EvidenceInv, NEW c \in Call, NEW pc \in {"start", "collect", "capture"}, GoTo(c, pc),
         pc \in HasTurn <=> call[c].pc \in HasTurn
  PROVE  LET s == [call[c] EXCEPT !.pc = pc] IN
         /\ s \in CallType /\ call' = [call EXCEPT ![c] = s] /\ call'[c] = s
         /\ s.pc = pc /\ s.kind = call[c].kind /\ s.turn = call[c].turn
         /\ s.attempt = call[c].attempt /\ s.first = call[c].first
<1>1. call \in [Call -> CallType]
  BY DEF EvidenceInv, EvidenceTypeOK, CallType
<1> QED BY <1>1 DEF GoTo, CallType

\* The recovery begins to run, its evidence being there.
LEMMA RunRecoveryStep ==
  ASSUME EvidenceInv, NEW c \in Call, RunRecovery(c)
  PROVE  EvidenceInv'
<1>1. attempt \in AttemptRow /\ CallOK(c) /\ call[c].pc = "ready" /\ call[c].pc \notin HasTurn
  BY DEF EvidenceInv, EvidenceTypeOK, AttemptRow, RunRecovery, At, HasTurn
<1>2. UNCHANGED <<bound, turns, evidence, observations, events>>
  BY DEF RunRecovery
<1>3. CASE attempt.state # "NONE"
  BY <1>1, <1>2, <1>3, ReturnStep DEF RunRecovery
<1>4. CASE attempt.state = "NONE"
  <2>1. attempt' = [Fresh EXCEPT !.state = "RUNNING"] /\ GoTo(c, "start")
    BY <1>4 DEF RunRecovery
  <2>2. attempt' \in AttemptRow /\ attempt'.state = "RUNNING"
    BY <2>1 DEF Fresh, AttemptRow
  <2>3. PICK s \in CallType :
          /\ call' = [call EXCEPT ![c] = s] /\ call'[c] = s
          /\ s.pc = "start" /\ s.kind = call[c].kind /\ s.turn = call[c].turn
          /\ s.attempt = call[c].attempt /\ s.first = call[c].first
    BY <1>1, <2>1, GoStep DEF HasTurn
  <2>4. Contradicted
    BY <1>1 DEF CallOK, At, Is
  <2>5. CallOK(c)'
    BY <1>1, <1>2, <2>3, <2>4 DEF CallOK, HasTurn, At, Is, Corrected, Contradicted
  <2>6. events \subseteq events' /\ \A e \in events' : e \in events
    BY <1>2
  <2> QED BY <1>2, <2>2, <2>3, <2>4, <2>5, <2>6, CallStep
<1> QED BY <1>3, <1>4

\* Requests that fail, return without a turn, or die with their process.
LEMMA StopStep ==
  ASSUME EvidenceInv, NEW c \in Call,
         TurnInProgress(c) \/ Breaks(c) \/ RefusedProvider(c) \/ CaptureNot(c) \/ CallDies(c)
  PROVE  EvidenceInv'
<1>1. attempt \in AttemptRow
  BY DEF EvidenceInv, EvidenceTypeOK, AttemptRow
<1>2. Return(c) /\ UNCHANGED <<bound, turns, evidence, observations, attempt>>
  BY DEF TurnInProgress, Breaks, RefusedProvider, CaptureNot, CallDies
<1>3. \/ UNCHANGED events
      \/ Append1("INVESTIGATION_FAILED", call[c].turn) /\ call[c].pc \in HasTurn
  <2>1. call[c].turn # 0 => call[c].pc \in HasTurn
    BY DEF EvidenceInv, CallOK
  <2> QED BY <2>1 DEF TurnInProgress, Breaks, RefusedProvider, CaptureNot, CallDies, FailedEvent,
                      At, HasTurn
<1> QED BY <1>1, <1>2, <1>3, ReturnStep

\* The recovery ends with what its turn came to.
LEMMA EndRecoveryStep ==
  ASSUME EvidenceInv, NEW c \in Call, EndRecovery(c)
  PROVE  EvidenceInv'
<1> DEFINE t == call[c].turn
<1>1. /\ Return(c) /\ UNCHANGED <<bound, turns, evidence, observations, events>>
      /\ attempt' = IF attempt.state # "RUNNING" THEN attempt
                    ELSE IF turns[t].got.is = "taken"
                    THEN [state |-> "REPAIR_VERIFIED", answer |-> turns[t].got.answer, turn |-> t]
                    ELSE [attempt EXCEPT !.state = "FAILED"]
  BY DEF EndRecovery, Got
<1>2. attempt \in AttemptRow /\ t \in DOMAIN turns /\ turns[t].kind = "recovery" /\ Contradicted
  BY DEF EvidenceInv, EvidenceTypeOK, AttemptRow, EndRecovery, CallOK, At, Is, HasTurn
<1>3. CASE attempt.state # "RUNNING"
  BY <1>1, <1>2, <1>3, ReturnStep
<1>4. CASE attempt.state = "RUNNING" /\ turns[t].got.is # "taken"
  <2>1. attempt' = [attempt EXCEPT !.state = "FAILED"]
    BY <1>1, <1>4
  <2>2. attempt' \in AttemptRow /\ attempt'.state = "FAILED"
    BY <1>2, <2>1 DEF AttemptRow
  <2> QED BY <1>1, <1>2, <2>2, ReturnStep
<1>5. CASE attempt.state = "RUNNING" /\ turns[t].got.is = "taken"
  <2>1. attempt' = [state |-> "REPAIR_VERIFIED", answer |-> turns[t].got.answer, turn |-> t]
    BY <1>1, <1>5
  <2>2. turns[t].got.sound /\ turns[t].got.answer \in Artifact /\ t \in Turn
    BY <1>2, <1>5, TakenSound, TurnFacts
  <2>3. attempt' \in AttemptRow
    BY <2>1, <2>2 DEF AttemptRow, Turn
  <2>4. From(attempt', "recovery") /\ attempt'.turn \in DOMAIN turns
    BY <1>2, <2>1, <2>2 DEF From
  <2> QED BY <1>1, <1>2, <2>3, <2>4, ReturnStep
<1> QED BY <1>3, <1>4, <1>5

\* The stream of a turn ends: what came of it is known.
LEMMA StreamEndsStep ==
  ASSUME EvidenceInv, NEW c \in Call, StreamEnds(c)
  PROVE  EvidenceInv'
<1>1. /\ attempt \in AttemptRow /\ CallOK(c) /\ call[c].pc = "live" /\ call[c].pc \in HasTurn
      /\ GoTo(c, "collect") /\ turns[call[c].turn].got # Running
      /\ UNCHANGED <<bound, turns, evidence, observations, events, attempt>>
  BY DEF EvidenceInv, EvidenceTypeOK, AttemptRow, StreamEnds, At, Got, HasTurn
<1>2. PICK s \in CallType :
        /\ call' = [call EXCEPT ![c] = s] /\ call'[c] = s
        /\ s.pc = "collect" /\ s.kind = call[c].kind /\ s.turn = call[c].turn
        /\ s.attempt = call[c].attempt /\ s.first = call[c].first
  BY <1>1, GoStep DEF HasTurn
<1>3. CallOK(c)'
  BY <1>1, <1>2 DEF CallOK, HasTurn, At, Is, Corrected, Contradicted
<1>4. events \subseteq events' /\ \A e \in events' : e \in events
  BY <1>1
<1> QED BY <1>1, <1>2, <1>3, <1>4, CallStep

\* A turn that has ended is read again, by a call that has none yet.
LEMMA ReplayStep ==
  ASSUME EvidenceInv, NEW c \in Call, NEW t \in DOMAIN turns, Replay(c, t)
  PROVE  EvidenceInv'
<1> DEFINE s == [call[c] EXCEPT !.pc = "collect", !.turn = t]
<1>1. /\ attempt \in AttemptRow /\ CallOK(c) /\ call[c].pc = "start" /\ call[c].attempt = 1
      /\ call[c].kind # "recovery" /\ turns[t].kind = call[c].kind /\ turns[t].got # Running
      /\ call' = [call EXCEPT ![c].pc = "collect", ![c].turn = t]
      /\ UNCHANGED <<bound, turns, evidence, observations, events, attempt>>
  BY DEF EvidenceInv, EvidenceTypeOK, AttemptRow, Replay, At, Is
<1>2. /\ s \in CallType /\ s.pc = "collect" /\ s.turn = t /\ s.kind = call[c].kind
      /\ s.attempt = 1 /\ call' = [call EXCEPT ![c] = s]
  <2>1. call \in [Call -> CallType] /\ t \in 0..MaxTurn
    BY TurnFacts DEF EvidenceInv, EvidenceTypeOK, CallType, Turn
  <2> QED BY <1>1, <2>1 DEF CallType
<1> HIDE DEF s
<1>3. call'[c] = s
  BY <1>2, CallIs
<1>4. CallOK(c)'
  BY <1>1, <1>2, <1>3 DEF CallOK, HasTurn, At, Is
<1>5. events \subseteq events' /\ \A e \in events' : e \in events
  BY <1>1
<1> QED BY <1>1, <1>2, <1>4, <1>5, CallStep

\* The investigator is named, in the events that a collector accepted.
LEMMA CollectedStep ==
  ASSUME EvidenceInv, NEW c \in Call, CollectedProvider(c)
  PROVE  EvidenceInv'
<1>1. /\ attempt \in AttemptRow /\ CallOK(c) /\ call[c].pc = "collect" /\ call[c].pc \in HasTurn
      /\ call[c].kind = "provider" /\ turns[call[c].turn].got.is = "taken"
      /\ GoTo(c, "capture")
      /\ events' = events \union {[type |-> "INVESTIGATOR_STARTED", turn |-> call[c].turn]}
      /\ UNCHANGED <<bound, turns, evidence, observations, attempt>>
  BY DEF EvidenceInv, EvidenceTypeOK, AttemptRow, CollectedProvider, Append1, At, Is, Got, HasTurn
<1>2. PICK s \in CallType :
        /\ call' = [call EXCEPT ![c] = s] /\ call'[c] = s
        /\ s.pc = "capture" /\ s.kind = call[c].kind /\ s.turn = call[c].turn
        /\ s.attempt = call[c].attempt /\ s.first = call[c].first
  BY <1>1, GoStep DEF HasTurn
<1>3. call[c].attempt = 2 => Corrected(c)'
  BY <1>1, <1>2 DEF CallOK, Corrected
<1>4. CallOK(c)'
  BY <1>1, <1>2, <1>3 DEF CallOK, HasTurn, At, Is
<1>5. call[c].turn \in DOMAIN turns
  BY <1>1 DEF CallOK
<1> QED BY <1>1, <1>2, <1>4, <1>5, CallStep

\* The one corrective turn: the first is refused, and that is on record.
LEMMA ExtraArgumentsStep ==
  ASSUME EvidenceInv, NEW c \in Call, ExtraArguments(c)
  PROVE  EvidenceInv'
<1> DEFINE t == call[c].turn
           s == [Away EXCEPT !.pc = "start", !.attempt = 2, !.first = t]
<1>1. /\ attempt \in AttemptRow /\ CallOK(c) /\ call[c].pc = "collect" /\ call[c].pc \in HasTurn
      /\ turns[t].got.is = "extra" /\ call' = [call EXCEPT ![c] = s]
      /\ events' = events \union {[type |-> "INVESTIGATION_FAILED", turn |-> t]}
      /\ UNCHANGED <<bound, turns, evidence, observations, attempt>>
  BY DEF EvidenceInv, EvidenceTypeOK, AttemptRow, ExtraArguments, Append1, At, Is, Got, HasTurn
<1>2. t \in DOMAIN turns /\ t \in 0..MaxTurn
  BY <1>1, TurnFacts DEF CallOK, Turn
<1>3. /\ s \in CallType /\ s.pc = "start" /\ s.attempt = 2 /\ s.first = t /\ s.turn = 0
      /\ s.kind = "provider" /\ s.pc \notin HasTurn
  <2>1. Away \in CallType /\ Away.kind = "provider" /\ Away.turn = 0
    BY AwayFacts DEF Away
  <2>2. \A n \in 1..2, u \in 0..MaxTurn :
          [Away EXCEPT !.pc = "start", !.attempt = n, !.first = u] \in CallType
    BY <2>1 DEF CallType
  <2>3. 2 \in 1..2
    OBVIOUS
  <2>4. s \in CallType
    BY <1>2, <2>2, <2>3
  <2> HIDE DEF t
  <2> QED BY <2>1, <2>4 DEF CallType, HasTurn
<1> HIDE DEF s
<1>4. call'[c] = s
  BY <1>1, <1>3, CallIs
<1>6. Corrected(c)'
  BY <1>1, <1>2, <1>3, <1>4 DEF Corrected
<1>7. CallOK(c)'
  BY <1>3, <1>4, <1>6 DEF CallOK, HasTurn, At, Is
<1> QED BY <1>1, <1>2, <1>3, <1>7, CallStep

\* What is on record keeps its source: a snapshot and an observation are added,
\* never exchanged, and turns keep what they came to.
LEMMA StoreStep ==
  ASSUME EvidenceInv, NEW c \in Call, Return(c), UNCHANGED <<bound, turns, attempt>>,
         events \subseteq events',
         events' \in SUBSET [type : Workflow, turn : Turn],
         evidence # NoEvidence => evidence' = evidence,
         evidence' \in {NoEvidence} \union [answer : Delivery \ {Bad}, turn : Turn],
         observations' \in Seq(Observation),
         \A n \in DOMAIN observations :
            n \in DOMAIN observations' /\ observations'[n] = observations[n],
         \A e \in events' : EventOK(e)',
         RowsOK', Provenance'
  PROVE  EvidenceInv'
<1>1. call' = [call EXCEPT ![c] = Away] /\ call'[c] = Away /\ call' \in [Call -> CallType]
  BY AwayFacts, CallIs DEF Return
<1>3. CallOK(c)'
  BY <1>1, AwayFacts DEF CallOK, HasTurn, At, Is
<1>4. Contradicted => Contradicted'
  BY DEF Contradicted
<1>5. \A d \in Call : CallOK(d)'
  BY <1>1, <1>3, <1>4, AwayFacts, CallsSafe
<1>6. \A n \in DOMAIN observations' : observations'[n] \in Observation
  OBVIOUS
<1>7. EvidenceTypeOK'
  BY <1>1, <1>6 DEF EvidenceInv, EvidenceTypeOK, CallType, Observation
<1> QED BY <1>5, <1>7 DEF EvidenceInv

\* The snapshot is stored with its event, once.
LEMMA CaptureStep ==
  ASSUME EvidenceInv, NEW c \in Call, Capture(c)
  PROVE  EvidenceInv'
<1> DEFINE t == call[c].turn
           answer == turns[t].got.answer
           type == Disposition(answer)
<1>1. /\ call[c].pc = "capture" /\ answer \in Delivery \ {Bad}
      /\ evidence' = IF evidence = NoEvidence THEN [answer |-> answer, turn |-> t] ELSE evidence
      /\ events' = events \union {[type |-> type, turn |-> t]} \union
                     (IF type # "OBSERVATION_CONFLICT" THEN {}
                      ELSE {[type |-> "INVESTIGATION_FAILED", turn |-> t]})
      /\ Return(c) /\ UNCHANGED <<bound, turns, observations, attempt>>
  BY DEF Capture, Recordable, NormalDelivery, At, Got
<1>2. /\ CallOK(c) /\ t \in DOMAIN turns /\ turns[t].kind = "provider"
      /\ turns[t].got.is = "taken"
      /\ [type |-> "INVESTIGATOR_STARTED", turn |-> t] \in events
  BY <1>1 DEF EvidenceInv, CallOK, At, Is, HasTurn
<1>3. turns[t].got.sound /\ t \in Turn /\ t # 0
  BY <1>2, TakenSound, TurnFacts
<1>4. /\ type \in {"EVIDENCE_CAPTURED", "EVIDENCE_REOBSERVED", "OBSERVATION_CONFLICT"}
      /\ type = "EVIDENCE_CAPTURED" <=> evidence = NoEvidence
      /\ type = "EVIDENCE_REOBSERVED" => evidence.answer = answer
      /\ type = "OBSERVATION_CONFLICT" => evidence.answer # answer
  <2> HIDE DEF answer
  <2> QED BY DEF Disposition
<1> HIDE DEF answer, type
<1>5. NoEvidence.turn = 0
  BY DEF NoEvidence
<1>6. evidence' # NoEvidence /\ (evidence # NoEvidence => evidence' = evidence)
      /\ evidence' \in {NoEvidence} \union [answer : Delivery \ {Bad}, turn : Turn]
  <2>1. CASE evidence = NoEvidence
    <3>1. evidence' = [answer |-> answer, turn |-> t]
      BY <1>1, <2>1
    <3>2. evidence'.turn # NoEvidence.turn
      BY <1>3, <1>5, <3>1
    <3> QED BY <1>1, <1>3, <2>1, <3>1, <3>2
  <2>2. CASE evidence # NoEvidence
    BY <1>1, <2>2 DEF EvidenceInv, EvidenceTypeOK
  <2> QED BY <2>1, <2>2
<1>7. events \subseteq events' /\ \A e \in events' : e \in events \/ e.turn = t
  BY <1>1
<1>8. events' \in SUBSET [type : Workflow, turn : Turn]
  BY <1>1, <1>3, <1>4 DEF EvidenceInv, EvidenceTypeOK, Workflow
<1>9. \A e \in events' : EventOK(e)'
  <2> SUFFICES ASSUME NEW e \in events'
               PROVE  EventOK(e)'
    OBVIOUS
  <2>1. CASE e \in events
    BY <1>1, <1>6, <2>1 DEF EvidenceInv, EventOK
  <2>2. CASE e \notin events
    BY <1>1, <1>2, <1>6, <1>7, <2>2 DEF EventOK
  <2> QED BY <2>1, <2>2
<1>10. RowsOK'
  <2>1. RowsOK
    BY DEF EvidenceInv
  <2>2. evidence'.turn \in DOMAIN turns /\ From(evidence', "provider")
    <3>1. CASE evidence = NoEvidence
      BY <1>1, <1>2, <1>3, <3>1 DEF From, answer
    <3>2. CASE evidence # NoEvidence
      BY <1>6, <2>1, <3>2 DEF RowsOK
    <3> QED BY <3>1, <3>2
  <2>3. Contradicted => Contradicted'
    BY <1>1, <1>6 DEF Contradicted
  <2> QED BY <1>1, <1>6, <2>1, <2>2, <2>3 DEF RowsOK, From
<1>11. Provenance'
  <2> DEFINE told == [type |-> type, turn |-> t]
  <2>1. Provenance
    BY DEF EvidenceInv
  <2>2. \A e \in events' : e.type \notin {"INVESTIGATION_FAILED"} => e \in events \/ e = told
    BY <1>1
  <2>3. told \in events' /\ told.type = type /\ told.turn = t
    BY <1>1
  <2>4. \A e \in events : e.type \in {"EVIDENCE_REOBSERVED", "OBSERVATION_CONFLICT"}
          => evidence # NoEvidence /\ evidence' = evidence
    BY <1>6 DEF EvidenceInv, EventOK
  <2>5. Says1("EVIDENCE_CAPTURED")' = {[type |-> "EVIDENCE_CAPTURED", turn |-> evidence'.turn]}
    <3>1. CASE evidence = NoEvidence
      <4>1. Says1("EVIDENCE_CAPTURED") = {}
        BY <2>1, <3>1 DEF Provenance
      <4>2. evidence'.turn = t /\ type = "EVIDENCE_CAPTURED"
        BY <1>1, <1>4, <3>1
      <4> QED BY <1>7, <2>2, <2>3, <4>1, <4>2 DEF Says1
    <3>2. CASE evidence # NoEvidence
      <4>1. Says1("EVIDENCE_CAPTURED") = {[type |-> "EVIDENCE_CAPTURED", turn |-> evidence.turn]}
        BY <2>1, <3>2 DEF Provenance
      <4>2. evidence' = evidence /\ type # "EVIDENCE_CAPTURED"
        BY <1>4, <1>6, <3>2
      <4> QED BY <1>7, <2>2, <2>3, <4>1, <4>2 DEF Says1
    <3> QED BY <3>1, <3>2
  <2>6. \A e \in Says1("EVIDENCE_REOBSERVED")' : turns[e.turn].got.answer = evidence'.answer
    <3> SUFFICES ASSUME NEW e \in events', e.type = "EVIDENCE_REOBSERVED"
                 PROVE  turns[e.turn].got.answer = evidence'.answer
      BY DEF Says1
    <3>1. CASE e \in events
      BY <2>1, <2>4, <3>1 DEF Provenance, Says1
    <3>2. CASE e = told
      BY <1>4, <1>6, <2>3, <3>2 DEF answer
    <3> QED BY <2>2, <3>1, <3>2
  <2>7. \A e \in Says1("OBSERVATION_CONFLICT")' : turns[e.turn].got.answer # evidence'.answer
    <3> SUFFICES ASSUME NEW e \in events', e.type = "OBSERVATION_CONFLICT"
                 PROVE  turns[e.turn].got.answer # evidence'.answer
      BY DEF Says1
    <3>1. CASE e \in events
      BY <2>1, <2>4, <3>1 DEF Provenance, Says1
    <3>2. CASE e = told
      BY <1>4, <1>6, <2>3, <3>2 DEF answer
    <3> QED BY <2>2, <3>1, <3>2
  <2>8. \A e \in events' : e.type \notin {"INVESTIGATION_FAILED", "INVESTIGATOR_STARTED"} =>
          [type |-> "INVESTIGATOR_STARTED", turn |-> e.turn] \in events'
    <3> SUFFICES ASSUME NEW e \in events',
                        e.type \notin {"INVESTIGATION_FAILED", "INVESTIGATOR_STARTED"}
                 PROVE  [type |-> "INVESTIGATOR_STARTED", turn |-> e.turn] \in events
      BY <1>7
    <3>1. CASE e \in events
      BY <2>1, <3>1 DEF Provenance
    <3>2. CASE e = told
      BY <1>2, <2>3, <3>2
    <3> QED BY <2>2, <3>1, <3>2
  <2> QED BY <1>1, <1>6, <2>5, <2>6, <2>7, <2>8 DEF Provenance
<1> QED BY <1>1, <1>6, <1>7, <1>8, <1>9, <1>10, <1>11, StoreStep DEF EvidenceInv

\* An observation is appended, while the session is bound.
LEMMA ObserveStep ==
  ASSUME EvidenceInv, NEW c \in Call, Observe(c)
  PROVE  EvidenceInv'
<1> DEFINE t == call[c].turn
           got == turns[t].got
           seen == [answer |-> got.answer, turn |-> t]
<1>1. /\ call[c].pc = "collect" /\ call[c].kind = "receiver"
      /\ \/ UNCHANGED observations
         \/ /\ got.is = "taken" /\ got.answer \in Business \ {Bad}
            /\ observations' = Append(observations, seen)
      /\ Return(c) /\ UNCHANGED <<bound, turns, evidence, events, attempt>>
  BY DEF Observe, NormalState, At, Is, Got
<1>2. t \in DOMAIN turns /\ turns[t].kind = "receiver" /\ evidence # NoEvidence
  BY <1>1 DEF EvidenceInv, CallOK, At, Is, HasTurn
<1>3. RowsOK /\ observations \in Seq(Observation)
  BY DEF EvidenceInv
<1>4. /\ observations' \in Seq(Observation)
      /\ \A n \in DOMAIN observations :
            n \in DOMAIN observations' /\ observations'[n] = observations[n]
      /\ \A n \in DOMAIN observations' :
            observations'[n].turn \in DOMAIN turns /\ From(observations'[n], "receiver")
  <2>1. CASE observations' = observations
    BY <1>3, <2>1 DEF RowsOK
  <2>2. CASE got.is = "taken" /\ got.answer \in Business \ {Bad} /\ observations' = Append(observations, seen)
    <3>1. got.sound /\ t \in Turn
      BY <1>2, <2>2, TakenSound, TurnFacts
    <3>2. seen \in Observation /\ seen.turn = t /\ seen.answer = got.answer
      BY <2>2, <3>1 DEF Observation
    <3>3. seen.turn \in DOMAIN turns /\ From(seen, "receiver")
      BY <1>2, <3>1, <3>2 DEF From
    <3> HIDE DEF seen
    <3>4. /\ observations' \in Seq(Observation) /\ Len(observations') = Len(observations) + 1
          /\ \A n \in 1..Len(observations) : observations'[n] = observations[n]
          /\ observations'[Len(observations) + 1] = seen
      BY <1>3, <2>2, <3>2
    <3>5. /\ DOMAIN observations = 1..Len(observations)
          /\ DOMAIN observations' = 1..(Len(observations) + 1)
          /\ Len(observations) \in Nat
      BY <1>3, <3>4
    <3> QED BY <1>3, <3>3, <3>4, <3>5 DEF RowsOK
  <2> QED BY <1>1, <2>1, <2>2
<1>5. RowsOK'
  <2>1. Contradicted => Contradicted'
    BY <1>1, <1>4 DEF Contradicted
  <2> QED BY <1>1, <1>2, <1>3, <1>4, <2>1 DEF RowsOK, From
<1>6. /\ \A e \in events' : EventOK(e)'
      /\ events' \in SUBSET [type : Workflow, turn : Turn]
      /\ Provenance'
  BY <1>1, ReportsSafe
<1>7. evidence' \in {NoEvidence} \union [answer : Delivery \ {Bad}, turn : Turn]
  BY <1>1 DEF EvidenceInv, EvidenceTypeOK
<1> QED BY <1>1, <1>4, <1>5, <1>6, <1>7, StoreStep

\* A turn is started: nobody has its number yet.
LEMMA StartTurnStep ==
  ASSUME EvidenceInv, NEW c \in Call, StartTurn(c)
  PROVE  EvidenceInv'
<1> DEFINE t == Len(turns) + 1
           new == [kind |-> call[c].kind, got |-> Running]
           s == [call[c] EXCEPT !.pc = "live", !.turn = t]
<1>1. /\ call[c].pc = "start" /\ t \in Turn /\ turns' = Append(turns, new)
      /\ call' = [call EXCEPT ![c].pc = "live", ![c].turn = t]
      /\ UNCHANGED <<bound, evidence, observations, events, attempt>>
  BY DEF StartTurn, At
<1>2. call \in [Call -> CallType] /\ turns \in Seq(TurnRow) /\ CallOK(c)
  BY DEF EvidenceInv, EvidenceTypeOK, CallType
<1>3. /\ s \in CallType /\ s.pc = "live" /\ s.turn = t /\ s.kind = call[c].kind
      /\ s.attempt = call[c].attempt /\ s.first = call[c].first
      /\ call' = [call EXCEPT ![c] = s]
  <2>1. t \in 0..MaxTurn
    BY <1>1 DEF Turn
  <2> HIDE DEF t
  <2> QED BY <1>1, <1>2, <2>1 DEF CallType
<1>4. new \in TurnRow /\ new.kind = call[c].kind /\ new.got = Running
  BY <1>2 DEF TurnRow, CallType
<1> HIDE DEF s, new
<1>5. /\ turns' \in Seq(TurnRow) /\ Len(turns') = t /\ turns'[t] = new
      /\ t \in DOMAIN turns' /\ t \notin DOMAIN turns /\ t # 0
      /\ \A u \in DOMAIN turns : u \in DOMAIN turns' /\ turns'[u] = turns[u]
      /\ \A u \in DOMAIN turns' : u = t \/ u \in DOMAIN turns
  BY <1>1, <1>2, <1>4
<1> HIDE DEF t
<1>6. /\ call' \in [Call -> CallType] /\ call'[c] = s
      /\ \A d \in Call \ {c} : call'[d] = call[d]
  BY <1>3, CallIs
<1>8. Contradicted' <=> Contradicted
  BY <1>1 DEF Contradicted
<1>9. ASSUME NEW d \in Call
      PROVE  CallOK(d)'
  <2>1. CallOK(d) /\ call'[d].attempt = call[d].attempt /\ call'[d].first = call[d].first
    BY <1>3, <1>6 DEF EvidenceInv
  <2>2. call[d].attempt = 2 => Corrected(d)'
    <3> SUFFICES ASSUME call[d].attempt = 2
                 PROVE  Corrected(d)'
      OBVIOUS
    <3>1. /\ call[d].first \in DOMAIN turns /\ turns[call[d].first].got.is = "extra"
          /\ [type |-> "INVESTIGATION_FAILED", turn |-> call[d].first] \in events
      BY <2>1 DEF CallOK, Corrected
    <3>2. call[d].first \in DOMAIN turns' /\ turns'[call[d].first] = turns[call[d].first]
      BY <1>5, <3>1
    <3>3. events' = events /\ call'[d].first = call[d].first
      BY <1>1, <2>1
    <3>4. turns'[call[d].first].got.is = "extra"
      BY <3>1, <3>2, Zenon
    <3> QED BY <3>1, <3>2, <3>3, <3>4, Zenon DEF Corrected
  <2>3. CASE d = c
    BY <1>1, <1>2, <1>3, <1>4, <1>5, <1>6, <1>8, <2>1, <2>2, <2>3 DEF CallOK, At, Is, HasTurn
  <2>4. CASE d # c
    <3>1. call'[d] = call[d]
      BY <1>6, <2>4
    <3>2. call[d].pc \in HasTurn => turns'[call[d].turn] = turns[call[d].turn]
      BY <1>5, <2>1 DEF CallOK
    <3>3. call[d].pc \in HasTurn => call[d].turn \in DOMAIN turns'
      BY <1>5, <2>1 DEF CallOK
    <3>4. /\ call[d].pc \in {"collect", "capture"} => turns'[call[d].turn].got # Running
          /\ At(d, "capture") => turns'[call[d].turn].got.is = "taken"
          /\ call[d].pc \in HasTurn => turns'[call[d].turn].kind = call[d].kind
      BY <2>1, <3>2 DEF CallOK, At, HasTurn
    <3>5. /\ call'[d].pc \notin HasTurn => call'[d].turn = 0
          /\ At(d, "ready")' => Is(d, "recovery")'
      BY <1>1, <2>1, <3>1 DEF CallOK, At, Is
    <3>6. /\ ~At(d, "idle")' /\ Is(d, "receiver")' => evidence' # NoEvidence
          /\ ~At(d, "idle")' /\ Is(d, "recovery")' => Contradicted'
      BY <1>1, <1>8, <2>1, <3>1 DEF CallOK, At, Is
    <3>7. At(d, "capture")' => Is(d, "provider")' /\
            [type |-> "INVESTIGATOR_STARTED", turn |-> call'[d].turn] \in events'
      <4>1. At(d, "capture") => Is(d, "provider") /\
              [type |-> "INVESTIGATOR_STARTED", turn |-> call[d].turn] \in events
        BY <2>1 DEF CallOK
      <4>2. events' = events
        BY <1>1
      <4>3. /\ At(d, "capture")' <=> At(d, "capture")
            /\ Is(d, "provider")' <=> Is(d, "provider")
        BY <3>1 DEF At, Is
      <4> QED BY <3>1, <4>1, <4>2, <4>3, Zenon
    <3> QED BY <2>2, <3>1, <3>3, <3>4, <3>5, <3>6, <3>7 DEF CallOK, At, Is
  <2> QED BY <2>3, <2>4
<1>11. \A e \in events' : EventOK(e)'
  BY <1>1, <1>5 DEF EvidenceInv, EventOK
<1>12. RowsOK' /\ Provenance'
  <2>1. RowsOK /\ Provenance /\ \A e \in events : EventOK(e)
    BY DEF EvidenceInv
  <2>2. RowsOK'
    BY <1>1, <1>5, <1>8, <2>1 DEF RowsOK, From
  <2>3. \A e \in events : e.type \in {"EVIDENCE_REOBSERVED", "OBSERVATION_CONFLICT"}
          => turns'[e.turn] = turns[e.turn]
    BY <1>5, <2>1 DEF EventOK
  <2>4. Provenance'
    BY <1>1, <2>1, <2>3 DEF Provenance, Says1
  <2> QED BY <2>2, <2>4
<1>13. EvidenceTypeOK'
  <2>1. \A u \in DOMAIN turns' : turns'[u].kind \in Kind /\ turns'[u].got \in Outcomes[turns'[u].kind] \union {Running}
    BY <1>2, <1>4, <1>5 DEF EvidenceInv, EvidenceTypeOK, CallType
  <2>2. Len(turns') <= MaxTurn
    BY <1>1, <1>5 DEF Turn
  <2> QED BY <1>1, <1>6, <2>1, <2>2 DEF EvidenceInv, EvidenceTypeOK, CallType
<1> QED
  BY <1>1, <1>5, <1>9, <1>11, <1>12, <1>13 DEF EvidenceInv

\* A turn ends in one of its outcomes; nothing is known of it before.
LEMMA TurnEndsStep ==
  ASSUME EvidenceInv, NEW t \in DOMAIN turns, TurnEnds(t)
  PROVE  EvidenceInv'
<1>1. PICK got \in Outcomes[turns[t].kind] : turns' = [turns EXCEPT ![t].got = got]
  BY DEF TurnEnds
<1>2. /\ turns[t].got = Running /\ turns \in Seq(TurnRow) /\ turns[t] \in TurnRow
      /\ UNCHANGED <<bound, evidence, observations, events, attempt, call>>
  BY TurnFacts DEF TurnEnds, EvidenceInv
<1> DEFINE new == [turns[t] EXCEPT !.got = got]
<1>3. new \in TurnRow /\ new.kind = turns[t].kind /\ new.got = got
  BY <1>1, <1>2 DEF TurnRow
<1>4. turns' = [turns EXCEPT ![t] = new]
  BY <1>1
<1> HIDE DEF new
<1>5. /\ turns' \in Seq(TurnRow) /\ Len(turns') = Len(turns) /\ DOMAIN turns' = DOMAIN turns
      /\ turns'[t] = new /\ \A u \in DOMAIN turns : u # t => turns'[u] = turns[u]
  BY <1>2, <1>3, <1>4
<1>6. got # Running
  <2>1. Sound(got, turns[t].kind)
    BY <1>1, <1>2, OutcomesSound DEF TurnRow
  <2>2. Running.is = "running" /\ \A why : Refused(why).is = why
    BY DEF Running, Refused
  <2>3. \A answer, clash : Taken(answer, clash, TRUE).is = "taken"
    BY DEF Taken
  <2> QED BY <2>1, <2>2, <2>3, Zenon DEF Sound
<1>7. /\ Running.is = "running" /\ ~Running.sound
  BY DEF Running, Refused
<1>8. \A u \in DOMAIN turns : Ended(u) => turns'[u] = turns[u]
  BY <1>2, <1>5 DEF Ended
<1>9. \A u \in DOMAIN turns : turns'[u].kind = turns[u].kind /\ (Ended(u) => Ended(u)')
  BY <1>3, <1>5, <1>8 DEF Ended
<1>10. Contradicted' <=> Contradicted
  BY <1>2 DEF Contradicted
<1>11. ASSUME NEW d \in Call
       PROVE  CallOK(d)'
  <2>1. CallOK(d) /\ call'[d] = call[d]
    BY <1>2 DEF EvidenceInv
  <2>2. call[d].attempt = 2 => Corrected(d)'
    <3> SUFFICES ASSUME call[d].attempt = 2
                 PROVE  Corrected(d)'
      OBVIOUS
    <3>1. Corrected(d)
      BY <2>1 DEF CallOK
    <3>2. Ended(call[d].first)
      BY <1>7, <3>1 DEF Corrected, Ended
    <3> QED BY <1>2, <1>5, <1>8, <3>1, <3>2 DEF Corrected
  <2>3. call[d].pc \in {"collect", "capture"} => turns'[call[d].turn] = turns[call[d].turn]
    BY <1>8, <2>1 DEF CallOK, HasTurn, Ended
  <2> QED BY <1>2, <1>5, <1>9, <1>10, <2>1, <2>2, <2>3 DEF CallOK, At, Is
<1>13. \A e \in events' : EventOK(e)'
  BY <1>2, <1>5, <1>7, <1>8 DEF EvidenceInv, EventOK, Ended
<1>14. \A row, kind : row.turn \in DOMAIN turns /\ From(row, kind) => turns'[row.turn] = turns[row.turn]
  <2> SUFFICES ASSUME NEW row, NEW kind, row.turn \in DOMAIN turns, From(row, kind)
               PROVE  turns'[row.turn] = turns[row.turn]
    OBVIOUS
  <2>1. turns[row.turn].got # Running
    BY <1>7, Zenon DEF From
  <2> QED BY <1>8, <2>1 DEF Ended
<1>15. RowsOK' /\ Provenance'
  <2>1. RowsOK /\ Provenance /\ \A e \in events : EventOK(e)
    BY DEF EvidenceInv
  <2>2. RowsOK'
    BY <1>2, <1>5, <1>10, <1>14, <2>1 DEF RowsOK, From
  <2>3. \A e \in events : e.type \in {"EVIDENCE_REOBSERVED", "OBSERVATION_CONFLICT"}
          => turns'[e.turn] = turns[e.turn]
    BY <1>7, <1>8, <2>1 DEF EventOK, Ended
  <2>4. Provenance'
    BY <1>2, <2>1, <2>3 DEF Provenance, Says1
  <2> QED BY <2>2, <2>4
<1>16. EvidenceTypeOK'
  BY <1>1, <1>2, <1>3, <1>5 DEF EvidenceInv, EvidenceTypeOK
<1> QED BY <1>2, <1>5, <1>11, <1>13, <1>15, <1>16 DEF EvidenceInv

\* At the start there is no turn, no evidence and no call.
LEMMA StartOfEvidence == EvidenceInit => EvidenceInv
<1> SUFFICES ASSUME EvidenceInit
             PROVE  EvidenceInv
  OBVIOUS
<1>1. /\ turns = <<>> /\ evidence = NoEvidence /\ observations = <<>>
      /\ events = {} /\ attempt = Fresh /\ call = [c \in Call |-> Away]
  BY DEF EvidenceInit
<1>2. /\ DOMAIN turns = {} /\ Len(turns) = 0 /\ turns \in Seq(TurnRow)
      /\ DOMAIN observations = {} /\ observations \in Seq(Observation)
  BY <1>1
<1>3. EvidenceTypeOK
  <2>1. Len(turns) <= MaxTurn
    BY <1>2, EvidenceAssumption
  <2>2. call \in [Call -> CallType]
    BY <1>1, EvidenceAssumption DEF Away, CallType, Kind
  <2>3. attempt \in [state : {"NONE", "RUNNING", "FAILED", "REPAIR_VERIFIED"},
                     answer : Artifact \union {"none"}, turn : 0..MaxTurn]
    BY <1>1, EvidenceAssumption DEF Fresh
  <2> QED BY <1>1, <1>2, <2>1, <2>2, <2>3 DEF EvidenceTypeOK, EvidenceInit, CallType
<1>4. ASSUME NEW c \in Call
      PROVE  CallOK(c) /\ call[c].pc = "idle" /\ call[c].attempt = 1
  BY <1>1 DEF CallOK, Away, At, Is, HasTurn
<1>6. RowsOK
  BY <1>1, <1>2 DEF RowsOK, Fresh
<1>7. Provenance
  BY <1>1 DEF Provenance, Says1
<1> QED BY <1>1, <1>2, <1>3, <1>4, <1>6, <1>7 DEF EvidenceInv

\* Nothing in the invariant depends on whether the session is bound.
LEMMA SessionLostStep ==
  ASSUME EvidenceInv, bound' \in BOOLEAN,
         UNCHANGED <<turns, evidence, observations, events, attempt, call>>
  PROVE  EvidenceInv'
<1>1. Contradicted' <=> Contradicted
  BY DEF Contradicted
<1>2. EvidenceTypeOK'
  BY DEF EvidenceInv, EvidenceTypeOK
<1>3. ASSUME NEW c \in Call
      PROVE  CallOK(c)'
  <2>1. CallOK(c)
    BY DEF EvidenceInv
  <2>2. Corrected(c)' <=> Corrected(c)
    BY DEF Corrected
  <2> QED BY <1>1, <2>1, <2>2 DEF CallOK, At, Is
<1>5. \A e \in events' : EventOK(e)'
  BY DEF EvidenceInv, EventOK
<1>6. RowsOK'
  BY <1>1 DEF EvidenceInv, RowsOK, From
<1>7. Provenance'
  BY DEF EvidenceInv, Provenance, Says1
<1> QED BY <1>2, <1>3, <1>5, <1>6, <1>7 DEF EvidenceInv

\* Every step keeps the invariant.
LEMMA EvidenceStep == EvidenceInv /\ [EvidenceNext]_evidenceVars => EvidenceInv'
<1> SUFFICES ASSUME EvidenceInv, [EvidenceNext]_evidenceVars
             PROVE  EvidenceInv'
  OBVIOUS
<1>1. ASSUME NEW c \in Call, BeginProvider(c) \/ BeginReceiver(c) \/ BeginRecovery(c)
      PROVE  EvidenceInv'
  BY <1>1, BeginStep
<1>2. ASSUME NEW c \in Call, RunRecovery(c)
      PROVE  EvidenceInv'
  BY <1>2, RunRecoveryStep
<1>3. ASSUME NEW c \in Call, StartTurn(c)
      PROVE  EvidenceInv'
  BY <1>3, StartTurnStep
<1>4. ASSUME NEW c \in Call,
             TurnInProgress(c) \/ Breaks(c) \/ RefusedProvider(c) \/ CaptureNot(c) \/ CallDies(c)
      PROVE  EvidenceInv'
  BY <1>4, StopStep
<1>5. ASSUME NEW c \in Call, StreamEnds(c)
      PROVE  EvidenceInv'
  BY <1>5, StreamEndsStep
<1>6. ASSUME NEW c \in Call, CollectedProvider(c)
      PROVE  EvidenceInv'
  BY <1>6, CollectedStep
<1>7. ASSUME NEW c \in Call, ExtraArguments(c)
      PROVE  EvidenceInv'
  BY <1>7, ExtraArgumentsStep
<1>8. ASSUME NEW c \in Call, Capture(c)
      PROVE  EvidenceInv'
  BY <1>8, CaptureStep
<1>9. ASSUME NEW c \in Call, Observe(c)
      PROVE  EvidenceInv'
  BY <1>9, ObserveStep
<1>10. ASSUME NEW c \in Call, EndRecovery(c)
       PROVE  EvidenceInv'
  BY <1>10, EndRecoveryStep
<1>11. ASSUME NEW t \in DOMAIN turns, TurnEnds(t)
       PROVE  EvidenceInv'
  BY <1>11, TurnEndsStep
<1>12. ASSUME NEW c \in Call, NEW t \in DOMAIN turns, Replay(c, t)
       PROVE  EvidenceInv'
  BY <1>12, ReplayStep
<1>13. CASE SessionLost
  BY <1>13, SessionLostStep DEF SessionLost
<1>14. CASE UNCHANGED evidenceVars
  <2>1. bound \in BOOLEAN
    BY DEF EvidenceInv, EvidenceTypeOK
  <2> QED BY <1>14, <2>1, SessionLostStep DEF evidenceVars
<1> QED
  BY <1>1, <1>2, <1>3, <1>4, <1>5, <1>6, <1>7, <1>8, <1>9, <1>10, <1>11, <1>12, <1>13, <1>14
  DEF EvidenceNext

\* The invariant holds of every behaviour: the theorems below are parts of it.
THEOREM EvidenceInvariance == EvidenceSpec => []EvidenceInv
  BY StartOfEvidence, EvidenceStep, PTL DEF EvidenceSpec

------------------------------------------------------------------------------
(* The theorems                                                            *)

\* Every variable keeps its type, and every turn ends in one of its outcomes.
THEOREM EvidenceTypeCorrect == EvidenceSpec => []EvidenceTypeOK
<1>1. EvidenceInv => EvidenceTypeOK
  BY DEF EvidenceInv
<1> QED BY <1>1, EvidenceInvariance, PTL

\* The snapshot, every observation and the verified repair are the sound answer
\* of a turn of their kind, whatever the agents of the turns did and however
\* calls, crashes and lost sessions interleave; a repair is verified only where
\* the evidence holds the contradiction.
THEOREM Attribution == EvidenceSpec => []EvidenceAttributed
<1>1. EvidenceInv => EvidenceAttributed
  BY DEF EvidenceInv, RowsOK, Contradicted, EvidenceAttributed
<1> QED BY <1>1, EvidenceInvariance, PTL

\* The one transaction of snapshot and event, and the event before it, keep the
\* workflow events and the snapshot in agreement.
THEOREM OneStory == EvidenceSpec => []Provenance
<1>1. EvidenceInv => Provenance
  BY DEF EvidenceInv
<1> QED BY <1>1, EvidenceInvariance, PTL

\* A request's second turn is only there for a first one that is on record as
\* refused for its extra arguments, and that nothing else on record mentions,
\* though other requests may have read that first turn as well.
THEOREM OneCorrection == EvidenceSpec => []CorrectedOnce
<1>1. EvidenceInv => CorrectedOnce
  <2> SUFFICES ASSUME EvidenceInv, NEW c \in Call, call[c].attempt # 1
               PROVE  /\ call[c].attempt = 2 /\ turns[call[c].first].got.is = "extra"
                      /\ {e \in events : e.turn = call[c].first} =
                            {[type |-> "INVESTIGATION_FAILED", turn |-> call[c].first]}
    BY DEF CorrectedOnce
  <2>1. CallOK(c) /\ call[c] \in CallType
    BY DEF EvidenceInv, EvidenceTypeOK, CallType
  <2>2. call[c].attempt = 2
    BY <2>1 DEF CallType
  <2>3. Corrected(c)
    BY <2>1, <2>2 DEF CallOK
  <2>4. \A e \in events : e.turn = call[c].first => e.type = "INVESTIGATION_FAILED"
    <3>1. \A e \in events : EventOK(e)
      BY DEF EvidenceInv
    <3> QED BY <2>3, <3>1 DEF Corrected, EventOK
  <2>5. events \subseteq [type : Workflow, turn : Turn]
    BY DEF EvidenceInv, EvidenceTypeOK
  <2> QED BY <2>2, <2>3, <2>4, <2>5 DEF Corrected
<1> QED BY <1>1, EvidenceInvariance, PTL

HIDE EvidenceAssumption

------------------------------------------------------------------------------
(* Read jobs                                                               *)

Value == {"none", "error", "HEALTHY", "UNHEALTHY", "reading"}
RowType == [state : JobState, gen : Nat, created : Time, leasedAt : Time,
            result : [value : Value, gen : Nat]]
WorkerType == [pc : {"idle", "dispatch", "send", "await", "stopped"}, job : Job \union {None},
               gen : Nat, value : Value, tries : 0..Attempts]
ReceiverType == [state  : {"WAITING_FOR_RECEIVER", "VERIFYING", "READY", "UNHEALTHY"},
                 health : {"none", "HEALTHY", "UNHEALTHY"}, at : Time]

Types ==
    /\ now \in Time
    /\ receiver \in ReceiverType
    /\ rows \in [Job -> RowType]
    /\ reader \in [Job -> {"none", "waiting"}]
    /\ worker \in [Worker -> WorkerType]

Recorded == {"SUCCEEDED", "FAILED"}

RowOK(j) ==
    /\ rows[j].created <= now /\ rows[j].leasedAt <= now
    /\ rows[j].state \in {"NONE", "QUEUED"} => rows[j].gen = 0
    /\ rows[j].state \in {"LEASED"} \union Recorded =>
          rows[j].gen > 0 /\ rows[j].created <= rows[j].leasedAt
    /\ rows[j].state \in Recorded => /\ rows[j].result.value \in Outcome(j)
                                     /\ rows[j].result.gen = rows[j].gen
    /\ rows[j].state \notin Recorded => rows[j].result = NoResult
    /\ rows[j].state = "FAILED" <=> rows[j].result.value = "error"

\* A lease its job has granted, perhaps one of long ago.
Granted(j, gen) == j \in Job /\ gen \in Nat /\ 0 < gen /\ gen <= rows[j].gen

WorkerOK(w) ==
    /\ worker[w].pc # "idle" => Granted(worker[w].job, worker[w].gen)
    /\ worker[w].pc \in {"send", "await"} => worker[w].value \in Outcome(worker[w].job)
    /\ worker[w].pc = "dispatch" => worker[w].tries = 0
    /\ worker[w].pc = "send" => worker[w].tries < Attempts

ReportOK(m) == Granted(m.job, m.gen) /\ m.value \in Outcome(m.job) /\ m.by \in Worker

HealthDone(j) == j \in HealthJob /\ rows[j].state = "SUCCEEDED"

HealthOK ==
    /\ receiver.health = "none" => \A j \in HealthJob : ~HealthDone(j)
    /\ receiver.health # "none" =>
          \E j \in HealthJob : HealthDone(j) /\ receiver.at = rows[j].leasedAt
                                       /\ receiver.health = rows[j].result.value
    /\ \A j \in HealthJob : HealthDone(j) => rows[j].leasedAt <= receiver.at
    /\ receiver.state = "READY" <=> receiver.health = "HEALTHY"

ReadJobsInv ==
    /\ Types
    /\ \A j \in Job : RowOK(j)
    /\ \A w \in Worker : WorkerOK(w)
    /\ \A m \in wire : ReportOK(m)
    /\ HealthOK

USE ReadJobsAssumption

------------------------------------------------------------------------------
(* How the row of a job changes                                            *)

\* What one step may do to the row of a job, with or without an outcome.
Moves(j) ==
    \/ rows'[j] = rows[j]
    \/ rows[j].state = "NONE" /\ rows'[j] = Queued
    \/ Open(j) /\ Overdue(j) /\ rows'[j] = Expired(rows[j])
    \/ j \in Leasable /\ rows'[j] = Leased(rows[j])

RowStep(j) ==
    \/ Moves(j)
    \/ \E m \in wire : m.job = j /\ Completable(m) /\ rows'[j] = Settled(m)

\* A poll expires what is overdue and leases at most one job.
LEMMA PolledStep ==
  ASSUME Types, NEW h \in Job \union {None}, Polled(h)
  PROVE  /\ rows' = [j \in Job |-> rows'[j]]
         /\ \A j \in Job : Moves(j)
         /\ h \in Job => h \in Leasable /\ rows'[h] = Leased(rows[h])
<1>1. \A j \in Job : Swept[j] = rows[j] \/ (Open(j) /\ Overdue(j) /\ Swept[j] = Expired(rows[j]))
  BY DEF Swept
<1>2. CASE h = None
  <2>1. rows' = Swept
    BY <1>2 DEF Polled, Oldest, Leasable
  <2> QED BY <1>1, <1>2, <2>1 DEF Moves, Swept
<1>3. CASE h \in Job
  <2>1. h \in Leasable /\ rows' = [Swept EXCEPT ![h] = Leased(rows[h])]
    BY <1>3 DEF Polled, Oldest
  <2>2. /\ rows' = [j \in Job |-> IF j = h THEN Leased(rows[h]) ELSE Swept[j]]
        /\ rows'[h] = Leased(rows[h])
    BY <1>3, <2>1 DEF Swept
  <2>3. \A j \in Job : Moves(j)
    BY <1>1, <2>1, <2>2 DEF Moves
  <2> QED BY <2>1, <2>2, <2>3
<1> QED BY <1>2, <1>3

\* Every step is a step of each row, in which time may not pass meanwhile.
LEMMA RowSteps ==
  ASSUME ReadJobsInv, Next
  PROVE  /\ rows' = [j \in Job |-> rows'[j]]
         /\ \A j \in Job : RowStep(j)
         /\ now' \in Time /\ now <= now'
<1>1. rows \in [Job -> RowType] /\ now \in Time
  BY DEF ReadJobsInv, Types
<1>2. CASE UNCHANGED rows /\ (Tick \/ UNCHANGED now)
  BY <1>1, <1>2 DEF RowStep, Moves, Tick, Time
<1>3. ASSUME NEW h \in Job \union {None}, Polled(h)
      PROVE  /\ rows' = [j \in Job |-> rows'[j]] /\ \A j \in Job : RowStep(j)
             /\ UNCHANGED now
  BY <1>3, PolledStep DEF ReadJobsInv, Polled, RowStep
<1>4. ASSUME NEW j \in Job, rows[j].state = "NONE", rows' = [rows EXCEPT ![j] = Queued]
      PROVE  rows' = [k \in Job |-> rows'[k]] /\ \A k \in Job : RowStep(k)
  BY <1>1, <1>4 DEF RowStep, Moves
<1>5. ASSUME NEW m \in wire, CompleteRecords(m)
      PROVE  rows' = [k \in Job |-> rows'[k]] /\ \A k \in Job : RowStep(k)
  <2>1. m.job \in Job /\ Completable(m) /\ rows' = [rows EXCEPT ![m.job] = Settled(m)]
    BY <1>5 DEF CompleteRecords, ReadJobsInv, ReportOK, Granted
  <2> QED BY <1>1, <2>1 DEF RowStep, Moves
<1>6. ASSUME NEW m \in wire, CompleteFenced(m)
      PROVE  rows' = [k \in Job |-> rows'[k]] /\ \A k \in Job : RowStep(k)
  <2>1. m.job \in Job
    BY DEF ReadJobsInv, ReportOK, Granted
  <2> QED BY <1>1, <1>6, <2>1 DEF CompleteFenced, RowStep, Moves
<1>7. CASE Tick \/ LeaseLost
  BY <1>1, <1>2, <1>3, <1>7 DEF Tick, LeaseLost, Time
<1>8. ASSUME NEW j \in Job, Enroll(j) \/ Ask(j) \/ Poll(j)
      PROVE  /\ rows' = [k \in Job |-> rows'[k]] /\ \A k \in Job : RowStep(k)
             /\ UNCHANGED now
  BY <1>2, <1>4, <1>8 DEF Enroll, Ask, Creatable, Poll, PollFinds, PollTimesOut
<1>9. ASSUME NEW w \in Worker,
             LeaseNext(w) \/ Dispatch(w) \/ Send(w) \/ NoAnswer(w) \/ Crash(w)
      PROVE  /\ rows' = [k \in Job |-> rows'[k]] /\ \A k \in Job : RowStep(k)
             /\ UNCHANGED now
  BY <1>2, <1>3, <1>9 DEF LeaseNext, Dispatch, Send, NoAnswer, Crash
<1>10. ASSUME NEW m \in wire, CompleteReplays(m) \/ CompleteRejected(m)
       PROVE  /\ rows' = [k \in Job |-> rows'[k]] /\ \A k \in Job : RowStep(k)
              /\ UNCHANGED now
  BY <1>2, <1>10 DEF CompleteReplays, CompleteRejected
<1>11. UNCHANGED now => now' \in Time /\ now <= now'
  BY <1>1 DEF Time
<1> QED BY <1>5, <1>6, <1>7, <1>8, <1>9, <1>10, <1>11
        DEF Next, CompleteRecords, CompleteFenced

\* What each kind of change makes of a row.
LEMMA RowEdges ==
  ASSUME Types, NEW j \in Job
  PROVE  /\ rows[j] \in RowType
         /\ Queued \in RowType /\ Queued.state = "QUEUED" /\ Queued.gen = 0
            /\ Queued.created = now /\ Queued.leasedAt = 0 /\ Queued.result = NoResult
         /\ Expired(rows[j]) \in RowType /\ Expired(rows[j]).state = "EXPIRED"
            /\ Expired(rows[j]).gen = rows[j].gen /\ Expired(rows[j]).created = rows[j].created
            /\ Expired(rows[j]).leasedAt = rows[j].leasedAt
            /\ Expired(rows[j]).result = rows[j].result
         /\ Leased(rows[j]) \in RowType /\ Leased(rows[j]).state = "LEASED"
            /\ Leased(rows[j]).gen = rows[j].gen + 1 /\ Leased(rows[j]).created = rows[j].created
            /\ Leased(rows[j]).leasedAt = now /\ Leased(rows[j]).result = rows[j].result
         /\ NoResult.value = "none" /\ NoResult.gen = 0
<1>1. rows[j] \in RowType /\ now \in Time /\ 0 \in Time
  BY DEF Types, Time
<1>2. Queued \in RowType /\ Queued.state = "QUEUED" /\ Queued.gen = 0
      /\ Queued.created = now /\ Queued.leasedAt = 0 /\ Queued.result = NoResult
  BY <1>1 DEF Queued, Absent, NoResult, RowType, JobState, Value
<1>3. Expired(rows[j]) \in RowType /\ Expired(rows[j]).state = "EXPIRED"
      /\ Expired(rows[j]).gen = rows[j].gen /\ Expired(rows[j]).created = rows[j].created
      /\ Expired(rows[j]).leasedAt = rows[j].leasedAt
      /\ Expired(rows[j]).result = rows[j].result
  BY <1>1 DEF Expired, RowType, JobState
<1>4. Leased(rows[j]) \in RowType /\ Leased(rows[j]).state = "LEASED"
      /\ Leased(rows[j]).gen = rows[j].gen + 1 /\ Leased(rows[j]).created = rows[j].created
      /\ Leased(rows[j]).leasedAt = now /\ Leased(rows[j]).result = rows[j].result
  <2>1. "LEASED" \in JobState /\ rows[j].gen \in Nat /\ rows[j].gen + 1 \in Nat
    BY <1>1 DEF RowType, JobState
  <2> QED BY <1>1, <2>1 DEF Leased, RowType
<1> QED BY <1>1, <1>2, <1>3, <1>4 DEF NoResult

\* The row a report leaves behind.
LEMMA SettledRow ==
  ASSUME ReadJobsInv, NEW m \in wire
  PROVE  /\ m.job \in Job /\ Settled(m) \in RowType
         /\ Settled(m).state = (IF m.value = "error" THEN "FAILED" ELSE "SUCCEEDED")
         /\ Settled(m).result.value = m.value /\ Settled(m).result.gen = m.gen
         /\ Settled(m).gen = rows[m.job].gen /\ Settled(m).created = rows[m.job].created
         /\ Settled(m).leasedAt = rows[m.job].leasedAt
<1>1. m.job \in Job /\ m.gen \in Nat /\ m.value \in Value /\ rows[m.job] \in RowType
  BY DEF ReadJobsInv, Types, ReportOK, Granted, Outcome, Value
<1> QED BY <1>1 DEF Settled, RowType, JobState

\* A row keeps its type and what is known of it, its generation only grows,
\* and an ended row does not change.
LEMMA RowSafe ==
  ASSUME ReadJobsInv, NEW j \in Job, RowStep(j), now' \in Time, now <= now'
  PROVE  /\ rows'[j] \in RowType /\ RowOK(j)'
         /\ rows[j].gen <= rows'[j].gen
         /\ rows[j].state \in Terminal => rows'[j] = rows[j]
<1>1. /\ RowOK(j) /\ rows[j] \in RowType /\ now \in Time
      /\ NoResult.value = "none" /\ NoResult.gen = 0
  BY RowEdges DEF ReadJobsInv, Types
<1>2. CASE rows'[j] = rows[j]
  BY <1>1, <1>2 DEF RowOK, RowType, Time
<1>3. CASE rows[j].state = "NONE" /\ rows'[j] = Queued
  BY <1>1, <1>3, RowEdges DEF ReadJobsInv, RowOK, RowType, Time, Recorded, Terminal
<1>4. CASE Open(j) /\ Overdue(j) /\ rows'[j] = Expired(rows[j])
  BY <1>1, <1>4, RowEdges DEF ReadJobsInv, RowOK, RowType, Time, Recorded, Terminal, Open
<1>5. CASE j \in Leasable /\ rows'[j] = Leased(rows[j])
  <2>1. rows[j].state \in {"QUEUED", "LEASED"}
    BY <1>5 DEF Leasable, Open
  <2> QED BY <1>1, <1>5, <2>1, RowEdges DEF ReadJobsInv, RowOK, RowType, Time, Recorded, Terminal
<1>6. ASSUME NEW m \in wire, m.job = j, Completable(m), rows'[j] = Settled(m)
      PROVE  /\ rows'[j] \in RowType /\ RowOK(j)'
             /\ rows[j].gen <= rows'[j].gen
             /\ rows[j].state \in Terminal => rows'[j] = rows[j]
  <2>1. rows[j].state = "LEASED" /\ rows[j].gen = m.gen /\ m.value \in Outcome(j)
    BY <1>6 DEF Completable, ReadJobsInv, ReportOK
  <2>2. m.value # "none" /\ rows'[j].state \in Recorded
    BY <1>6, <2>1, SettledRow DEF Outcome, Recorded
  <2> QED BY <1>1, <1>6, <2>1, <2>2, SettledRow DEF RowOK, RowType, Time, Recorded, Terminal
<1> QED BY <1>2, <1>3, <1>4, <1>5, <1>6 DEF RowStep, Moves

------------------------------------------------------------------------------
(* The processes, their reports and the tool calls                         *)

\* What was granted stays granted: generations only grow.
LEMMA GrantedStays ==
  ASSUME ReadJobsInv, Next, NEW j, NEW gen, Granted(j, gen)
  PROVE  j \in Job /\ gen \in Nat /\ 0 < gen /\ gen <= rows'[j].gen
<1>1. j \in Job /\ gen \in Nat /\ rows[j] \in RowType
  BY DEF ReadJobsInv, Types, Granted
<1>2. rows'[j] \in RowType /\ rows[j].gen <= rows'[j].gen
  BY <1>1, RowSteps, RowSafe
<1> QED BY <1>1, <1>2 DEF Granted, RowType

\* A process that goes on, with what it does then.
LEMMA WorkerSafe ==
  ASSUME ReadJobsInv, Next, NEW w \in Worker, NEW s \in WorkerType,
         worker' = [worker EXCEPT ![w] = s],
         s.pc # "idle" =>
           s.job \in Job /\ s.gen \in Nat /\ 0 < s.gen /\ s.gen <= rows'[s.job].gen,
         s.pc \in {"send", "await"} => s.value \in Outcome(s.job),
         s.pc = "dispatch" => s.tries = 0,
         s.pc = "send" => s.tries < Attempts
  PROVE  worker' \in [Worker -> WorkerType] /\ \A v \in Worker : WorkerOK(v)'
<1>1. /\ worker \in [Worker -> WorkerType] /\ worker' \in [Worker -> WorkerType]
      /\ worker'[w] = s /\ \A v \in Worker \ {w} : worker'[v] = worker[v]
  BY DEF ReadJobsInv, Types
<1>2. WorkerOK(w)'
  BY <1>1 DEF WorkerOK, Granted
<1>3. ASSUME NEW v \in Worker \ {w}
      PROVE  WorkerOK(v)'
  BY <1>1, GrantedStays DEF ReadJobsInv, WorkerOK, Granted
<1> QED BY <1>1, <1>2, <1>3

\* A process at rest.
LEMMA OffRow ==
  Off \in WorkerType /\ Off.pc = "idle" /\ Off.tries = 0 /\ 0 < Attempts
<1>1. Attempts \in Nat \ {0}
  OBVIOUS
<1> QED BY <1>1 DEF Off, WorkerType, Value

\* No step but its own changes a process, and its own keep what is known of it.
LEMMA WorkerInv ==
  ASSUME ReadJobsInv, Next
  PROVE  worker' \in [Worker -> WorkerType] /\ \A v \in Worker : WorkerOK(v)'
<1> DEFINE Goal == worker' \in [Worker -> WorkerType] /\ \A v \in Worker : WorkerOK(v)'
<1>1. /\ worker \in [Worker -> WorkerType] /\ now \in Time /\ rows \in [Job -> RowType]
      /\ \A w \in Worker : worker[w] \in WorkerType /\ WorkerOK(w)
  BY DEF ReadJobsInv, Types
<1>2. ASSUME UNCHANGED worker
      PROVE  Goal
  BY <1>1, <1>2, GrantedStays DEF WorkerOK, Granted
<1>3. ASSUME NEW w \in Worker, worker' = [worker EXCEPT ![w] = Off]
      PROVE  Goal
  BY <1>3, OffRow, WorkerSafe
<1>4. ASSUME NEW w \in Worker, LeaseNext(w)
      PROVE  Goal
  <2>1. PICK h \in Job \union {None} :
          /\ Polled(h)
          /\ worker' = IF h = None THEN worker ELSE [worker EXCEPT ![w] = Handed(h)]
    BY <1>4 DEF LeaseNext
  <2>2. CASE h = None
    BY <1>2, <2>1, <2>2
  <2>3. CASE h \in Job
    <3>1. rows'[h] = Leased(rows[h]) /\ worker' = [worker EXCEPT ![w] = Handed(h)]
      BY <2>1, <2>3, PolledStep DEF ReadJobsInv
    <3>2. rows[h] \in RowType /\ Leased(rows[h]).gen = rows[h].gen + 1
      BY <1>1, <2>3, RowEdges DEF ReadJobsInv
    <3>3. rows[h].gen \in Nat /\ rows[h].gen + 1 \in Nat /\ 0 < rows[h].gen + 1
      BY <3>2 DEF RowType
    <3>4. /\ Handed(h) \in WorkerType /\ Handed(h).pc = "dispatch" /\ Handed(h).tries = 0
          /\ Handed(h).job = h /\ Handed(h).gen = rows[h].gen + 1
      BY <2>3, <3>2, <3>3, OffRow DEF Handed, WorkerType
    <3>5. rows'[h].gen = rows[h].gen + 1
      BY <3>1, <3>2
    <3>6. PICK s \in WorkerType :
            /\ worker' = [worker EXCEPT ![w] = s] /\ s.pc = "dispatch" /\ s.tries = 0
            /\ s.job = h /\ s.gen = rows'[h].gen
      BY <3>1, <3>4, <3>5
    <3>7. s.job \in Job /\ s.gen \in Nat /\ 0 < s.gen /\ s.gen <= rows'[s.job].gen
      BY <2>3, <3>3, <3>5, <3>6
    <3> QED BY <3>6, <3>7, WorkerSafe
  <2> QED BY <2>2, <2>3
<1>5. ASSUME NEW w \in Worker, Dispatch(w)
      PROVE  Goal
  <2>1. PICK v \in Outcome(worker[w].job) :
          worker' = [worker EXCEPT ![w].pc = "send", ![w].value = v]
    BY <1>5 DEF Dispatch
  <2> DEFINE s == [worker[w] EXCEPT !.pc = "send", !.value = v]
  <2>2. v \in Value /\ worker[w].pc = "dispatch" /\ Granted(worker[w].job, worker[w].gen)
        /\ worker[w].tries = 0
    BY <1>1, <1>5 DEF Dispatch, WorkerOK, Outcome, Value
  <2>3. /\ s \in WorkerType /\ s.pc = "send" /\ s.value = v /\ s.job = worker[w].job
        /\ s.gen = worker[w].gen /\ s.tries = 0
    BY <1>1, <2>2 DEF WorkerType
  <2>4. worker' = [worker EXCEPT ![w] = s]
    BY <2>1
  <2> HIDE DEF s
  <2> QED BY <2>2, <2>3, <2>4, OffRow, GrantedStays, WorkerSafe
<1>6. ASSUME NEW w \in Worker, Send(w)
      PROVE  Goal
  <2> DEFINE s == [worker[w] EXCEPT !.pc = "await", !.tries = @ + 1]
  <2>1. worker[w].pc = "send" /\ worker' = [worker EXCEPT ![w] = s]
    BY <1>6 DEF Send
  <2>2. /\ Granted(worker[w].job, worker[w].gen) /\ worker[w].value \in Outcome(worker[w].job)
        /\ worker[w].tries + 1 \in 0..Attempts
    BY <1>1, <2>1 DEF WorkerOK, WorkerType
  <2>3. /\ s \in WorkerType /\ s.pc = "await" /\ s.value = worker[w].value
        /\ s.job = worker[w].job /\ s.gen = worker[w].gen
    BY <1>1, <2>2 DEF WorkerType
  <2> HIDE DEF s
  <2> QED BY <2>1, <2>2, <2>3, GrantedStays, WorkerSafe
<1>7. ASSUME NEW w \in Worker, NoAnswer(w)
      PROVE  Goal
  <2> DEFINE s == [worker[w] EXCEPT !.pc = "send"]
  <2>1. worker[w].pc = "await"
    BY <1>7 DEF NoAnswer
  <2>2. CASE worker[w].tries < Attempts /\ worker' = [worker EXCEPT ![w] = s]
    <3>1. /\ Granted(worker[w].job, worker[w].gen)
          /\ worker[w].value \in Outcome(worker[w].job)
      BY <1>1, <2>1 DEF WorkerOK
    <3>2. /\ s \in WorkerType /\ s.pc = "send" /\ s.value = worker[w].value
          /\ s.job = worker[w].job /\ s.gen = worker[w].gen /\ s.tries = worker[w].tries
      BY <1>1 DEF WorkerType
    <3> HIDE DEF s
    <3> QED BY <2>2, <3>1, <3>2, GrantedStays, WorkerSafe
  <2> QED BY <1>3, <1>7, <2>2 DEF NoAnswer
<1>8. ASSUME NEW m \in wire, NEW answer, Answer(m, answer)
      PROVE  Goal
  <2>1. CASE UNCHANGED worker
    BY <1>2, <2>1
  <2>2. CASE worker[m.by].pc = "await" /\ worker' = Finish(m.by, answer)
    <3> DEFINE w == m.by
               s == [worker[w] EXCEPT !.pc = "stopped"]
    <3>1. w \in Worker
      BY DEF ReadJobsInv, ReportOK
    <3>2. CASE worker' = [worker EXCEPT ![w] = s]
      <4>1. Granted(worker[w].job, worker[w].gen)
        BY <1>1, <2>2, <3>1 DEF WorkerOK
      <4>2. /\ s \in WorkerType /\ s.pc = "stopped"
            /\ s.job = worker[w].job /\ s.gen = worker[w].gen
        BY <1>1, <3>1 DEF WorkerType
      <4> HIDE DEF s
      <4> QED BY <3>1, <3>2, <4>1, <4>2, GrantedStays, WorkerSafe
    <3> QED BY <1>3, <2>2, <3>1, <3>2 DEF Finish
  <2> QED BY <1>8, <2>1, <2>2 DEF Answer
<1>9. ASSUME NEW w \in Worker, Crash(w)
      PROVE  Goal
  BY <1>3, <1>9 DEF Crash
<1>10. ASSUME NEW m \in wire, \/ CompleteRecords(m) \/ CompleteReplays(m)
                              \/ CompleteRejected(m) \/ CompleteFenced(m)
       PROVE  Goal
  BY <1>8, <1>10 DEF CompleteRecords, CompleteReplays, CompleteRejected, CompleteFenced
<1>11. CASE Tick \/ LeaseLost \/ \E j \in Job : Enroll(j) \/ Ask(j) \/ Poll(j)
  BY <1>2, <1>11 DEF Tick, LeaseLost, Enroll, Ask, Poll, PollFinds, PollTimesOut
<1> QED BY <1>4, <1>5, <1>6, <1>7, <1>9, <1>10, <1>11 DEF Next

\* The reports on their way, and the tool calls that wait.
LEMMA WireInv ==
  ASSUME ReadJobsInv, Next
  PROVE  /\ \A m \in wire' : ReportOK(m)'
         /\ wire \subseteq wire'
         /\ reader' \in [Job -> {"none", "waiting"}]
<1>1. reader \in [Job -> {"none", "waiting"}]
  BY DEF ReadJobsInv, Types
<1>2. ASSUME NEW m \in wire
      PROVE  ReportOK(m)'
  BY GrantedStays DEF ReadJobsInv, ReportOK, Granted
<1>3. ASSUME NEW w \in Worker, Send(w)
      PROVE  /\ wire \subseteq wire' /\ UNCHANGED reader
             /\ \A m \in wire' : ReportOK(m)'
  <2>1. Granted(worker[w].job, worker[w].gen) /\ worker[w].value \in Outcome(worker[w].job)
    BY <1>3 DEF ReadJobsInv, WorkerOK, Send
  <2>2. wire' = wire \union {Report(w)} /\ UNCHANGED reader
    BY <1>3 DEF Send
  <2>3. ASSUME NEW m, m = Report(w)
        PROVE  ReportOK(m)'
    <3>1. /\ m.job = worker[w].job /\ m.gen = worker[w].gen /\ m.value = worker[w].value
          /\ m.by = w
      BY <2>3 DEF Report
    <3> QED BY <2>1, <3>1, GrantedStays DEF ReportOK, Granted
  <2> QED BY <1>2, <2>2, <2>3
<1>4. CASE Tick \/ LeaseLost \/ \E j \in Job : Enroll(j) \/ Ask(j) \/ Poll(j)
  <2>1. UNCHANGED wire
    BY <1>4 DEF Tick, LeaseLost, Polled, Enroll, Ask, Poll, PollFinds, PollTimesOut
  <2>2. reader' \in [Job -> {"none", "waiting"}]
    BY <1>1, <1>4 DEF Tick, LeaseLost, Polled, Enroll, Ask, Poll, PollFinds, PollTimesOut
  <2> QED BY <1>2, <2>1, <2>2
<1>5. CASE \E w \in Worker : LeaseNext(w) \/ Dispatch(w) \/ NoAnswer(w) \/ Crash(w)
  <2>1. UNCHANGED <<wire, reader>>
    BY <1>5 DEF LeaseNext, Polled, Dispatch, NoAnswer, Crash
  <2> QED BY <1>1, <1>2, <2>1
<1>6. CASE \E m \in wire : \/ CompleteRecords(m) \/ CompleteReplays(m)
                            \/ CompleteRejected(m) \/ CompleteFenced(m)
  <2>1. UNCHANGED <<wire, reader>>
    BY <1>6 DEF CompleteRecords, CompleteReplays, CompleteRejected, CompleteFenced
  <2> QED BY <1>1, <1>2, <2>1
<1> QED BY <1>1, <1>2, <1>3, <1>4, <1>5, <1>6 DEF Next

------------------------------------------------------------------------------
(* The receiver's health                                                   *)

\* A step that records no health result and leaves the health as it is.
LEMMA HealthSafe ==
  ASSUME ReadJobsInv, Next, receiver'.health = receiver.health, receiver'.at = receiver.at,
         receiver'.state = "READY" <=> receiver.state = "READY",
         \A j \in HealthJob : rows'[j].state = "SUCCEEDED" => rows[j].state = "SUCCEEDED"
  PROVE  HealthOK'
<1>1. \A j \in HealthJob : rows[j].state = "SUCCEEDED" => rows'[j] = rows[j]
  BY RowSteps, RowSafe DEF Terminal
<1>2. \A j \in HealthJob : HealthDone(j)' <=> HealthDone(j)
  BY <1>1 DEF HealthDone
<1>3. \A j \in HealthJob : HealthDone(j) => rows'[j] = rows[j]
  BY <1>1 DEF HealthDone
<1>4. HealthOK
  BY DEF ReadJobsInv
<1> QED BY <1>2, <1>3, <1>4 DEF HealthOK

\* A health result is recorded: it becomes the receiver's health if its lease
\* is the newest.
LEMMA RecordsHealth ==
  ASSUME ReadJobsInv, Next, NEW m \in wire, CompleteRecords(m)
  PROVE  HealthOK' /\ receiver' \in ReceiverType
<1> DEFINE j == m.job
<1>1. /\ j \in Job /\ Completable(m) /\ rows \in [Job -> RowType] /\ rows[j].leasedAt \in Time
      /\ rows' = [rows EXCEPT ![j] = Settled(m)] /\ receiver' = HealthAfter(m)
      /\ receiver \in ReceiverType /\ HealthOK /\ m.value \in Outcome(j)
  BY DEF CompleteRecords, ReadJobsInv, Types, ReportOK, Granted, RowType
<1>2. /\ rows'[j].state = (IF m.value = "error" THEN "FAILED" ELSE "SUCCEEDED")
      /\ rows'[j].leasedAt = rows[j].leasedAt /\ rows'[j].result.value = m.value
      /\ \A k \in Job \ {j} : rows'[k] = rows[k]
  BY <1>1, SettledRow
<1>3. rows[j].state = "LEASED"
  BY <1>1 DEF Completable
<1>4. CASE ~(j \in HealthJob /\ m.value # "error")
  <2>1. receiver' = receiver
    BY <1>1, <1>4 DEF HealthAfter
  <2>2. \A k \in HealthJob : rows'[k].state = "SUCCEEDED" => rows[k].state = "SUCCEEDED"
    BY <1>2, <1>4
  <2> QED BY <1>1, <2>1, <2>2, HealthSafe
<1>5. CASE j \in HealthJob /\ m.value # "error"
  <2>1. /\ \A k \in HealthJob : HealthDone(k)' <=> HealthDone(k) \/ k = j
        /\ \A k \in HealthJob \ {j} : rows'[k] = rows[k]
        /\ ~HealthDone(j) /\ HealthDone(j)'
    BY <1>1, <1>2, <1>3, <1>5 DEF HealthDone
  <2>2. m.value \in {"HEALTHY", "UNHEALTHY"}
    BY <1>1, <1>5 DEF Outcome
  <2>3. \A k \in HealthJob : rows[k].leasedAt \in Nat
    BY <1>1 DEF RowType, Time
  <2>4. receiver.at \in Nat
    BY <1>1 DEF ReceiverType, Time
  <2>5. CASE receiver.health = "none" \/ rows[j].leasedAt > receiver.at
    <3>1. receiver' = [state  |-> IF m.value = "HEALTHY" THEN "READY" ELSE "UNHEALTHY",
                       health |-> m.value, at |-> rows[j].leasedAt]
      BY <1>1, <1>5, <2>5 DEF HealthAfter
    <3>2. receiver' \in ReceiverType
      BY <1>1, <2>2, <3>1 DEF ReceiverType
    <3>3. /\ receiver'.health = m.value /\ receiver'.at = rows[j].leasedAt
          /\ receiver'.state = "READY" <=> receiver'.health = "HEALTHY"
      BY <2>2, <3>1
    <3>4. \A k \in HealthJob : HealthDone(k)' => rows'[k].leasedAt <= receiver'.at
      <4>1. ASSUME NEW k \in HealthJob \ {j}, HealthDone(k)
            PROVE  rows[k].leasedAt <= rows[j].leasedAt
        <5>1. receiver.health # "none" /\ rows[k].leasedAt <= receiver.at
          BY <1>1, <4>1 DEF HealthOK
        <5> QED BY <1>5, <2>3, <2>4, <2>5, <5>1
      <4>2. rows[j].leasedAt <= rows[j].leasedAt
        BY <1>5, <2>3
      <4> QED BY <1>2, <2>1, <3>3, <4>1, <4>2
    <3> QED BY <1>2, <1>5, <2>1, <2>2, <3>2, <3>3, <3>4 DEF HealthOK
  <2>6. CASE ~(receiver.health = "none" \/ rows[j].leasedAt > receiver.at)
    <3>1. receiver' = receiver
      BY <1>1, <2>6 DEF HealthAfter
    <3>2. rows'[j].leasedAt <= receiver.at
      BY <1>2, <1>5, <2>3, <2>4, <2>6
    <3>3. PICK k \in HealthJob : HealthDone(k) /\ receiver.at = rows[k].leasedAt
                                 /\ receiver.health = rows[k].result.value
      BY <1>1, <2>6 DEF HealthOK
    <3>4. k # j /\ rows'[k] = rows[k] /\ HealthDone(k)'
      BY <2>1, <3>3
    <3>5. \A i \in HealthJob : HealthDone(i)' => rows'[i].leasedAt <= receiver.at
      BY <1>1, <2>1, <3>2 DEF HealthOK
    <3>6. receiver.health # "none" /\ (receiver.state = "READY" <=> receiver.health = "HEALTHY")
      BY <1>1, <2>6 DEF HealthOK
    <3> QED BY <1>1, <3>1, <3>3, <3>4, <3>5, <3>6 DEF HealthOK
  <2> QED BY <2>5, <2>6
<1> QED BY <1>4, <1>5

\* Every step keeps the health that of the newest lease.
LEMMA HealthInv ==
  ASSUME ReadJobsInv, Next
  PROVE  HealthOK' /\ receiver' \in ReceiverType
<1>1. /\ receiver \in ReceiverType /\ now \in Time /\ rows \in [Job -> RowType]
      /\ \A j \in Job : RowOK(j) /\ rows[j] \in RowType
  BY DEF ReadJobsInv, Types
<1>2. ASSUME NEW j \in Job, Moves(j)
      PROVE  rows'[j].state = "SUCCEEDED" => rows[j].state = "SUCCEEDED"
  BY <1>2, RowEdges DEF ReadJobsInv, Moves
<1>3. ASSUME UNCHANGED receiver, \A j \in Job : Moves(j)
      PROVE  HealthOK' /\ receiver' \in ReceiverType
  BY <1>1, <1>2, <1>3, HealthSafe
<1>4. ASSUME UNCHANGED <<receiver, rows>>
      PROVE  HealthOK' /\ receiver' \in ReceiverType
  BY <1>3, <1>4 DEF Moves
<1>5. ASSUME NEW h \in Job \union {None}, Polled(h)
      PROVE  HealthOK' /\ receiver' \in ReceiverType
  BY <1>3, <1>5, PolledStep DEF ReadJobsInv, Polled
<1>6. ASSUME NEW j \in Job, Enroll(j)
      PROVE  HealthOK' /\ receiver' \in ReceiverType
  <2>1. /\ receiver' = [receiver EXCEPT !.state = "VERIFYING"]
        /\ receiver.state = "WAITING_FOR_RECEIVER"
        /\ rows' = [rows EXCEPT ![j] = Queued] /\ rows[j].state = "NONE"
    BY <1>6 DEF Enroll, Creatable
  <2>2. \A k \in Job : Moves(k)
    BY <1>1, <2>1 DEF Moves
  <2>3. /\ receiver' \in ReceiverType /\ receiver'.state = "VERIFYING"
        /\ receiver'.health = receiver.health /\ receiver'.at = receiver.at
    BY <1>1, <2>1 DEF ReceiverType
  <2> QED BY <1>2, <2>1, <2>2, <2>3, HealthSafe
<1>7. ASSUME NEW j \in Job, Ask(j)
      PROVE  HealthOK' /\ receiver' \in ReceiverType
  <2>1. \A k \in Job : Moves(k)
    BY <1>1, <1>7 DEF Moves, Ask, Creatable
  <2> QED BY <1>3, <1>7, <2>1 DEF Ask
<1>8. ASSUME NEW m \in wire, CompleteFenced(m)
      PROVE  HealthOK' /\ receiver' \in ReceiverType
  <2>1. \A k \in Job : Moves(k)
    BY <1>1, <1>8 DEF Moves, CompleteFenced, ReadJobsInv, ReportOK, Granted
  <2> QED BY <1>3, <1>8, <2>1 DEF CompleteFenced
<1>9. CASE Tick \/ LeaseLost
  BY <1>4, <1>5, <1>9 DEF Tick, LeaseLost
<1>10. CASE \E j \in Job : Poll(j)
  BY <1>4, <1>10 DEF Poll, PollFinds, PollTimesOut
<1>11. ASSUME NEW w \in Worker,
              LeaseNext(w) \/ Dispatch(w) \/ Send(w) \/ NoAnswer(w) \/ Crash(w)
       PROVE  HealthOK' /\ receiver' \in ReceiverType
  BY <1>4, <1>5, <1>11 DEF LeaseNext, Dispatch, Send, NoAnswer, Crash
<1>12. ASSUME NEW m \in wire, CompleteReplays(m) \/ CompleteRejected(m)
       PROVE  HealthOK' /\ receiver' \in ReceiverType
  BY <1>4, <1>12 DEF CompleteReplays, CompleteRejected
<1> QED BY <1>6, <1>7, <1>8, <1>9, <1>10, <1>11, <1>12, RecordsHealth DEF Next

------------------------------------------------------------------------------
(* The theorems                                                            *)

\* At the start there is no job, no report and no health.
LEMMA ReadJobsStart == Init => ReadJobsInv
<1> SUFFICES ASSUME Init PROVE ReadJobsInv
  OBVIOUS
<1>1. 0 \in Time /\ MaxNow \in Nat
  BY DEF Time
<1>2. /\ Absent \in RowType /\ Absent.state = "NONE" /\ Absent.gen = 0 /\ Absent.created = 0
      /\ Absent.leasedAt = 0 /\ Absent.result = NoResult /\ NoResult.value = "none"
  BY <1>1 DEF Absent, NoResult, RowType, JobState, Value
<1>3. Types
  BY <1>1, <1>2, OffRow DEF Init, Types, ReceiverType
<1>4. \A j \in Job : RowOK(j)
  BY <1>2 DEF Init, RowOK, Recorded
<1>5. \A w \in Worker : WorkerOK(w)
  BY OffRow DEF Init, WorkerOK
<1>6. HealthOK
  BY <1>2 DEF Init, HealthOK, HealthDone
<1> QED BY <1>3, <1>4, <1>5, <1>6 DEF ReadJobsInv, Init

\* Every step keeps the invariant.
LEMMA ReadJobsStep == ReadJobsInv /\ [Next]_vars => ReadJobsInv'
<1> SUFFICES ASSUME ReadJobsInv, [Next]_vars PROVE ReadJobsInv'
  OBVIOUS
<1>1. CASE Next
  <2>1. rows' \in [Job -> RowType] /\ \A j \in Job : RowOK(j)'
    BY <1>1, RowSteps, RowSafe
  <2>2. now' \in Time
    BY <1>1, RowSteps
  <2> QED BY <1>1, <2>1, <2>2, WorkerInv, WireInv, HealthInv DEF ReadJobsInv, Types
<1>2. CASE UNCHANGED vars
  BY <1>2 DEF vars, ReadJobsInv, Types, RowOK, WorkerOK, ReportOK, Granted, HealthOK, HealthDone
<1> QED BY <1>1, <1>2

\* Every state of the read jobs satisfies the invariant.
THEOREM ReadJobsInvariance == Spec => []ReadJobsInv
  BY ReadJobsStart, ReadJobsStep, PTL DEF Spec

\* ReadJobs's variables keep their types: rows, times, processes, reports.
THEOREM ReadJobsTypeCorrect == Spec => []TypeOK
<1>1. ASSUME ReadJobsInv
      PROVE  TypeOK
  <2>1. now \in Time /\ receiver \in ReceiverType /\ rows \in [Job -> RowType]
        /\ reader \in [Job -> {"none", "waiting"}] /\ worker \in [Worker -> WorkerType]
    BY <1>1 DEF ReadJobsInv, Types
  <2>2. ASSUME NEW j \in Job
        PROVE  /\ rows[j].state \in JobState /\ rows[j].gen \in Nat
               /\ rows[j].created \in 0..now /\ rows[j].leasedAt \in 0..now
               /\ rows[j].state = "QUEUED" => rows[j].gen = 0
               /\ rows[j].state \in {"LEASED", "SUCCEEDED", "FAILED"} =>
                   rows[j].gen > 0 /\ rows[j].created <= rows[j].leasedAt
               /\ rows[j].result \in Result(j) \union {NoResult}
               /\ (rows[j].result = NoResult) = (rows[j].state \notin {"SUCCEEDED", "FAILED"})
               /\ (rows[j].state = "FAILED") = (rows[j].result.value = "error")
    <3>1. RowOK(j) /\ rows[j] \in RowType
      BY <1>1, <2>1 DEF ReadJobsInv
    <3>2. rows[j].state \in Recorded => rows[j].result # NoResult /\ rows[j].result \in Result(j)
      BY <3>1 DEF RowOK, RowType, Outcome, NoResult, Result
    <3> QED BY <2>1, <3>1, <3>2 DEF RowOK, RowType, Recorded, Time
  <2>3. ASSUME NEW w \in Worker
        PROVE  /\ worker[w].pc \in {"idle", "dispatch", "send", "await", "stopped"}
               /\ worker[w].tries \in 0..Attempts
               /\ worker[w].pc # "idle" => worker[w].job \in Job /\ worker[w].gen > 0
    BY <1>1, <2>1 DEF ReadJobsInv, WorkerOK, WorkerType, Granted
  <2>4. ASSUME NEW m \in wire
        PROVE  m.by \in Worker /\ m.gen > 0 /\ m.value \in Outcome(m.job)
    BY <1>1 DEF ReadJobsInv, ReportOK, Granted
  <2> QED BY <2>1, <2>2, <2>3, <2>4 DEF TypeOK, ReceiverType
<1> QED BY <1>1, ReadJobsInvariance, PTL

\* A recorded outcome was observed under the last lease of its job, however
\* the report of an earlier one is delayed or repeated.
THEOREM LastLease == Spec => []RecordedUnderLastLease
<1>1. ReadJobsInv => RecordedUnderLastLease
  BY DEF ReadJobsInv, RowOK, Recorded, RecordedUnderLastLease
<1> QED BY <1>1, ReadJobsInvariance, PTL

\* The receiver's health is that of the completed health job leased last, in
\* whatever order the results arrive, and READY means HEALTHY.
THEOREM NewestHealth == Spec => []HealthIsNewest
<1>1. ASSUME ReadJobsInv
      PROVE  HealthIsNewest
  <2> DEFINE done == {j \in HealthJob : rows[j].state = "SUCCEEDED"}
  <2>1. HealthOK /\ \A j : j \in done <=> j \in HealthJob /\ HealthDone(j)
    BY <1>1 DEF ReadJobsInv, HealthDone
  <2>2. (receiver.health = "none") = (done = {})
    BY <2>1 DEF HealthOK
  <2>3. done # {} => \E j \in done : receiver.at = rows[j].leasedAt
                                     /\ receiver.health = rows[j].result.value
    BY <2>1 DEF HealthOK
  <2>4. \A j \in done : rows[j].leasedAt <= receiver.at
    BY <2>1 DEF HealthOK
  <2>5. (receiver.state = "READY") = (receiver.health = "HEALTHY")
    BY <2>1 DEF HealthOK
  <2> QED BY <2>2, <2>3, <2>4, <2>5 DEF HealthIsNewest
<1> QED BY <1>1, ReadJobsInvariance, PTL

\* The fate of a row that has ended, and the times of a row that ends.
LEMMA OutcomeOnce ==
  ASSUME ReadJobsInv, Next, NEW j \in Job
  PROVE  /\ rows[j].state \in Terminal => rows'[j] = rows[j]
         /\ rows[j].state = "LEASED" /\ rows'[j].state \in {"SUCCEEDED", "FAILED"} =>
               ~Overdue(j) /\ ~LeaseOver(j)
<1>1. RowStep(j) /\ now' \in Time /\ now <= now'
  BY RowSteps
<1>2. rows[j].state \in Terminal => rows'[j] = rows[j]
  BY <1>1, RowSafe
<1>3. ASSUME rows[j].state = "LEASED", rows'[j].state \in {"SUCCEEDED", "FAILED"}
      PROVE  ~Overdue(j) /\ ~LeaseOver(j)
  <2>1. ~Moves(j)
    BY <1>3, RowEdges DEF Moves, ReadJobsInv
  <2>2. PICK m \in wire : m.job = j /\ Completable(m)
    BY <1>1, <2>1 DEF RowStep
  <2> QED BY <2>2 DEF Completable
<1> QED BY <1>2, <1>3

\* The fate of a report: its generation, or its time, does not come back.
LEMMA AnswerStands ==
  ASSUME ReadJobsInv, Next, NEW m \in wire
  PROVE  /\ ExactReplay(m) => ExactReplay(m)'
         /\ ~ExactReplay(m) /\ ~Completable(m) => ~ExactReplay(m)' /\ ~Completable(m)'
<1> DEFINE j == m.job
<1>1. /\ j \in Job /\ m.gen \in Nat /\ 0 < m.gen /\ m.gen <= rows[j].gen
      /\ RowOK(j) /\ rows[j] \in RowType /\ now \in Time
  BY DEF ReadJobsInv, Types, ReportOK, Granted
<1>2. /\ RowStep(j) /\ now' \in Time /\ now <= now' /\ RowOK(j)'
  BY <1>1, RowSteps, RowSafe
<1>3. ASSUME rows'[j] = rows[j]
      PROVE  /\ ExactReplay(m) <=> ExactReplay(m)'
             /\ Completable(m)' => Completable(m)
  <2>1. /\ rows[j].created \in Nat /\ rows[j].leasedAt \in Nat /\ now \in Nat /\ now' \in Nat
        /\ Lease \in Nat /\ Deadline \in Nat
    BY <1>1, <1>2 DEF RowType, Time
  <2>2. /\ Overdue(j) => Overdue(j)'
        /\ LeaseOver(j) => LeaseOver(j)'
    BY <1>2, <1>3, <2>1 DEF Overdue, LeaseOver
  <2> QED BY <1>3, <2>2 DEF ExactReplay, Completable
<1>4. rows[j].state # "NONE"
  BY <1>1 DEF RowOK
<1>5. CASE Open(j) /\ Overdue(j) /\ rows'[j] = Expired(rows[j])
  BY <1>1, <1>5, RowEdges DEF ReadJobsInv, Open, ExactReplay, Completable
<1>6. CASE j \in Leasable /\ rows'[j] = Leased(rows[j])
  <2>1. rows'[j].state = "LEASED" /\ rows'[j].gen = rows[j].gen + 1 /\ rows[j].gen \in Nat
    BY <1>1, <1>6, RowEdges DEF ReadJobsInv, RowType
  <2>2. rows'[j].gen # m.gen
    BY <1>1, <2>1
  <2> QED BY <1>6, <2>1, <2>2 DEF Leasable, Open, ExactReplay, Completable
<1>7. ASSUME NEW q \in wire, q.job = j, Completable(q), rows'[j] = Settled(q)
      PROVE  /\ ~ExactReplay(m)
             /\ ~Completable(m) => ~ExactReplay(m)' /\ ~Completable(m)'
  <2>1. rows[j].state = "LEASED" /\ rows[j].gen = q.gen /\ ~Overdue(j) /\ ~LeaseOver(j)
    BY <1>7 DEF Completable
  <2>2. rows'[j].gen = rows[j].gen /\ rows'[j].state \in Recorded
    BY <1>7, SettledRow DEF Recorded
  <2> QED BY <2>1, <2>2 DEF ExactReplay, Completable, Recorded
<1> QED BY <1>2, <1>3, <1>4, <1>5, <1>6, <1>7 DEF RowStep, Moves

\* An outcome is final, none is recorded beyond the lease or the deadline, and
\* a report that was recorded, or refused, stays so for each of its copies.
THEOREM FinalOutcome == Spec => OutcomeIsFinal
<1>1. ASSUME ReadJobsInv, [Next]_vars
      PROVE  \A j \in Job :
               /\ rows[j].state \in Terminal => rows'[j] = rows[j]
               /\ rows[j].state = "LEASED" /\ rows'[j].state \in {"SUCCEEDED", "FAILED"} =>
                     ~Overdue(j) /\ ~LeaseOver(j)
  BY <1>1, OutcomeOnce DEF vars
<1>2. ASSUME ReadJobsInv, [Next]_vars
      PROVE  \A m \in wire :
               /\ ExactReplay(m) => ExactReplay(m)'
               /\ ~ExactReplay(m) /\ ~Completable(m) => ~ExactReplay(m)' /\ ~Completable(m)'
  <2>1. CASE Next
    BY <1>2, <2>1, AnswerStands
  <2>2. CASE UNCHANGED vars
    BY <2>2 DEF vars, ExactReplay, Completable, Overdue, LeaseOver
  <2> QED BY <1>2, <2>1, <2>2
<1> QED BY <1>1, <1>2, ReadJobsInvariance, PTL DEF Spec, OutcomeIsFinal
==============================================================================
