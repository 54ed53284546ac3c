----------------------------- MODULE TurnEvents -----------------------------
(* What Redrive reads out of a TrueForge turn: the collectors of           *)
(* provider-investigation-service.ts, receiver-investigation-service.ts    *)
(* and recovery-sandbox-service.ts, as predicates over the list of the     *)
(* turn's persisted events.                                                *)
(*                                                                         *)
(* The agents of a turn are language models behind a platform that Redrive *)
(* does not control, so a list may hold anything. Here it is an exemplary  *)
(* one, or differs from one by a single event that is missing, added,      *)
(* repeated, replaced, swapped with the next or under the id of another.   *)
(* A message carries at most one tool call; a tool is known by what the    *)
(* classification makes of the call, its arguments by what the parser      *)
(* finds in them; "malformed" is whatever throws for its shape alone.      *)
EXTENDS Naturals, FiniteSets, SequencesExt

CONSTANTS
    Delivery,    \* what GitHub may say of the delivery
    Business,    \* what the receiver may say of its business state
    Artifact,    \* the recovery artifacts that are valid for the incident
    MaxSkill,    \* MAX_SKILL_BOOTSTRAP_CALLS
    MaxSchema    \* MAX_SCHEMA_INTROSPECTION_CALLS

ASSUME BoundAssumption == MaxSkill \in Nat /\ MaxSchema \in Nat

(* An event: its call and tool, or the call it answers or was created by;  *)
(* text is what it says: an answer, an artifact, an agent's or a turn's    *)
(* name. parent is the thread that created a thread.                       *)
Event(type, id) ==
    [type |-> type, id |-> id, thread |-> "main", call |-> "none", tool |-> "none",
     args |-> "exact", text |-> "none", parent |-> "main"]

Created(turn) == [Event("turn.created", "created") EXCEPT !.text = turn]
Spawned(id, thread, agent) ==
    [Event("thread.created", id) EXCEPT !.thread = thread, !.call = "create", !.text = agent]
Calls(id, thread, callId, tool, args) ==
    [Event("model.message", id) EXCEPT !.thread = thread, !.call = callId, !.tool = tool,
                                       !.args = args]
Says(id, text) == [Event("model.message", id) EXCEPT !.text = text]
Answers(id, thread, callId, text) ==
    [Event("tool.response", id) EXCEPT !.thread = thread, !.call = callId, !.text = text]
Done == Event("turn.done", "done")

Of(log, type) == {n \in DOMAIN log : log[n].type = type}
ToolCalls(log) == {n \in Of(log, "model.message") : log[n].tool # "none"}
To(log, tool) == {n \in ToolCalls(log) : log[n].tool = tool}
ResponsesFor(log, n) ==
    {r \in Of(log, "tool.response") : log[r].thread = log[n].thread /\ log[r].call = log[n].call}
Unique(log, S, field) == \A m, n \in S : log[m][field] = log[n][field] => m = n

-----------------------------------------------------------------------------
(* The loops over the events. *)

OneTurn(log) ==
    /\ \E n \in DOMAIN log : Of(log, "turn.created") = {n} /\ log[n].text = "own"
    /\ Of(log, "turn.done") = {Len(log)}
    /\ Of(log, "malformed") = {}

ProviderEvents(log) == OneTurn(log) /\ Unique(log, ToolCalls(log), "call")

ReceiverEvents(log) ==
    /\ OneTurn(log)
    /\ Unique(log, DOMAIN log, "id")
    /\ Unique(log, Of(log, "thread.created"), "thread")
    /\ Unique(log, ToolCalls(log), "call")

(* The recovery knows no other events, and nothing is said before the turn *)
(* is created.                                                             *)
RecoveryEvents(log) ==
    /\ OneTurn(log)
    /\ Of(log, "thread.created") \union Of(log, "usage") = {}
    /\ Unique(log, DOMAIN log, "id") /\ Unique(log, ToolCalls(log), "call")
    /\ Cardinality(Of(log, "sandbox.created")) <= 1
    /\ \A n \in Of(log, "sandbox.created") \union Of(log, "model.message") :
          \E m \in Of(log, "turn.created") : m < n
    /\ \A n \in ToolCalls(log) : log[n].tool \in {"sandbox", "artifact"}

-----------------------------------------------------------------------------
(* The checks of an investigation, thread t being the investigator's.      *)

OnlyThread(log, t) ==
    Of(log, "thread.created") = {t} /\ log[t].text = "investigator"

(* Mutant: the calls of a third thread are not looked at. *)
CreatedByRoot_ThirdThread(log, t) ==
    LET root == {n \in ToolCalls(log) : log[n].thread = log[t].parent /\ log[n].thread # log[t].thread}
    IN  /\ \A n \in root : log[n].tool \in {"create", "skill"}
        /\ \E c \in root : {n \in root : log[n].tool = "create"} = {c} /\ log[c].call = log[t].call

CreatedByRoot(log, t) ==
    LET root == {n \in ToolCalls(log) : log[n].thread # log[t].thread}
    IN  /\ \A n \in root : log[n].thread = log[t].parent /\ log[n].tool \in {"create", "skill"}
        /\ \E c \in root : {n \in root : log[n].tool = "create"} = {c} /\ log[c].call = log[t].call

CreatedByMain(log, t) ==
    /\ CreatedByRoot(log, t) /\ log[t].parent = "main"
    /\ \A c \in To(log, "create") : log[c].args = "exact"

Within(log, t, tools) ==
    \A n \in ToolCalls(log) : log[n].thread = log[t].thread => log[n].tool \in tools

OneRead(log, t, m) ==
    {n \in To(log, "read") : log[n].thread = log[t].thread} = {m}

Correlated(log) ==
    \A r \in Of(log, "tool.response") : \E n \in ToolCalls(log) : r \in ResponsesFor(log, n)

AnsweredOnce(log, tool) == \A n \in To(log, tool) : Cardinality(ResponsesFor(log, n)) = 1

CreateAnswered(log) ==
    \A c \in To(log, "create") : \A r, s \in ResponsesFor(log, c) : r = s /\ log[r].text = "none"

(* What both collectors ask of the responses, r being the one to the read. *)
Answered(log, m, r) ==
    /\ Correlated(log) /\ AnsweredOnce(log, "skill") /\ CreateAnswered(log)
    /\ ResponsesFor(log, m) = {r} /\ log[r].text # "none"

ProviderTurn(log, t, m, r) ==
    /\ ProviderEvents(log) /\ OnlyThread(log, t) /\ CreatedByRoot(log, t)
    /\ Within(log, t, {"skill", "schema", "read"})
    /\ Cardinality(To(log, "skill")) <= MaxSkill /\ Cardinality(To(log, "schema")) <= MaxSchema
    /\ OneRead(log, t, m) /\ Answered(log, m, r) /\ AnsweredOnce(log, "schema")

ReceiverTurn(log, t, m, r) ==
    /\ ReceiverEvents(log) /\ OnlyThread(log, t) /\ CreatedByMain(log, t)
    /\ Within(log, t, {"skill", "read"}) /\ Cardinality(To(log, "skill")) <= MaxSkill
    /\ OneRead(log, t, m) /\ Answered(log, m, r)

LastText(log, n) ==
    {k \in Of(log, "model.message") : log[k].text # "none" /\ k >= n} = {n}

(* The JSON artifact names the incident's repository, revision and         *)
(* delivery, and reports the failure reproduced and the repair verified.   *)
ValidArtifact(text) == text \in Artifact

RecoveryTurn(log, m, r, n) ==
    /\ RecoveryEvents(log) /\ LastText(log, n) /\ To(log, "artifact") = {m}
    /\ \A k \in ToolCalls(log) : Cardinality(ResponsesFor(log, k)) = 1
    /\ Correlated(log) /\ ResponsesFor(log, m) = {r}
    /\ ValidArtifact(log[r].text) /\ log[n].text = log[r].text

-----------------------------------------------------------------------------
(* What a turn is to be, said of the turn as a whole.                      *)

(* In the whole turn one question was asked, by the one agent the root     *)
(* created, nothing but reading was done beside it, and this is the answer *)
(* it got.                                                                 *)
Attributed(log, aside, answer) ==
    \E c \in To(log, "create"), t \in Of(log, "thread.created"), m \in To(log, "read"),
      r \in Of(log, "tool.response") :
        /\ Of(log, "thread.created") = {t} /\ To(log, "create") = {c} /\ To(log, "read") = {m}
        /\ ToolCalls(log) \ {c, m} \subseteq UNION {To(log, tool) : tool \in aside}
        /\ log[c].call = log[t].call /\ log[c].thread = log[t].parent
        /\ log[m].thread = log[t].thread /\ log[m].thread # log[c].thread
        /\ log[m].args = "exact"
        /\ {k \in Of(log, "tool.response") : log[k].call = log[m].call} = {r}
        /\ log[r].text = answer

(* The sandbox was asked for the artifact once, it and the agent's last    *)
(* word say the same, and no tool but the sandbox's was used.              *)
Authoritative(log, artifact) ==
    /\ \E m \in To(log, "artifact") : \A r \in Of(log, "tool.response") :
          log[r].call = log[m].call => log[r].text = artifact
    /\ \E n \in Of(log, "model.message") :
          /\ log[n].text = artifact
          /\ \A k \in Of(log, "model.message") : k > n => log[k].text = "none"
    /\ ToolCalls(log) \subseteq To(log, "artifact") \union To(log, "sandbox")

(* A turn as Redrive takes it: the answer, whether two of the events whose *)
(* ids are kept have the same one, and whether the answer is what the turn *)
(* is said to be above.                                                    *)
Taken(answer, clash, sound) ==
    [is |-> "taken", answer |-> answer, clash |-> clash, sound |-> sound]
Refused(why) == [is |-> why, answer |-> "none", clash |-> FALSE, sound |-> FALSE]

ProviderOutcome(log) ==
    LET found == {f \in Of(log, "thread.created") \X To(log, "read") \X Of(log, "tool.response") :
                    ProviderTurn(log, f[1], f[2], f[3])}
    IN  IF found = {} THEN {Refused("rejected")}
        ELSE {CASE log[f[2]].args = "exact" ->
                     Taken(log[f[3]].text, log[f[1]].id = log[f[3]].id,
                           Attributed(log, {"skill", "schema"}, log[f[3]].text))
                [] log[f[2]].args = "extra" -> Refused("extra")
                [] OTHER -> Refused("rejected") : f \in found}

ReceiverOutcome(log) ==
    LET found == {f \in Of(log, "thread.created") \X To(log, "read") \X Of(log, "tool.response") :
                    ReceiverTurn(log, f[1], f[2], f[3]) /\ log[f[2]].args = "exact"}
    IN  IF found = {} THEN {Refused("rejected")}
        ELSE {Taken(log[f[3]].text, FALSE, Attributed(log, {"skill"}, log[f[3]].text))
                : f \in found}

RecoveryOutcome(log) ==
    LET found == {f \in To(log, "artifact") \X Of(log, "tool.response") \X Of(log, "model.message") :
                    RecoveryTurn(log, f[1], f[2], f[3])}
    IN  IF found = {} THEN {Refused("rejected")}
        ELSE {Taken(log[f[3]].text, FALSE, Authoritative(log, log[f[3]].text)) : f \in found}

-----------------------------------------------------------------------------
(* The lists of events. *)

Aside(tool) ==
    [none |-> <<>>,
     skill |-> <<Calls("skill", "main", "skill", "skill", "exact"), Answers("text", "main", "skill", "x")>>,
     schema |-> <<Calls("schema", "child", "schema", "schema", "exact"),
                  Answers("text", "child", "schema", "x")>>][tool]

Investigation(args, aside) ==
    <<Created("own"), Calls("call1", "main", "create", "create", "exact"),
      Spawned("thread", "child", "investigator")>> \o Aside(aside) \o
    <<Calls("call2", "child", "read", "read", args), Answers("answer", "child", "read", "answer"),
      Answers("made", "main", "create", "none"), Done>>

Recovery(answer, text) ==
    <<Created("own"), Event("sandbox.created", "box"),
      Calls("call1", "main", "work", "sandbox", "exact"), Answers("done1", "main", "work", "x"),
      Calls("call2", "main", "read", "artifact", "exact"), Answers("done2", "main", "read", answer),
      Says("last", text), Done>>

Stray(threads, tools, texts) ==
    {Calls("stray", thread, callId, tool, "exact") :
        thread \in threads, callId \in {"stray", "read"}, tool \in tools}
    \union {Answers("stray", thread, callId, text) :
        thread \in threads, callId \in {"create", "read", "stray"}, text \in texts}
    \union {Spawned("stray", thread, agent) :
        thread \in {"child", "third"}, agent \in {"investigator", "helper"}}
    \union {Says("stray", text) : text \in texts \ {"none"}}
    \union {Created("own"), Created("another"), Done}
    \union {Event(type, "stray") : type \in {"sandbox.created", "usage", "malformed"}}

Deviations(log, stray) ==
    {log}
    \union {RemoveAt(log, n) : n \in DOMAIN log}
    \union {InsertAt(log, n, e) : n \in DOMAIN log, e \in stray \union {log[k] : k \in DOMAIN log}}
    \union {ReplaceAt(log, n, e) : n \in DOMAIN log, e \in stray}
    \union {[log EXCEPT ![n].id = log[k].id] : n, k \in DOMAIN log}
    \union {[log EXCEPT ![n] = log[n + 1], ![n + 1] = log[n]] : n \in 1..(Len(log) - 1)}

Lists(exemplary, stray) == UNION {Deviations(log, stray) : log \in exemplary}

(* An investigation's collector does not look into the answer: it is any.  *)
Answering(outcomes, answers) ==
    {o \in outcomes : o.is # "taken"}
    \union {Taken(answer, o.clash, o.sound) :
                 o \in {p \in outcomes : p.is = "taken"}, answer \in answers}

StrayInvestigation ==
    Stray({"main", "child", "third"}, {"create", "skill", "schema", "read", "write"},
          {"none", "stray"})

ProviderLists ==
    Lists({Investigation(args, aside) : args \in {"exact", "extra", "wrong"},
                                        aside \in {"none", "skill", "schema"}},
          StrayInvestigation)
ReceiverLists ==
    Lists({Investigation(args, aside) : args \in {"exact", "wrong"}, aside \in {"none", "skill"}},
          StrayInvestigation)
RecoveryLists ==
    Lists({Recovery(answer, text) : answer, text \in Artifact \union {"bad"}},
          Stray({"main", "third"}, {"sandbox", "artifact", "write"}, {"none", "bad"} \union Artifact))

ProviderTurns == Answering(UNION {ProviderOutcome(log) : log \in ProviderLists}, Delivery)
ReceiverTurns == Answering(UNION {ReceiverOutcome(log) : log \in ReceiverLists}, Business)
RecoveryTurns == UNION {RecoveryOutcome(log) : log \in RecoveryLists}
=============================================================================
