------------------------------ MODULE ChatTurns ------------------------------
(***************************************************************************)
(* The chat page: a question is posted with the text of the turns so far,  *)
(* the route connects to the MCP server and runs the tool loop, and what   *)
(* the loop does reaches the browser as a stream of events that builds the *)
(* turn on the page (components/Chat.tsx, app/api/chat/route.ts,           *)
(* lib/chat.ts, lib/mcp.ts). Every question has a route handler of its     *)
(* own; one the browser has lost may still be at its tools when the next   *)
(* question is asked. The model and the tools answer as they like; a text  *)
(* is only there or not.                                                   *)
(***************************************************************************)
EXTENDS Integers, Sequences, FiniteSets, SequencesExt

CONSTANTS
  Limit,         \* MAX_TOOL_CALLS
  MaxSteps,      \* MAX_STEPS
  MaxHistory,    \* maxTurns of sanitizeHistory
  MaxUses,       \* bound on the tool calls of one reply
  MaxQuestions,  \* bound on the questions
  MaxMishaps     \* bound on failures and lost connections

ChatAssumption ==
  /\ {Limit, MaxSteps, MaxHistory, MaxUses} \subseteq Nat \ {0}
  /\ {MaxQuestions, MaxMishaps} \subseteq Nat

VARIABLES
  turns,    \* the page: a turn per question and one per answer
  busy,
  reading,  \* the question whose stream the page reads, or 0
  routes,   \* per question, its handler
  mishaps

vars == <<turns, busy, reading, routes, mishaps>>

Questions == DOMAIN routes
Outcomes == {"data", "thrown"}  \* a refusal by the handler is an answer as well

Mishap == mishaps < MaxMishaps /\ mishaps' = mishaps + 1

\* A part of a turn, and an event of the stream; `id` and `what` are a tool's.
Part(kind, id) == [kind |-> kind, id |-> id, what |-> {}]
Event(type) == [type |-> type, id |-> <<>>, what |-> {}]

User == [role |-> "user", parts |-> <<Part("text", <<>>)>>, error |-> FALSE]
Answer == [role |-> "assistant", parts |-> <<>>, error |-> FALSE]
PartsOf(turn, kind) == SelectSeq(turn.parts, LAMBDA p : p.kind = kind)
Text(turn) == PartsOf(turn, "text") # <<>>

-----------------------------------------------------------------------------
(* The route. `conversation` is what this handler has added to the history: *)
(* the tool calls of a reply and what they were answered with.              *)

Change(q, handler) == routes' = [routes EXCEPT ![q] = handler]

\* send: once the stream is cancelled nothing arrives.
Sent(q, events) == IF reading = q THEN routes[q].wire \o events ELSE routes[q].wire

Handler(history) ==
  [phase |-> "connecting", session |-> FALSE, history |-> history, conversation |-> <<>>,
   used |-> 0, steps |-> 0, announced |-> FALSE, withheld |-> FALSE,
   uses |-> 0, calls |-> <<>>, results |-> <<>>, wire |-> <<>>]

Connect(q) ==
  /\ routes[q].phase = "connecting"
  /\ Change(q, [routes[q] EXCEPT !.phase = "model", !.session = TRUE, !.wire = Sent(q, <<Event("ready")>>)])
  /\ UNCHANGED <<turns, busy, reading, mishaps>>

\* The finally of start: the session is closed and the stream ends.
Ended(handler) == [handler EXCEPT !.phase = "ended", !.session = FALSE]

\* No key, no server, a model that fails, perhaps after a part of its text; the
\* signal of a request that was given up fails the next message.
Fail(q) ==
  /\ routes[q].phase \in {"connecting", "model"}
  /\ IF routes[q].phase = "model" /\ reading # q THEN UNCHANGED mishaps ELSE Mishap
  /\ \E said \in {<<>>, <<Event("delta")>>} :
       /\ routes[q].phase = "connecting" => said = <<>>
       /\ Change(q, [Ended(routes[q]) EXCEPT !.wire = Sent(q, said \o <<Event("error")>>)])
  /\ UNCHANGED <<turns, busy, reading>>

\* createMessage and what runTurn does with the reply. Tools are withheld once the
\* budget is spent, and the loop leaves whether it asks for more or not.
Reply(q, text, n) ==
  LET exhausted == routes[q].used >= Limit
      ids == [i \in 1..n |-> <<routes[q].steps, i>>]
      said == [routes[q] EXCEPT !.steps = @ + 1, !.withheld = exhausted,
                                !.wire = Sent(q, IF text THEN <<Event("delta")>> ELSE <<>>)]
  IN /\ routes[q].phase = "model" /\ reading = q
     /\ exhausted => n = 0
     /\ Change(q, IF n = 0 THEN Ended(said) ELSE [said EXCEPT !.phase = "tools", !.uses = n, !.calls = ids])
     /\ UNCHANGED <<turns, busy, reading, mishaps>>

\* The next call of the reply is made.
CallTool(q) ==
  LET r == routes[q]
  IN /\ r.phase = "tools" /\ r.calls # <<>> /\ r.used < Limit
     /\ Change(q, [r EXCEPT !.phase = "calling", !.used = @ + 1,
                            !.wire = Sent(q, <<[Event("tool_call") EXCEPT !.id = Head(r.calls)]>>)])
     /\ UNCHANGED <<turns, busy, reading, mishaps>>

\* It answers, refuses or throws; all three go to the page and to the model.
ToolAnswers(q, outcome) ==
  LET r == routes[q]
  IN /\ r.phase = "calling"
     /\ Change(q, [r EXCEPT !.phase = "tools", !.calls = Tail(@),
                            !.results = Append(@, <<Head(r.calls), outcome>>),
                            !.wire = Sent(q, <<[type |-> "tool_result", id |-> Head(r.calls), what |-> {outcome}]>>)])
     /\ UNCHANGED <<turns, busy, reading, mishaps>>

\* A call past the budget is answered with BUDGET_MESSAGE.
RefuseTool(q) ==
  LET r == routes[q]
  IN /\ r.phase = "tools" /\ r.calls # <<>> /\ r.used >= Limit
     /\ Change(q, [r EXCEPT !.calls = Tail(@), !.announced = TRUE,
                            !.results = Append(@, <<Head(r.calls), "budget">>),
                            !.wire = Sent(q, IF r.announced THEN <<>> ELSE <<Event("budget")>>)])
     /\ UNCHANGED <<turns, busy, reading, mishaps>>

\* All calls of the reply are answered: the next message, or the end.
Continue(q) ==
  LET r == routes[q]
      said == [r EXCEPT !.results = <<>>, !.uses = 0,
                      !.conversation = Append(@, [uses |-> r.uses, results |-> r.results])]
  IN /\ r.phase = "tools" /\ r.calls = <<>>
     /\ Change(q, IF r.steps < MaxSteps THEN [said EXCEPT !.phase = "model"] ELSE Ended(said))
     /\ UNCHANGED <<turns, busy, reading, mishaps>>

-----------------------------------------------------------------------------
(* The page. *)

\* send and sanitizeHistory: the turns with a text, the last MaxHistory of them.
History ==
  LET spoken == SelectSeq(turns, Text)
      roles == [i \in DOMAIN spoken |-> spoken[i].role]
      first == IF Len(roles) > MaxHistory THEN Len(roles) - MaxHistory + 1 ELSE 1
  IN SubSeq(roles, first, Len(roles))

Ask ==
  /\ ~busy /\ Cardinality(Questions) < MaxQuestions
  /\ turns' = turns \o <<User, Answer>> /\ busy' = TRUE
  /\ LET q == Cardinality(Questions) + 1
     IN reading' = q /\ routes' = Append(routes, Handler(History))
  /\ UNCHANGED mishaps

\* patchLast.
PatchLast(turn) == turns' = [turns EXCEPT ![Len(turns)] = turn]

\* apply, event by event.
Applied(turn, event) ==
  CASE event.type = "delta" ->
         IF turn.parts # <<>> /\ Last(turn.parts).kind = "text" THEN turn
         ELSE [turn EXCEPT !.parts = Append(@, Part("text", <<>>))]
    [] event.type = "tool_call" -> [turn EXCEPT !.parts = Append(@, Part("tool", event.id))]
    [] event.type = "tool_result" ->
         [turn EXCEPT !.parts =
            [i \in DOMAIN @ |-> IF @[i].kind = "tool" /\ @[i].id = event.id
                                  THEN [@[i] EXCEPT !.what = event.what] ELSE @[i]]]
    [] event.type = "budget" -> [turn EXCEPT !.parts = Append(@, Part("budget", <<>>))]
    [] event.type = "error" -> [turn EXCEPT !.error = TRUE]
    [] OTHER -> turn

Receive ==
  /\ reading # 0 /\ routes[reading].wire # <<>>
  /\ PatchLast(Applied(Last(turns), Head(routes[reading].wire)))
  /\ Change(reading, [routes[reading] EXCEPT !.wire = Tail(@)])
  /\ UNCHANGED <<busy, reading, mishaps>>

\* The stream is done.
Finish ==
  /\ reading # 0 /\ routes[reading].phase = "ended" /\ routes[reading].wire = <<>>
  /\ busy' = FALSE /\ reading' = 0
  /\ UNCHANGED <<turns, routes, mishaps>>

\* The connection is lost; the handler is not.
Lose ==
  /\ reading # 0 /\ Mishap
  /\ PatchLast([Last(turns) EXCEPT !.error = TRUE])
  /\ Change(reading, [routes[reading] EXCEPT !.wire = <<>>])
  /\ busy' = FALSE /\ reading' = 0

\* An answer that is no stream, of a handler that did not start: there is no frame
\* in it, and `send` does not look at the status.
Rejected ==
  /\ reading # 0 /\ routes[reading].phase = "connecting" /\ Mishap
  /\ Change(reading, Ended(routes[reading]))
  /\ busy' = FALSE /\ reading' = 0
  /\ UNCHANGED turns

Init ==
  /\ turns = <<>> /\ busy = FALSE /\ reading = 0 /\ routes = <<>> /\ mishaps = 0

Route(q) ==
  \/ Connect(q) \/ Fail(q)
  \/ \E text \in BOOLEAN, n \in 0..MaxUses : Reply(q, text, n)
  \/ CallTool(q) \/ \E outcome \in Outcomes : ToolAnswers(q, outcome)
  \/ RefuseTool(q) \/ Continue(q)

Next == Ask \/ Receive \/ Finish \/ Lose \/ Rejected \/ \E q \in Questions : Route(q)
Spec == Init /\ [][Next]_vars

-----------------------------------------------------------------------------

Answered(q) ==
  FlattenSeq([s \in DOMAIN routes[q].conversation |-> routes[q].conversation[s].results])
    \o routes[q].results
Made(q) == SelectSeq(Answered(q), LAMBDA r : r[2] # "budget")

\* Every tool call of a reply is answered, once and in its place, before the model
\* is asked again (runTurn: "the API requires every `tool_use` block to be
\* answered"); no more than Limit of them are made, and a call is refused
\* only once they are used up.
EveryCallIsAnswered ==
  \A q \in Questions :
    LET r == routes[q]
    IN /\ r.phase \in {"model", "ended"} =>
            /\ Len(r.conversation) \in {r.steps, r.steps - 1}
            /\ \A s \in DOMAIN r.conversation :
                 /\ Len(r.conversation[s].results) = r.conversation[s].uses
                 /\ \A i \in 1..r.conversation[s].uses : r.conversation[s].results[i][1] = <<s - 1, i>>
       /\ Len(Made(q)) <= Limit /\ r.steps <= MaxSteps
       /\ Len(Answered(q)) > Len(Made(q)) => r.used = Limit

\* A turn that has ended without an error shows the calls that were made, in their
\* order and with what the model was told, and one banner if one was refused. The
\* stream of a lost question never writes into a later turn (apply, patchLast:
\* "Every tool call is shown, and every raw result is one click away").
PageIsALedger ==
  \A q \in Questions :
    LET turn == turns[2 * q]
        shown == PartsOf(turn, "tool")
        banners == PartsOf(turn, "budget")
    IN /\ Len(banners) <= 1
       /\ reading # q /\ ~turn.error /\ routes[q].session = FALSE =>
            /\ Len(shown) = Len(Made(q))
            /\ \A i \in DOMAIN shown :
                 shown[i].id = Made(q)[i][1] /\ shown[i].what = {Made(q)[i][2]}
            /\ Len(banners) = IF Len(Answered(q)) > Len(Made(q)) THEN 1 ELSE 0

\* A handler that has ended holds no MCP session, and one whose question was given
\* up asks the model nothing more.
LostQuestionsEnd ==
  \A q \in Questions :
    /\ routes'[q].phase = "ended" => ~routes'[q].session
    /\ reading # q => routes'[q].steps = routes[q].steps

\* A turn that has ended says something (hintFor: "the difference between a page
\* that looks broken and one that says which process is not running"). It does
\* not hold: an answer that is no stream leaves an empty turn, and so does a loop
\* that has used up its steps.
EndedTurnsSpeak ==
  \A q \in Questions : reading # q => turns[2 * q].error \/ Text(turns[2 * q])

\* The page says that tools were withheld. It does not hold: a reply that spends
\* exactly the budget is followed by one without tools and without a banner.
WithholdingIsTold ==
  \A q \in Questions :
    reading # q /\ routes[q].withheld /\ ~turns[2 * q].error => PartsOf(turns[2 * q], "budget") # <<>>
=============================================================================
