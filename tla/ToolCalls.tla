------------------------------- MODULE ToolCalls -------------------------------
(***************************************************************************)
(* The tool calls that come with the answers of a provider that renders    *)
(* tools in strict mode: what the model means is said in the strict schema *)
(* and parsed back (OpenAIProvider._render_tools and _normalize).  Others  *)
(* get schemas, and give inputs, as they are.                              *)
(***************************************************************************)
EXTENDS Providers, StrictSchema

CONSTANTS StrictProviders,   \* the providers that render tools in strict mode
          Tools,             \* the input schemas of the tools
          Inputs,            \* the values the model may mean
          Silence, Unsayable

ASSUME ToolsAssumption == \A tool \in Tools : IsSchema(tool)
ASSUME InputsAssumption == \A v \in Inputs : IsValue(v)

VARIABLE heard   \* the strict tool call of the last answer: what was meant, whether
                 \* the arguments came through whole, and what the handler gets

toolVars == <<wiring, instances, at, hint, route, made, free, before, heard>>

ToolInit == Init /\ heard = Silence

\* Arguments that break off (the answer's budget ran out) do not parse: the call
\* is built with none.
Parsed(said, whole) == IF whole THEN said ELSE NoFields

\* What the handler gets of a call: the model can only say what the schema it was
\* sent accepts.
Input(tool, meant, whole) ==
  LET said == Said(meant, tool) IN
  IF Accepts(Strict(tool), said) THEN Prune(Parsed(said, whole), tool) ELSE Unsayable

StrictCalls ==
  {[meant |-> c[2], whole |-> c[3], input |-> Input(c[1], c[2], c[3])] :
     c \in {x \in Tools \X Inputs \X BOOLEAN : Fits(x[1], x[2])}}

Hear(r) ==
  /\ AnswerWithTools(r)
  /\ heard' \in IF route[r].provider \in StrictProviders THEN StrictCalls ELSE {Silence}

Continue(r) ==
  \/ Hear(r)
  \/ (Resume(r) \/ CallAgain(r) \/ Answer(r) \/ Fail(r)) /\ heard' = Silence

ToolNext ==
  \/ \E r \in Run : Continue(r) \/ ((Start(r) \/ Cancel(r)) /\ heard' = Silence)
  \/ Rest /\ UNCHANGED heard

\* Fairness: the API answers or the SDK times out, and asyncio runs every task
\* that can go on.
ToolSpec ==
  ToolInit /\ [][ToolNext]_toolVars /\ \A r \in Run : WF_vars(Proceed(r))

-----------------------------------------------------------------------------
(***************************************************************************)
(* Properties.                                                             *)
(***************************************************************************)

\* "ToolCall.input carries only the fields the model chose to set, whichever
\* provider produced it": strict mode lets the model say everything a schema lets
\* it mean, and what reaches the handler is that and nothing else, through nested
\* objects, lists and enums and beside nulls the schema asks for.  Of arguments
\* that broke off it gets no field at all, never a part of what was meant.
ToolInputIsMeant ==
  heard # Silence => heard.input = IF heard.whole THEN heard.meant ELSE NoFields
=============================================================================
