------------------------------ MODULE Translator ------------------------------
(***************************************************************************)
(* internal/translator: what the gateway makes of a chat in the OpenAI     *)
(* dialect for an upstream that speaks another one, and of the upstream's  *)
(* answer, whole or streamed.                                              *)
(*                                                                         *)
(* A text is a sequence of pieces.  The arguments of a call are the        *)
(* sequence of the fragments they arrive in: <<1, 2>> is the complete      *)
(* object, <<1>> one that was cut, <<>> the empty string, <<0>> "{}".       *)
(***************************************************************************)
EXTENDS Naturals, SequencesExt

CONSTANTS
    ToolNames,      \* tools a client may declare
    JSONTool        \* JSONResponseToolName

ASSUME TranslatorAssumption == JSONTool \notin ToolNames

Dialects == {"anthropic", "gemini"}

EmptyObject == <<0>>

NoName == "no name"
NoID == <<>>

(* The elements of a sequence at some places, in their order. *)
Kept(s, places) ==
    LET kept[n \in 0..Len(s)] ==
          IF n = 0 THEN <<>>
          ELSE IF n \in places THEN Append(kept[n - 1], s[n]) ELSE kept[n - 1]
    IN  kept[Len(s)]

(* The text of a content: the pieces of its text parts. *)
TextOf(content) == FlattenSeq([i \in DOMAIN content |-> content[i].text])

(* A block of an upstream message, and a part of a Gemini one. *)
Block(type, text, id, name, input) ==
    [type |-> type, text |-> text, id |-> id, name |-> name, input |-> input]
TextBlock(text) == Block("text", text, NoID, NoName, <<>>)

Refused == [ok |-> FALSE]

-----------------------------------------------------------------------------
(* Arguments across the two representations. *)
toolArguments(input) == IF input = <<>> THEN EmptyObject ELSE input
argumentsToObject(args) == IF args = <<>> THEN EmptyObject ELSE args
JSONValid(args) == args # <<1>>

(* Call ids that cerber makes for Gemini, and the name it reads back from one. *)
geminiCallID(index, name) == <<"call", index, name>>
geminiCallName(id) == IF id # NoID /\ id[1] = "call" THEN id[3] ELSE NoName

(* content -> blocks.  A url that is not a data: URI has no place in Gemini's dialect. *)
ContentOK(d, content) ==
    \A i \in DOMAIN content :
       content[i].kind \in {"text", "data"} \cup (IF d = "anthropic" THEN {"url"} ELSE {})
contentToBlocks(content) ==
    [i \in DOMAIN content |-> Block(content[i].kind, content[i].text, NoID, NoName, <<>>)]

(* The function a tool result answers, for a dialect that keys results by name. *)
ResultName(m, callNames) ==
    CASE m.answers \in DOMAIN callNames -> callNames[m.answers]
      [] m.answers \notin DOMAIN callNames /\ geminiCallName(m.answers) # NoName ->
            geminiCallName(m.answers)
      [] OTHER -> m.name

ResultOK(d, m, callNames) ==
    /\ IF d = "anthropic" THEN m.answers # NoID
       ELSE /\ m.answers # NoID \/ m.name # NoName
            /\ ResultName(m, callNames) # NoName
    /\ ContentOK(d, m.content)

ResultBlock(d, m, callNames) ==
    Block("result", TextOf(m.content), IF d = "anthropic" THEN m.answers ELSE NoID,
          IF d = "anthropic" THEN NoName ELSE ResultName(m, callNames), <<>>)

CallBlocks(d, calls) ==
    [i \in DOMAIN calls |->
       Block("call", <<>>, IF d = "anthropic" THEN calls[i].id ELSE NoID, calls[i].name,
             argumentsToObject(calls[i].args))]

\* Mutant: every result gets a message of its own.
LoneResult(acc, block) ==
    [acc EXCEPT !.turns = Append(@, [role |-> "user", blocks |-> <<block>>]), !.merging = TRUE]

\* A run of tool results shares one user message.
AddResult(acc, block) ==
    IF acc.merging
    THEN [acc EXCEPT !.turns[Len(acc.turns)].blocks = Append(@, block)]
    ELSE [acc EXCEPT !.turns = Append(@, [role |-> "user", blocks |-> <<block>>]),
                     !.merging = TRUE]

AddSystem(acc, content) ==
    [acc EXCEPT !.merging = FALSE,
                !.system = IF TextOf(content) = <<>> THEN @ ELSE Append(@, TextOf(content))]

AddTurn(acc, role, blocks) ==
    [acc EXCEPT !.merging = FALSE, !.turns = Append(@, [role |-> role, blocks |-> blocks])]

NameCalls(callNames, calls) ==
    [id \in DOMAIN callNames \cup {calls[i].id : i \in DOMAIN calls} |->
       IF \E i \in DOMAIN calls : calls[i].id = id
       THEN calls[SelectLastInSeq(calls, LAMBDA c : c.id = id)].name
       ELSE callNames[id]]

AddAssistant(d, acc, m) ==
    [AddTurn(acc, "assistant", contentToBlocks(m.content) \o CallBlocks(d, m.calls))
       EXCEPT !.callNames = NameCalls(@, m.calls)]

\* A message that fits in the dialect.
MessageOK(d, m, callNames) ==
    CASE m.role = "tool" -> ResultOK(d, m, callNames)
      [] m.role = "assistant" -> /\ ContentOK(d, m.content)
                                 /\ \A i \in DOMAIN m.calls : JSONValid(m.calls[i].args)
      [] m.role \in {"system", "user"} -> ContentOK(d, m.content)
      [] OTHER -> FALSE

\* One message of the request, added to what was converted so far.
Convert(d, acc, m) ==
    CASE ~acc.ok -> acc
      [] acc.ok /\ ~MessageOK(d, m, acc.callNames) -> Refused
      [] OTHER ->
           CASE m.role = "tool" -> AddResult(acc, ResultBlock(d, m, acc.callNames))
             [] m.role = "system" -> AddSystem(acc, m.content)
             [] m.role = "user" -> AddTurn(acc, "user", contentToBlocks(m.content))
             [] m.role = "assistant" -> AddAssistant(d, acc, m)

Unconverted == [ok |-> TRUE, turns |-> <<>>, system |-> <<>>, merging |-> FALSE,
                callNames |-> << >>]

Converted(d, messages) ==
    LET after[n \in 0..Len(messages)] ==
          IF n = 0 THEN Unconverted ELSE Convert(d, after[n - 1], messages[n])
    IN  after[Len(messages)]

-----------------------------------------------------------------------------
(* Tool declarations and choice. *)
ToolsOK(opts) == "hosted" \notin opts.tools
toolChoiceKind(opts) == opts.choice     \* "", "auto", "none", "required", "tool" or "bad"

anthropicChoice(opts) ==
    LET disable == opts.parallel = "off" IN
    CASE toolChoiceKind(opts) = "" ->
            IF disable THEN [type |-> "auto", serial |-> TRUE] ELSE [type |-> "", serial |-> FALSE]
      [] toolChoiceKind(opts) = "required" -> [type |-> "any", serial |-> disable]
      [] OTHER -> [type |-> toolChoiceKind(opts), serial |-> disable]

geminiChoice(opts) ==
    [type |-> IF toolChoiceKind(opts) = "required" THEN "any" ELSE toolChoiceKind(opts),
     serial |-> FALSE]

(* response_format as a synthetic tool: forced, or offered with an instruction to a
   model that rejects a forced choice; beside tools of the client's own it is only an
   instruction. *)
applyJSONResponseFormat(opts, request) ==
    IF ~opts.json THEN request
    ELSE IF request.tools # {}
         THEN [request EXCEPT !.instruction = "json only"]
         ELSE [request EXCEPT
                 !.tools = {JSONTool},
                 !.choice = [type |-> IF opts.forceable THEN "tool" ELSE "auto", serial |-> FALSE],
                 !.instruction = IF opts.forceable THEN @ ELSE "call the tool"]

OpenAIToAnthropic(messages, opts) ==
    LET c == Converted("anthropic", messages) IN
    IF \/ messages = <<>> \/ ~ToolsOK(opts) \/ toolChoiceKind(opts) = "bad"
       \/ ~c.ok \/ (c.ok /\ c.turns = <<>>)
    THEN Refused
    ELSE applyJSONResponseFormat(opts,
           [ok |-> TRUE, dialect |-> "anthropic", turns |-> c.turns, system |-> c.system,
            tools |-> opts.tools, choice |-> anthropicChoice(opts), instruction |-> "none"])

(* Gemini's request has no response_format: it is left out. *)
OpenAIToGemini(messages, opts) ==
    LET c == Converted("gemini", messages) IN
    IF \/ messages = <<>> \/ ~ToolsOK(opts) \/ toolChoiceKind(opts) = "bad"
       \/ ~c.ok \/ (c.ok /\ c.turns = <<>>)
    THEN Refused
    ELSE [ok |-> TRUE, dialect |-> "gemini", turns |-> c.turns, system |-> c.system,
          tools |-> opts.tools, choice |-> geminiChoice(opts), instruction |-> "none"]

-----------------------------------------------------------------------------
(* Finish reasons. *)
finishReason(reason) ==
    CASE reason \in {"end_turn", "stop_sequence"} -> "stop"
      [] reason = "max_tokens" -> "length"
      [] reason = "tool_use" -> "tool_calls"
      [] reason = "" -> ""
      [] OTHER -> "stop"

geminiFinish(reason) ==
    CASE reason = "STOP" -> "stop"
      [] reason = "MAX_TOKENS" -> "length"
      [] reason \in {"SAFETY", "RECITATION", "BLOCKLIST", "PROHIBITED_CONTENT"} -> "content_filter"
      [] reason = "" -> ""
      [] OTHER -> "stop"

(* A whole answer as the client gets it: what the client accumulates, in one piece. *)
OfType(blocks, type) == Kept(blocks, {i \in DOMAIN blocks : blocks[i].type = type})
ToolCalls(blocks) == OfType(blocks, "call")
Texts(blocks) == TextOf(OfType(blocks, "text"))
Message(text, calls, finish) == [text |-> text, calls |-> calls, finish |-> finish]
Call(id, name, args) == [id |-> id, name |-> name, args |-> args]

AnthropicToOpenAI(blocks, reason) ==
    LET all == ToolCalls(blocks)
        synthetic == Kept(all, {i \in DOMAIN all : all[i].name = JSONTool})
        real == Kept(all, {i \in DOMAIN all : all[i].name # JSONTool})
        calls == [i \in DOMAIN real |-> Call(real[i].id, real[i].name, toolArguments(real[i].input))]
    IN  IF synthetic # <<>>
        THEN Message(toolArguments(Last(synthetic).input), calls, "stop")
        ELSE Message(Texts(blocks), calls, finishReason(reason))

GeminiToOpenAI(blocks, reason) ==
    LET fcs == ToolCalls(blocks)
        calls == [i \in DOMAIN fcs |-> Call(geminiCallID(i - 1, fcs[i].name), fcs[i].name,
                                            toolArguments(fcs[i].input))]
        finish == geminiFinish(reason)
    IN  Message(Texts(blocks), calls,
                IF calls # <<>> /\ finish \in {"stop", ""} THEN "tool_calls" ELSE finish)

-----------------------------------------------------------------------------
(* Streams.  The state of a translation in progress, and the chunks it writes. *)
NoTokens == [fresh |-> 0, cacheRead |-> 0, cacheWrite |-> 0, in |-> 0, out |-> 0]
NoStream == [role |-> FALSE, toolIndex |-> << >>, nextToolIndex |-> 0, reason |-> "",
             usage |-> NoTokens, done |-> FALSE]

\* Mutant: counts are added up.
UsageSum(u, a) ==
    [fresh |-> u.fresh + a.fresh, cacheRead |-> u.cacheRead + a.cacheRead,
     cacheWrite |-> u.cacheWrite + a.cacheWrite,
     in |-> u.in + a.fresh + a.cacheRead + a.cacheWrite, out |-> u.out + a.out]

(* Usage.Add: a count that is repeated replaces the earlier one, a zero never erases it. *)
UsageAdd(u, a) ==
    LET keep(new, old) == IF new > 0 THEN new ELSE old
        fresh == keep(a.fresh, u.fresh)
        read == keep(a.cacheRead, u.cacheRead)
        write == keep(a.cacheWrite, u.cacheWrite)
    IN  [fresh |-> fresh, cacheRead |-> read, cacheWrite |-> write,
         in |-> keep(fresh + read + write, u.in), out |-> keep(a.out, u.out)]

RoleChunk == [type |-> "role"]
ContentChunk(text) == [type |-> "content", text |-> text]
ToolChunk(index, id, name, args) ==
    [type |-> "tool", index |-> index, id |-> id, name |-> name, args |-> args]
FinishChunk(finish) == [type |-> "finish", finish |-> finish]
DoneChunk == [type |-> "done"]

\* Mutant: the counter is left where it was.
SameIndex(tr, index) ==
    [tr EXCEPT !.toolIndex = [i \in DOMAIN @ \cup {index} |->
                                IF i = index THEN tr.nextToolIndex ELSE @[i]]]

(* The index a tool block is announced under: calls are counted among themselves. *)
ToolStarted(tr, index) ==
    [tr EXCEPT !.toolIndex = [i \in DOMAIN @ \cup {index} |->
                                IF i = index THEN tr.nextToolIndex ELSE @[i]],
               !.nextToolIndex = @ + 1]

\* Mutant: a body that ends without a reason finishes without one.
ReasonlessFinish(d, tr) ==
    <<FinishChunk(IF d = "anthropic" THEN finishReason(tr.reason) ELSE geminiFinish(tr.reason)),
      DoneChunk>>

FinishChunks(d, tr) ==
    LET fr == IF d = "anthropic" THEN finishReason(tr.reason) ELSE geminiFinish(tr.reason)
        said == IF fr = "" THEN "stop" ELSE fr
    IN  <<FinishChunk(IF d = "gemini" /\ tr.nextToolIndex > 0 /\ said = "stop"
                      THEN "tool_calls" ELSE said), DoneChunk>>
=============================================================================
