------------------------------- MODULE Dialogue -------------------------------
(***************************************************************************)
(* A client of the OpenAI dialect in conversation with an upstream of      *)
(* another: it asks, the request is translated, the upstream answers       *)
(* whole or event by event (provider/gemini, tryOpenAITarget and           *)
(* relayAnthropicAsOpenAI of server.go call the translator), the client    *)
(* keeps what it was told, runs the tools that were called and asks again, *)
(* perhaps of the other upstream.                                          *)
(***************************************************************************)
EXTENDS Translator

CONSTANTS
    MaxTurns,       \* answers in a conversation
    MaxBlocks       \* blocks in an answer

ASSUME DialogueAssumption == MaxTurns \in Nat /\ MaxBlocks \in Nat

VARIABLES
    messages,   \* the client's messages
    turn,       \* answers it has so far
    asked,      \* the request under way: dialect, streamed or not, options
    sent,       \* its translation
    answer,     \* the upstream's answer so far: blocks, stop reason ("" before the end)
    phase,      \* "idle", "asked", "answering", "stopping", "answered", "refused", "broken"
    tr,         \* the stream translation in progress
    got,        \* what the client has received of the answer
    said        \* history: what the upstream said in the turns the client still holds

dialogueVars == <<messages, turn, asked, sent, answer, phase, tr, got, said>>

(* Usage of an answer: as its first event tells it, and at the end. *)
StartUsage == [fresh |-> 2, cacheRead |-> 1, cacheWrite |-> 1, out |-> 1]
EndUsage(repeats) == IF repeats THEN [StartUsage EXCEPT !.out = 3]
                     ELSE [fresh |-> 0, cacheRead |-> 0, cacheWrite |-> 0, out |-> 3]

Part(kind, piece) == [kind |-> kind, text |-> IF kind = "text" THEN <<piece>> ELSE <<>>]
User(kind) == [role |-> "user", content |-> <<Part(kind, 0)>>]
Assistant(text, calls) ==
    [role |-> "assistant", calls |-> calls,
     content |-> IF text = <<>> THEN <<>> ELSE <<[kind |-> "text", text |-> text]>>]
Result(call) == [role |-> "tool", answers |-> call.id, name |-> NoName, content |-> <<Part("text", 9)>>]

(* Options of a request: one thing asked for at a time. *)
Plain == [tools |-> ToolNames, choice |-> "", parallel |-> "", json |-> FALSE, forceable |-> TRUE]
Options ==
    {Plain, [Plain EXCEPT !.tools = {"hosted"}], [Plain EXCEPT !.parallel = "off"]}
    \cup {[Plain EXCEPT !.choice = kind] : kind \in {"required", "tool", "bad"}}
    \cup {[Plain EXCEPT !.json = TRUE, !.tools = declared, !.forceable = may] :
            declared \in {{}, ToolNames}, may \in BOOLEAN}

Nothing == [role |-> FALSE, text |-> <<>>, calls |-> << >>, finish |-> "", done |-> FALSE]
Empty == [blocks |-> <<>>, reason |-> ""]

Phases == {"idle", "asked", "answering", "stopping", "answered", "refused", "broken"}

(* The translation keeps its books in step with what it told the client. *)
DialogueTypeOK ==
    /\ phase \in Phases
    /\ turn \in 0..MaxTurns
    /\ asked \in [dialect : Dialects, stream : BOOLEAN, opts : Options]
    /\ Len(answer.blocks) <= MaxBlocks
    /\ DOMAIN tr.toolIndex \subseteq 0..(MaxBlocks - 1)
    /\ got.done => got.finish # ""
    /\ DOMAIN got.calls \subseteq 0..(MaxBlocks - 1)

DialogueInit ==
    /\ messages \in {<<User(kind)>> : kind \in {"text", "data", "url", "audio"}}
                   \cup {<<[User("text") EXCEPT !.role = "system"], User("text")>>}
    /\ turn = 0
    /\ asked = [dialect |-> "anthropic", stream |-> FALSE, opts |-> Plain]
    /\ sent = Refused
    /\ answer = Empty
    /\ phase = "idle"
    /\ tr = NoStream
    /\ got = Nothing
    /\ said = <<>>

-----------------------------------------------------------------------------
(* The client. *)
Translation(d, chat, opts) ==
    IF d = "anthropic" THEN OpenAIToAnthropic(chat, opts) ELSE OpenAIToGemini(chat, opts)

(* A request; one that cannot be translated is answered with a 400. *)
Ask(d, stream, opts) ==
    /\ phase = "idle"
    /\ asked' = [dialect |-> d, stream |-> stream, opts |-> opts]
    /\ sent' = Translation(d, messages, opts)
    /\ phase' = IF sent'.ok THEN "asked" ELSE "refused"
    /\ answer' = Empty
    /\ tr' = NoStream
    /\ got' = Nothing
    /\ UNCHANGED <<messages, turn, said>>

(* What a client makes of the chunks: deltas are accumulated, calls by their index. *)
Gathered(calls, c) ==
    [i \in DOMAIN calls \cup {c.index} |->
       IF i # c.index THEN calls[i]
       ELSE IF i \in DOMAIN calls THEN [calls[i] EXCEPT !.args = @ \o c.args]
       ELSE Call(c.id, c.name, c.args)]

Accumulate(g, c) ==
    CASE c.type = "role" -> [g EXCEPT !.role = TRUE]
      [] c.type = "content" -> [g EXCEPT !.text = @ \o c.text]
      [] c.type = "tool" -> [g EXCEPT !.calls = Gathered(@, c)]
      [] c.type = "finish" -> [g EXCEPT !.finish = c.finish]
      [] c.type = "done" -> [g EXCEPT !.done = TRUE]

Received(chunks) ==
    LET after[n \in 0..Len(chunks)] ==
          IF n = 0 THEN got ELSE Accumulate(after[n - 1], chunks[n])
    IN  after[Len(chunks)]

CallsInOrder(g) ==
    [i \in 1..Cardinality(DOMAIN g.calls) |-> g.calls[i - 1]]

(* What the upstream said, as far as another upstream can be told: text and calls. *)
Meaning(blocks) ==
    LET calls == ToolCalls(blocks) IN
    [text |-> Texts(blocks),
     calls |-> [i \in DOMAIN calls |-> <<calls[i].name, argumentsToObject(calls[i].input)>>]]

(* The client goes on: the answer as it understood it, a result for every call, perhaps a
   remark.  A client that trims its context forgets all that came before the results. *)
Continue(remark, trim) ==
    LET calls == CallsInOrder(got)
        results == [i \in DOMAIN calls |-> Result(calls[i])]
        rest == results \o (IF remark \/ calls = <<>> THEN <<User("text")>> ELSE <<>>)
    IN  /\ phase = "answered"
        /\ turn < MaxTurns
        /\ trim => calls # <<>>
        /\ turn' = turn + 1
        /\ messages' = IF trim THEN rest ELSE Append(messages, Assistant(got.text, calls)) \o rest
        /\ said' = IF trim THEN <<>> ELSE Append(said, Meaning(answer.blocks))
        /\ phase' = "idle"
        /\ UNCHANGED <<asked, sent, answer, tr, got>>

-----------------------------------------------------------------------------
(* The upstream (external), and the translator as it handles each of its events. *)
Tell(state, chunks) ==
    IF asked.stream THEN tr' = state /\ got' = Received(chunks) ELSE UNCHANGED <<tr, got>>

Asking(d) == asked.dialect = d
Says(block) ==
    /\ phase = "answering"
    /\ Len(answer.blocks) < MaxBlocks - turn     \* later answers are shorter
    /\ answer.blocks # <<>> => JSONValid(Last(answer.blocks).input)    \* one block at a time
    /\ answer' = [answer EXCEPT !.blocks = Append(@, block)]
    /\ UNCHANGED <<messages, turn, asked, sent, phase, said>>
ThisPiece == <<Len(answer.blocks) + 1>>
ThisIndex == Len(answer.blocks)     \* content-block index

MessageStart ==
    /\ phase = "asked"
    /\ turn < MaxTurns
    /\ phase' = "answering"
    /\ IF Asking("anthropic")
       THEN Tell([tr EXCEPT !.role = TRUE, !.usage = UsageAdd(@, StartUsage)], <<RoleChunk>>)
       ELSE Tell([tr EXCEPT !.role = TRUE], <<RoleChunk>>)
    /\ UNCHANGED <<messages, turn, asked, sent, answer, said>>

TextDelta ==
    /\ Says(TextBlock(ThisPiece))
    /\ Tell(tr, <<ContentChunk(ThisPiece)>>)

(* Anthropic announces a call and sends its arguments in fragments. *)
ToolBlockStart(name) ==
    LET id == <<"toolu", turn, ThisIndex>> IN
    /\ phase = "answering" /\ Asking("anthropic")
    /\ name \in sent.tools
    /\ Says(Block("call", <<>>, id, name, <<>>))
    /\ Tell(ToolStarted(tr, ThisIndex), <<ToolChunk(tr.nextToolIndex, id, name, <<>>)>>)

InputJSONDelta ==
    LET index == Len(answer.blocks) - 1
        fragment == <<Len(Last(answer.blocks).input) + 1>>
    IN  /\ Asking("anthropic")
        /\ phase = "answering"
        /\ answer.blocks # <<>>
        /\ Last(answer.blocks).type = "call"
        /\ Len(Last(answer.blocks).input) < 2
        /\ answer' = [answer EXCEPT !.blocks[Len(answer.blocks)].input = @ \o fragment]
        /\ Tell(tr, IF index \in DOMAIN tr.toolIndex
                    THEN <<ToolChunk(tr.toolIndex[index], NoID, NoName, fragment)>> ELSE <<>>)
        /\ UNCHANGED <<messages, turn, asked, sent, phase, said>>

(* Gemini sends a call whole, without an id. *)
FunctionCall(name, args) ==
    /\ phase = "answering" /\ Asking("gemini")
    /\ name \in sent.tools
    /\ Says(Block("call", <<>>, NoID, name, args))
    /\ Tell(ToolStarted(tr, ThisIndex),
            <<ToolChunk(tr.nextToolIndex, geminiCallID(tr.nextToolIndex, name), name,
                        toolArguments(args))>>)

(* The end of an answer: why, and the tokens again, or only the new ones. *)
ReasonFits(reason) ==
    IF Asking("anthropic")
    THEN \/ reason = "max_tokens"
         \/ /\ reason = IF ToolCalls(answer.blocks) = <<>> THEN "end_turn" ELSE "tool_use"
            /\ \A i \in DOMAIN answer.blocks : JSONValid(answer.blocks[i].input)
    ELSE reason \in {"STOP", "MAX_TOKENS"}

MessageDelta(reason, repeats) ==
    /\ phase = "answering"
    /\ ReasonFits(reason)
    /\ answer' = [answer EXCEPT !.reason = reason]
    /\ phase' = "stopping"
    /\ Tell([tr EXCEPT !.reason = reason,
                       !.usage = IF Asking("anthropic") THEN UsageAdd(@, EndUsage(repeats)) ELSE @],
            <<>>)
    /\ UNCHANGED <<messages, turn, asked, sent, said>>

(* finish: on message_stop, at the end of the body, and when a body ends too soon. *)
EndOfStream ==
    /\ asked.stream
    /\ phase \in {"answering", "stopping"}
    /\ ~tr.done
    /\ phase' = "answered"
    /\ Tell([tr EXCEPT !.done = TRUE], FinishChunks(asked.dialect, tr))
    /\ UNCHANGED <<messages, turn, asked, sent, answer, said>>

(* The body breaks off: the translator returns without a last chunk. *)
ReadError ==
    /\ asked.stream
    /\ phase \in {"answering", "stopping"}
    /\ phase' = "broken"
    /\ UNCHANGED <<messages, turn, asked, sent, answer, tr, got, said>>

Whole ==
    IF Asking("anthropic") THEN AnthropicToOpenAI(answer.blocks, answer.reason)
    ELSE GeminiToOpenAI(answer.blocks, answer.reason)
ZeroBased(calls) == [i \in 0..(Len(calls) - 1) |-> calls[i + 1]]

WholeAnswer ==
    /\ ~asked.stream
    /\ phase = "stopping"
    /\ phase' = "answered"
    /\ got' = [role |-> TRUE, text |-> Whole.text, calls |-> ZeroBased(Whole.calls),
               finish |-> Whole.finish, done |-> TRUE]
    /\ UNCHANGED <<messages, turn, asked, sent, answer, tr, said>>

Over == phase \in {"refused", "broken"} \/ (phase = "asked" /\ turn = MaxTurns)
Finished == Over /\ UNCHANGED dialogueVars

DialogueNext ==
    \/ \E d \in Dialects, stream \in BOOLEAN :
         \E opts \in IF turn = 0 THEN Options ELSE {Plain} : Ask(d, stream, opts)
    \/ \E remark, trim \in BOOLEAN : Continue(remark, trim)
    \/ MessageStart
    \/ TextDelta
    \/ \E name \in ToolNames \cup {JSONTool} : ToolBlockStart(name)
    \/ InputJSONDelta
    \/ \E name \in ToolNames, args \in {<<>>, <<1, 2>>} : FunctionCall(name, args)
    \/ \E reason \in {"end_turn", "tool_use", "max_tokens", "STOP", "MAX_TOKENS"},
          repeats \in BOOLEAN : MessageDelta(reason, repeats)
    \/ EndOfStream
    \/ ReadError
    \/ WholeAnswer
    \/ Finished

DialogueSpec == DialogueInit /\ [][DialogueNext]_dialogueVars

-----------------------------------------------------------------------------
(* Properties. *)
CalledJSON == \E i \in DOMAIN answer.blocks : answer.blocks[i].name = JSONTool
Argumentless == \E i \in DOMAIN answer.blocks :
                   answer.blocks[i].type = "call" /\ answer.blocks[i].input = <<>>

(* A client is told the same whether it streams or not: the text, every call under its
   own index with its own arguments, the finish reason and the tokens charged, however
   the blocks alternate and whatever the closing event repeats.  Two answers are told
   otherwise: one with the synthetic JSON tool, and an Anthropic call without arguments,
   which streams as "" and not as "{}". *)
StreamTellsTheWhole ==
    (/\ phase = "answered" /\ asked.stream /\ answer.reason # ""
     /\ ~CalledJSON /\ (Asking("anthropic") => ~Argumentless))
    => /\ got.text = Whole.text
       /\ got.calls = ZeroBased(Whole.calls)
       /\ got.finish = Whole.finish
       /\ got.role /\ got.done
       /\ Asking("anthropic") => tr.usage.in = 4 /\ tr.usage.out = 3

AssistantTurns == Kept(sent.turns, {i \in DOMAIN sent.turns : sent.turns[i].role = "assistant"})

(* What an upstream reads of the conversation is what was said in it: turn by turn the
   text and the calls with their arguments, whichever upstream said them and however
   the client received them.  (An answer in the synthetic tool comes back as text.) *)
RoundTrip ==
    (phase \notin {"idle", "refused"} /\ sent.ok) =>
       /\ Len(AssistantTurns) = Len(said)
       /\ \A i \in DOMAIN said :
             \/ Meaning(AssistantTurns[i].blocks) = said[i]
             \/ \E j \in DOMAIN said[i].calls : said[i].calls[j][1] = JSONTool

Results(t) == OfType(t.blocks, "result")
Key(b) == IF Asking("anthropic") THEN b.id ELSE b.name
Keys(blocks) == [i \in DOMAIN blocks |-> Key(blocks[i])]

(* Every turn with calls is followed by one user turn that holds exactly their results,
   in order, keyed as the upstream keys them; nowhere else is there a result, but at
   the start of a trimmed context. *)
ResultsFollowCalls ==
    (phase \notin {"idle", "refused"} /\ sent.ok) =>
       \A i \in DOMAIN sent.turns :
          LET t == sent.turns[i] IN
          /\ ToolCalls(t.blocks) # <<>> =>
                /\ i < Len(sent.turns)
                /\ Keys(Results(sent.turns[i + 1])) = Keys(ToolCalls(t.blocks))
          /\ (Results(t) # <<>> /\ i > 1) => ToolCalls(sent.turns[i - 1].blocks) # <<>>
=============================================================================
