----------------------------- MODULE Responses -----------------------------
(***************************************************************************)
(* The two HTTP dialects (src/src/server): how an OpenAI or an Anthropic   *)
(* body becomes a prompt (openai.cpp, anthropic.cpp, make_request and the  *)
(* chat templates of tokenizer.cpp), and how the tokens of a request       *)
(* become one JSON answer or a stream of events (http_server.cpp).         *)
(*                                                                         *)
(* A rendered prompt is a sequence of items [t, v]: "open" and "close"     *)
(* bracket the turn of role v, "text", "call" and "tool" carry a text, a   *)
(* tool call and a schema of the client, "pad" is one image placeholder.   *)
(* An answer's text is a sequence of bytes; a JSON object, and the literal *)
(* <|python_tag|>, is one byte below 8, so that parsing it is a look at    *)
(* the text.                                                               *)
(***************************************************************************)
EXTENDS Tokenizer, SequencesExt

Item(t, v) == [t |-> t, v |-> v]
Items(t, s) == [k \in 1 .. Len(s) |-> Item(t, s[k])]
FlatMap(F(_), s) == FlattenSeq([k \in 1 .. Len(s) |-> F(s[k])])

-----------------------------------------------------------------------------
(* Requests.  A message of a body is [role, calls, content]: calls is None
   or <<its tool_calls>>, content None or <<its parts>>, a part [type, v].  A
   Tokenizer::Message is [role, content, toolCall, images, pads].          *)
None == <<>>
Rejected == [ok |-> FALSE]
Message(role, content, toolCall, images) ==
    [role |-> role, content |-> content, toolCall |-> toolCall, images |-> images, pads |-> <<>>]
PartsOf(type, parts) ==
    LET those == SelectSeq(parts, LAMBDA b : b.type = type)
    IN  [k \in 1 .. Len(those) |-> those[k].v]

(* parse_content: text is concatenated, images go beside it, in order.     *)
ParseContent(parts) == [text |-> PartsOf("text", parts), images |-> PartsOf("image", parts)]

(* parse_message: an assistant's tool call carries no content, and of the
   parallel calls the first is replayed.                                   *)
ParseMessage(m) ==
    IF m.role = "assistant" /\ m.calls # None
    THEN Message(m.role, <<>>, <<m.calls[1][1]>>, <<>>)
    ELSE LET c == ParseContent(m.content[1]) IN Message(m.role, c.text, <<>>, c.images)
MalformedMessage(m) ==
    IF m.role = "assistant" /\ m.calls # None THEN m.calls[1] = <<>> ELSE m.content = None

(* append_message of the Anthropic dialect: tool results first, then the text
   and the images of the turn, then its tool calls.                        *)
AppendMessage(m) ==
    LET text == PartsOf("text", m.content[1])
        images == PartsOf("image", m.content[1])
        results == PartsOf("tool_result", m.content[1])
        uses == PartsOf("tool_use", m.content[1])
    IN  [k \in 1 .. Len(results) |-> Message("tool", results[k], <<>>, <<>>)]
        \o (IF text # <<>> \/ images # <<>> THEN <<Message(m.role, text, <<>>, images)>> ELSE <<>>)
        \o [k \in 1 .. Len(uses) |-> Message("assistant", <<>>, <<uses[k]>>, <<>>)]

ParseToolChoice(c) ==
    CASE c = "absent" -> "auto" [] c = "none" -> "none"
      [] c \in {"any", "tool", "object"} -> "required" [] OTHER -> "auto"

(* The numbers a body may carry, in tenths, and the ranges parse_common
   admits them in; the Anthropic dialect reads the first three.            *)
Ranges == [max_tokens |-> 1 .. 1000, temperature |-> 0 .. 1000, top_p |-> 1 .. 10, min_p |-> 0 .. 10,
           repetition_penalty |-> 1 .. 1000, frequency_penalty |-> -20 .. 20,
           presence_penalty |-> -20 .. 20, top_logprobs |-> 0 .. 20]
Defaults == [max_tokens |-> 128, temperature |-> 10, top_p |-> 10, min_p |-> 0,
             repetition_penalty |-> 10, frequency_penalty |-> 0, presence_penalty |-> 0,
             top_logprobs |-> 0]
AnthropicFields == {"max_tokens", "temperature", "top_p"}
FieldsOf(body) ==
    [f \in DOMAIN Ranges |->
       IF f \in DOMAIN body.fields /\ (body.api = "openai" \/ f \in AnthropicFields)
       THEN body.fields[f] ELSE Defaults[f]]
FieldsAdmitted(body) ==
    /\ \A f \in DOMAIN Ranges : FieldsOf(body)[f] \in Ranges[f]
    /\ body.api = "anthropic" => "max_tokens" \in DOMAIN body.fields

(* parse_chat_request and parse_messages_request.                          *)
ParseRequest(body) ==
    LET messages == IF body.api = "openai"
                    THEN [k \in 1 .. Len(body.messages) |-> ParseMessage(body.messages[k])]
                    ELSE (IF body.system = <<>> THEN <<>> ELSE <<Message("system", body.system, <<>>, <<>>)>>)
                         \o FlatMap(AppendMessage, body.messages)
        malformed == \E k \in DOMAIN body.messages :
                       IF body.api = "openai" THEN MalformedMessage(body.messages[k])
                       ELSE body.messages[k].content = None
    IN  IF body.messages = <<>> \/ malformed \/ ~FieldsAdmitted(body) THEN Rejected
        ELSE [ok |-> TRUE, messages |-> messages, fields |-> FieldsOf(body), tools |-> body.tools,
              toolChoice |-> ParseToolChoice(body.toolChoice), logprobs |-> body.logprobs]

ToolsEnabled(r) == r.tools # <<>> /\ r.toolChoice # "none"
HasImages(r) == \E k \in DOMAIN r.messages : r.messages[k].images # <<>>

-----------------------------------------------------------------------------
(* The chat templates.                                                     *)
Turn(role, items) == <<Item("open", role)>> \o items \o <<Item("close", role)>>

(* render_llama3: the first system message that says anything is hoisted (the
   empty ones before it vanish); the schemas go into the first user turn.  *)
RenderLlama3(messages, tools) ==
    LET system == {k \in DOMAIN messages : messages[k].role = "system"}
        spoken == {k \in system : messages[k].content # <<>>}
        hoisted == IF spoken = {} THEN system ELSE {k \in system : k <= Min(spoken)}
        users == {k \in DOMAIN messages : messages[k].role = "user"}
        Body(k) ==
          LET m == messages[k] IN
          CASE k \in hoisted -> <<>>
            [] m.role = "tool" -> Turn("ipython", Items("text", m.content))
            [] m.role = "assistant" /\ m.toolCall # <<>> -> Turn("assistant", Items("call", m.toolCall))
            [] OTHER -> Turn(m.role, (IF k \in users /\ k = Min(users) THEN Items("tool", tools) ELSE <<>>)
                                     \o Items("text", m.content))
    IN  Turn("system", IF spoken = {} THEN <<>> ELSE Items("text", messages[Min(spoken)].content))
        \o FlattenSeq([k \in 1 .. Len(messages) |-> Body(k)]) \o <<Item("open", "assistant")>>

(* vision_blocks: one bracketed run of placeholders per image.             *)
VisionBlocks(m) ==
    FlatMap(LAMBDA n : <<Item("vision", "start")>> \o [k \in 1 .. n |-> Item("pad", "image")]
                       \o <<Item("vision", "end")>>, m.pads)

HaveSystem(messages) == messages # <<>> /\ messages[1].role = "system"

(* render_qwen3: a leading system turn with the schemas, tool results grouped
   under one user turn.                                                    *)
RenderQwen3(messages, tools, thinking, openThink) ==
    LET first == IF HaveSystem(messages) THEN Items("text", messages[1].content) ELSE <<>>
        lead == IF tools # <<>> THEN Turn("system", first \o Items("tool", tools))
                ELSE IF HaveSystem(messages) THEN Turn("system", first) ELSE <<>>
        IsTool(k) == k \in DOMAIN messages /\ messages[k].role = "tool"
        Body(k) ==
          LET m == messages[k] IN
          CASE k = 1 /\ HaveSystem(messages) -> <<>>
            [] m.role = "tool" -> (IF IsTool(k - 1) THEN <<>> ELSE <<Item("open", "user")>>)
                                  \o Items("text", m.content)
                                  \o (IF IsTool(k + 1) THEN <<>> ELSE <<Item("close", "user")>>)
            [] m.role = "assistant" -> Turn("assistant", Items("text", m.content) \o Items("call", m.toolCall))
            [] OTHER -> Turn(m.role, VisionBlocks(m) \o Items("text", m.content))
    IN  lead \o FlattenSeq([k \in 1 .. Len(messages) |-> Body(k)]) \o <<Item("open", "assistant")>>
        \o (IF ~thinking THEN <<Item("think", "closed")>>
            ELSE IF openThink THEN <<Item("think", "open")>> ELSE <<>>)

ChatFormat(modelType) ==
    CASE modelType = "qwen3_5" -> "Qwen35"
      [] modelType \in {"qwen3", "qwen3_moe", "qwen2", "qwen3_vl"} -> "Qwen3"
      [] OTHER -> "Llama3"
RenderChatTemplate(fmt, messages, tools, thinking) ==
    IF fmt = "Llama3" THEN RenderLlama3(messages, tools)
    ELSE RenderQwen3(messages, tools, thinking, fmt = "Qwen35")

-----------------------------------------------------------------------------
(* make_request.  The placeholders of an image are counted from its size;
   a turn that renders no vision block keeps its images out.               *)
CarriesVision(messages, k) ==
    ~(k = 1 /\ HaveSystem(messages)) /\ messages[k].role \notin {"tool", "assistant"}

Attached(messages, k) == IF CarriesVision(messages, k) THEN messages[k].images ELSE <<>>

MakeRequest(r, modelType, hasTower, tokensOfImage) ==
    LET Image(k) == Attached(r.messages, k)
        padded == [k \in 1 .. Len(r.messages) |->
                     IF CarriesVision(r.messages, k)
                     THEN [r.messages[k] EXCEPT !.pads = [j \in DOMAIN Image(k) |-> tokensOfImage[Image(k)[j]]]]
                     ELSE r.messages[k]]
        fmt == ChatFormat(modelType)
    IN  IF HasImages(r) /\ ~hasTower THEN Rejected
        ELSE IF HasImages(r)
        THEN [ok |-> TRUE, topLogprobs |-> -1,
              images |-> FlattenSeq([k \in 1 .. Len(r.messages) |-> Image(k)]),
              prompt |-> RenderChatTemplate(fmt, padded, <<>>, TRUE)]
        ELSE [ok |-> TRUE, topLogprobs |-> IF r.logprobs THEN r.fields.top_logprobs ELSE -1, images |-> <<>>,
              prompt |-> RenderChatTemplate(fmt, r.messages, IF ToolsEnabled(r) THEN r.tools ELSE <<>>, TRUE)]

-----------------------------------------------------------------------------
(* Tool calls in an answer.  1 is a call object, 2 an object without a name,
   3 a call whose arguments contain a semicolon; all begin with a brace.
   4 is <|python_tag|>.                                                    *)
Brace == 123
Semicolon == 59
PyTag == 4
OpensObject(b) == b \in {1, 2, 3, Brace}
Trim(s) ==
    LET ink == {k \in DOMAIN s : s[k] \notin {9, 10, 13, 32}}
    IN  IF ink = {} THEN <<>> ELSE SubSeq(s, Min(ink), Max(ink))

RECURSIVE SplitCalls(_)
SplitCalls(s) ==
    LET cut == SelectInSeq(s, LAMBDA b : b = Semicolon)
    IN  IF cut = 0 THEN <<s>>
        ELSE <<SubSeq(s, 1, cut - 1)>> \o SplitCalls(SubSeq(s, cut + 1, Len(s)))

Untagged(s) == IF s # <<>> /\ s[1] = PyTag THEN Trim(Tail(s)) ELSE s

(* parse_tool_calls: without a leading tag, the whole text as one object, else
   its parts between semicolons, wherever a semicolon stands.              *)
ParseToolCalls(text) ==
    LET s == Untagged(Trim(text))
        bytes == FlatMap(LAMBDA b : IF b = 3 THEN <<Brace, Semicolon, 125>> ELSE <<b>>, s)
        parts == SplitCalls(bytes)
        calls == SelectSeq([k \in 1 .. Len(parts) |-> Trim(parts[k])], LAMBDA p : p = <<1>>)
    IN  CASE s = <<>> -> <<>>
          [] s # <<>> /\ ~OpensObject(s[1]) -> <<>>
          [] s \in {<<1>>, <<3>>} -> <<s[1]>>
          [] s = <<2>> -> <<>>
          [] OTHER -> [k \in 1 .. Len(calls) |-> 1]

-----------------------------------------------------------------------------
(* Answers.  p is [tok, ids, reason, tools, lps]: what the request streamed,
   the worker's reason, whether tools were offered and log-probs asked for;
   the log-prob of a token is the token (its alternatives are left out).   *)
FinishReasonOf(reason) == IF reason = "length" THEN "length" ELSE "stop"
AnthropicStopReason(reason) == IF reason = "length" THEN "max_tokens" ELSE "end_turn"
CallsIn(p, text) == IF p.tools THEN ParseToolCalls(text) ELSE <<>>

(* dump() throws on a string that is not UTF-8.  A log-prob entry carries the
   text of its token alone, so half a character is enough.                 *)
Dumps(tok, text, lps) == IsUtf8(text) /\ \A k \in DOMAIN lps : IsUtf8(Decode(tok, <<lps[k]>>))

(* run_blocking and run_blocking_messages, and the dump() of what they return:
   the handler answers an exception with status 400.                       *)
RunBlocking(p) ==
    LET content == Decode(p.tok, p.ids)  calls == CallsIn(p, content)
        lps == IF p.lps THEN p.ids ELSE <<>>
    IN  IF calls # <<>> THEN [ok |-> TRUE, content |-> <<>>, calls |-> calls, finish |-> "tool_calls", lps |-> <<>>]
        ELSE IF ~Dumps(p.tok, content, lps) THEN Rejected
        ELSE [ok |-> TRUE, content |-> content, calls |-> <<>>, finish |-> FinishReasonOf(p.reason), lps |-> lps]
RunBlockingMessages(p) ==
    LET content == Decode(p.tok, p.ids)  calls == CallsIn(p, content)
    IN  IF calls # <<>> THEN [ok |-> TRUE, blocks |-> Items("tool_use", calls), stop |-> "tool_use"]
        ELSE IF ~Dumps(p.tok, content, <<>>) THEN Rejected
        ELSE [ok |-> TRUE, blocks |-> <<Item("text", content)>>, stop |-> AnthropicStopReason(p.reason)]

(* The loop both streams share: with tools on offer the text is held back
   until its first character that is not white space is no brace.          *)
HoldsBack(buffered) ==
    LET s == Trim(buffered) IN s = <<>> \/ OpensObject(s[1])

(* A slip: what was held back before the decision is not sent.             *)
StreamPieceForgets(st, piece) ==
    IF st.buffering /\ HoldsBack(st.buffered \o piece) THEN [st EXCEPT !.buffered = @ \o piece]
    ELSE [st EXCEPT !.buffering = FALSE, !.buffered = <<>>, !.sent = Append(@, [text |-> piece, lps |-> st.pending]),
                    !.pending = <<>>]

StreamPiece(st, piece) ==
    LET held == st.buffered \o piece IN
    IF st.buffering /\ HoldsBack(held) THEN [st EXCEPT !.buffered = held]
    ELSE [st EXCEPT !.buffering = FALSE, !.buffered = <<>>, !.sent = Append(@, [text |-> held, lps |-> st.pending]),
                    !.pending = <<>>]
StreamPopped(st, text) == IF text = <<>> THEN st ELSE StreamPiece(st, text)
StreamAdded(p, st, id, added) ==
    StreamPopped([st EXCEPT !.detok = added.d, !.pending = IF p.lps THEN Append(@, id) ELSE @], added.text)
StreamToken(p, st, id) == StreamAdded(p, st, id, DetokAdd(p.tok, st.detok, id))
StreamLoop(p) ==
    FoldLeft(LAMBDA st, id : StreamToken(p, st, id),
             [detok |-> [ids |-> <<>>, emitted |-> 0], buffering |-> p.tools, buffered |-> <<>>,
              pending |-> <<>>, sent |-> <<>>], p.ids)
StreamRest(p, st) == st.buffered \o DetokFinish(p.tok, st.detok).text
SendText(st, text) ==
    IF text = <<>> THEN st.sent ELSE Append(st.sent, [text |-> text, lps |-> st.pending])

(* After the loop: the calls in what was held back, or all the text there is. *)
StreamEnd(st, rest) ==
    LET calls == IF st.buffering THEN ParseToolCalls(rest) ELSE <<>>
    IN  [calls |-> calls, sent |-> IF calls # <<>> THEN st.sent ELSE SendText(st, rest)]
FinishStream(p, st) == StreamEnd(st, StreamRest(p, st))

(* The frames before the first one whose dump() throws, which leaves the
   content provider and breaks the stream off.                             *)
BeforeThrow(p, sent) ==
    LET broken == {k \in DOMAIN sent : ~Dumps(p.tok, sent[k].text, sent[k].lps)}
    IN  IF broken = {} THEN sent ELSE SubSeq(sent, 1, Min(broken) - 1)

(* stream_chat: the deltas, the calls and the finish reason of the chunks. *)
StreamChat(p) ==
    LET end == FinishStream(p, StreamLoop(p))  deltas == BeforeThrow(p, end.sent)
    IN  IF deltas # end.sent THEN [ok |-> FALSE, deltas |-> deltas]
        ELSE [ok |-> TRUE, deltas |-> deltas, calls |-> end.calls,
              finish |-> IF end.calls # <<>> THEN "tool_calls" ELSE FinishReasonOf(p.reason)]

(* stream_messages: its events, as [e, index, v].                          *)
Event(e, index, v) == [e |-> e, index |-> index, v |-> v]
CallEvents(calls) ==
    FlattenSeq([k \in 1 .. Len(calls) |->
      <<Event("start", k - 1, "tool_use"), Event("delta", k - 1, <<calls[k]>>), Event("stop", k - 1, "")>>])
TextEvents(sent) ==
    <<Event("start", 0, "text")>> \o [k \in 1 .. Len(sent) |-> Event("delta", 0, sent[k].text)]
StreamMessages(p) ==
    LET end == FinishStream(p, StreamLoop([p EXCEPT !.lps = FALSE]))  deltas == BeforeThrow(p, end.sent)
        first == <<Event("message_start", 0, "")>>
        stop == IF end.calls # <<>> THEN "tool_use" ELSE AnthropicStopReason(p.reason)
    IN  IF deltas # end.sent THEN [ok |-> FALSE, events |-> first \o TextEvents(deltas)]
        ELSE [ok |-> TRUE,
              events |-> first \o (IF end.calls # <<>> THEN CallEvents(end.calls)
                                   ELSE TextEvents(deltas) \o <<Event("stop", 0, "")>>)
                         \o <<Event("message_delta", 0, stop), Event("message_stop", 0, "")>>]
=============================================================================
