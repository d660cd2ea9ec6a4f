------------------------------- MODULE Streams -------------------------------
(***************************************************************************)
(* One streamed answer on its way through the gateway: the events of the   *)
(* upstream become canonical chunks (satori_gateway/pipelines), the chunks *)
(* become the events of the client's protocol (satori_gateway/adapters),   *)
(* and what came is audited (_passthrough_stream, _translated_stream and   *)
(* the extraction of _finalize in satori_gateway/app.py).                  *)
(*                                                                         *)
(* A piece of text or of tool arguments is a number, its place in what the *)
(* model said, and a tool is named by its place among the calls, so that   *)
(* nothing can be lost, doubled or exchanged unnoticed.  The upstream is   *)
(* external and keeps to its protocol: text and calls in any order, usage  *)
(* with the finish or after it, one choice per chunk.                      *)
(*                                                                         *)
(* A chunk is written as one line and JSON leaves U+2028, U+2029 and U+0085 *)
(* as they are; where lines are read with splitlines() they end one, and   *)
(* neither half is JSON.  A client ends a line at \n or \r only.           *)
(***************************************************************************)
EXTENDS Integers, Sequences, FiniteSets, Picking

CONSTANTS
    Upstreams,      \* native formats: "openai", "anthropic"
    Clients,        \* protocols: "chat", "messages", "responses"
    Separated,      \* pieces with a line separator of Unicode, as they are written
    MaxSaid,        \* bound on the pieces and calls of an answer
    MaxBlocks       \* bound on the native blocks of an answer

ASSUME StreamsAssumption ==
    /\ Upstreams \subseteq {"openai", "anthropic"}
    /\ Clients \subseteq {"chat", "messages", "responses"}
    /\ Separated \subseteq Nat \ {0}
    /\ MaxSaid \in Nat /\ MaxBlocks \in Nat

VARIABLES
    upstream, client,   \* who talks to whom
    phase,      \* of the generator that serves the answer
    native,     \* where the upstream is in its protocol
    conv,       \* AnthropicConverter's stream state
    adapter,    \* the adapter's stream state
    parts,      \* the canonical chunks for _finalize
    queue,      \* events of the current chunk that are not yielded yet
    got,        \* what the client has received
    said        \* history: what the model has said

ends  == <<upstream, client>>
vars  == <<ends, phase, native, conv, adapter, parts, queue, got, said>>

-----------------------------------------------------------------------------
(* What the model says.                                                    *)

None == 0

\* [x for x in values if x].
Given(values) == Picked(values, {i \in DOMAIN values : values[i] # None})

Calls(s) == Cardinality({i \in DOMAIN s : s[i].kind = "call"})

TextNumbers(s)    == [i \in DOMAIN s |-> IF s[i].kind = "text" THEN i ELSE None]
ArgsNumbers(s, n) == [i \in DOMAIN s |-> IF s[i].kind = "args" /\ s[i].call = n THEN i ELSE None]

SaidText    == Given(TextNumbers(said))
SaidArgs(n) == Given(ArgsNumbers(said, n))
SaidTools   == [n \in 1..Calls(said) |-> [name |-> n, args |-> SaidArgs(n)]]

Says(kind, call) == /\ Len(said) < MaxSaid
                    /\ said' = Append(said, [kind |-> kind, call |-> call])

Piece == Len(said) + 1

-----------------------------------------------------------------------------
(* Canonical chunks.                                                       *)

NoTool == [index |-> -1, name |-> None, args |-> None]
Empty  == [text |-> None, tool |-> NoTool, finish |-> FALSE, usage |-> FALSE]

Text(piece)             == [Empty EXCEPT !.text = piece]
Tool(index, name, args) == [Empty EXCEPT !.tool = [index |-> index, name |-> name, args |-> args]]
Finish(usage)           == [Empty EXCEPT !.finish = TRUE, !.usage = usage]

Texts(chunks) == [i \in DOMAIN chunks |-> chunks[i].text]

\* The text of the chunks.
TextIn(chunks) == Given(Texts(chunks))

Indices(chunks) == {chunks[i].tool.index : i \in DOMAIN chunks} \ {-1}

Names(chunks, index) ==
    [i \in DOMAIN chunks |-> IF chunks[i].tool.index = index THEN chunks[i].tool.name ELSE None]

Args(chunks, index) ==
    [i \in DOMAIN chunks |-> IF chunks[i].tool.index = index THEN chunks[i].tool.args ELSE None]

LastOf(names) == IF names = <<>> THEN None ELSE names[Len(names)]

\* _merge_tool_call for one index: the last name, and all arguments.
Merged(chunks, index) == [name |-> LastOf(Given(Names(chunks, index))),
                          args |-> Given(Args(chunks, index))]

\* The calls of the chunks, in the order of their indices.
ToolsIn(chunks) ==
    LET ranks == InOrder({i \in 1..MaxSaid : i - 1 \in Indices(chunks)})
    IN  [i \in DOMAIN ranks |-> Merged(chunks, ranks[i] - 1)]

\* A line that splitlines() takes for two.
Splits(c) == c.text \in Separated \/ c.tool.args \in Separated

\* What json.loads makes of the lines: one that does not parse says nothing.
Extracted(chunks) == [i \in DOMAIN chunks |-> IF Splits(chunks[i]) THEN Empty ELSE chunks[i]]

\* _extract_text and _extract_tool_calls.
AuditText  == TextIn(Extracted(parts))
AuditTools == ToolsIn(Extracted(parts))

-----------------------------------------------------------------------------
(* AnthropicAdapter.translate_sse.                                         *)

Start(i, name) == [type |-> "start", index |-> i, name |-> name]
Stop(i)        == [type |-> "stop", index |-> i]
Delta(i, p)    == [type |-> "delta", index |-> i, piece |-> p]
Event(type)    == [type |-> type]

NoAdapter == [started |-> FALSE, done |-> FALSE, textOpen |-> TRUE, blocks |-> <<>>, open |-> {},
              text |-> <<>>]

\* The blocks still open, text first, then by index.
Stops(a) ==
    LET tools == InOrder(a.open)
    IN  (IF a.textOpen THEN <<Stop(0)>> ELSE <<>>) \o [i \in DOMAIN tools |-> Stop(tools[i])]

\* Mutant of Closed: the closing leaves the flag to its caller.
ClosedAgain(a) == [a EXCEPT !.textOpen = FALSE, !.open = {}]

Closed(a) == [a EXCEPT !.done = TRUE, !.textOpen = FALSE, !.open = {}]

\* blocks: the canonical index of block i is blocks[i].
BlockOf(a, index) == CHOOSE i \in DOMAIN a.blocks : a.blocks[i] = index

Known(a, index) == \E i \in DOMAIN a.blocks : a.blocks[i] = index

\* Mutant of Opened: the text block stays open.
OpenedBeside(a, index) ==
    [a EXCEPT !.blocks = Append(@, index), !.open = @ \cup {Len(a.blocks) + 1}]

Opened(a, index) ==
    [a EXCEPT !.blocks = Append(@, index), !.textOpen = FALSE, !.open = @ \cup {Len(a.blocks) + 1}]

\* Mutant of ToolEvents: a new block ends the one before, whatever it is.
ToolEventsInTurn(a, tool) ==
    IF tool.index = -1 THEN <<>>
    ELSE LET new == ~Known(a, tool.index)
             i   == IF new THEN Len(a.blocks) + 1 ELSE BlockOf(a, tool.index)
         IN  (IF new THEN <<Stop(Len(a.blocks)), Start(i, tool.name)>> ELSE <<>>)
             \o (IF tool.args # None THEN <<Delta(i, tool.args)>> ELSE <<>>)

\* _tool_events: the first delta of a call ends the text block and starts one.
ToolEvents(a, tool) ==
    IF tool.index = -1 THEN <<>>
    ELSE LET new == ~Known(a, tool.index)
             i   == IF new THEN Len(a.blocks) + 1 ELSE BlockOf(a, tool.index)
         IN  (IF new /\ a.textOpen THEN <<Stop(0)>> ELSE <<>>)
             \o (IF new THEN <<Start(i, tool.name)>> ELSE <<>>)
             \o (IF tool.args # None THEN <<Delta(i, tool.args)>> ELSE <<>>)

AfterTool(a, tool) == IF tool.index = -1 \/ Known(a, tool.index) THEN a ELSE Opened(a, tool.index)

MessagesClosing(a) == Stops(a) \o <<Event("message_delta"), Event("message_stop")>>

Closes(a, c) == (c.finish \/ c.usage) /\ ~a.done

MessagesEvents(a, c) ==
    (IF a.started THEN <<>> ELSE <<Event("message_start"), Start(0, None)>>)
    \o (IF c.text # None THEN <<Delta(0, c.text)>> ELSE <<>>)
    \o ToolEvents(a, c.tool)
    \o (IF Closes(a, c) THEN MessagesClosing(AfterTool(a, c.tool)) ELSE <<>>)

-----------------------------------------------------------------------------
(* ResponsesAdapter.translate_sse: tool calls are not translated.          *)

ResponsesClosing(a) == <<[type |-> "text.done", text |-> a.text], Event("part.done"),
                         Event("item.done"), Event("completed")>>

WithText(a, c) == IF c.text = None THEN a ELSE [a EXCEPT !.text = Append(@, c.text)]

ResponsesEvents(a, c) ==
    (IF a.started THEN <<>>
     ELSE <<Event("created"), Event("item.added"), Event("part.added")>>)
    \o (IF c.text # None THEN <<Delta(0, c.text)>> ELSE <<>>)
    \o (IF Closes(a, c) THEN ResponsesClosing(WithText(a, c)) ELSE <<>>)

-----------------------------------------------------------------------------
(* The generator.                                                          *)

\* ChatAdapter: the chunk itself.
EventsFor(a, c) == CASE client = "chat"      -> <<c>>
                     [] client = "messages"  -> MessagesEvents(a, c)
                     [] client = "responses" -> ResponsesEvents(a, c)

AdapterAfter(a, c) ==
    LET b == [a EXCEPT !.started = TRUE]
        d == IF client = "messages" THEN AfterTool(b, c.tool) ELSE WithText(b, c)
    IN  IF client = "chat" THEN a ELSE IF Closes(a, c) THEN Closed(d) ELSE d

\* finish_sse, or the [DONE] of a client that speaks the canonical protocol.
\* Bytes that are passed through end as the upstream ended them.
Closing(a) ==
    CASE client = "chat"      -> <<Event("DONE")>>
      [] client = "messages"  -> IF a.started /\ ~a.done THEN MessagesClosing(a) ELSE <<>>
      [] client = "responses" -> IF a.started /\ ~a.done THEN ResponsesClosing(a) ELSE <<>>

\* The generator asks for the next event when all of the last are yielded.
Asks == phase = "open" /\ queue = <<>>

\* Mutant of Receive: the chunk is kept for the audit after it is yielded.
ReceiveFirst(c) ==
    /\ queue' = EventsFor(adapter, c)
    /\ adapter' = AdapterAfter(adapter, c)
    /\ parts' = IF Len(queue') > 1 THEN parts ELSE Append(parts, c)

\* A chunk is kept for the audit before any event of it is yielded.
Receive(c) ==
    /\ queue' = EventsFor(adapter, c)
    /\ adapter' = AdapterAfter(adapter, c)
    /\ parts' = Append(parts, c)

Ignore == UNCHANGED <<queue, adapter, parts>>

NoConv == [tools |-> [b \in 0..MaxBlocks |-> -1], next |-> 0]

Init ==
    /\ upstream \in Upstreams /\ client \in Clients
    /\ phase = "open"
    /\ native = [at |-> "begin", block |-> -1, kind |-> "none"]
    /\ conv = NoConv
    /\ adapter = NoAdapter
    /\ parts = <<>> /\ queue = <<>> /\ got = <<>> /\ said = <<>>

-----------------------------------------------------------------------------
(* An OpenAI upstream: its chunks are canonical.                           *)

OpenAI == Asks /\ upstream = "openai" /\ UNCHANGED <<ends, phase, conv, got>>

OpenAIText ==
    /\ OpenAI /\ native.at \in {"begin", "body"}
    /\ Says("text", 0)
    /\ Receive(Text(Piece))
    /\ native' = [native EXCEPT !.at = "body"]

\* The first delta of a call names it.
OpenAICall ==
    /\ OpenAI /\ native.at \in {"begin", "body"}
    /\ Says("call", Calls(said) + 1)
    /\ Receive(Tool(Calls(said), Calls(said) + 1, None))
    /\ native' = [native EXCEPT !.at = "body"]

\* The arguments of parallel calls may come in any order.
OpenAIArgs(n) ==
    /\ OpenAI /\ native.at = "body"
    /\ n \in 1..Calls(said)
    /\ Says("args", n)
    /\ Receive(Tool(n - 1, None, Piece))
    /\ UNCHANGED native

OpenAIFinish(usage) ==
    /\ OpenAI /\ native.at \in {"begin", "body"}
    /\ Receive(Finish(usage))
    /\ native' = [native EXCEPT !.at = IF usage THEN "finished" ELSE "counting"]
    /\ UNCHANGED said

\* stream_options.include_usage: a last chunk without choices.
OpenAIUsage ==
    /\ OpenAI /\ native.at = "counting"
    /\ Receive([Empty EXCEPT !.usage = TRUE])
    /\ native' = [native EXCEPT !.at = "finished"]
    /\ UNCHANGED said

-----------------------------------------------------------------------------
(* An Anthropic upstream, and AnthropicConverter.translate_sse_data.       *)

Anthropic == Asks /\ upstream = "anthropic" /\ UNCHANGED <<ends, phase, got>>

MessageStart ==
    /\ Anthropic /\ native.at = "begin"
    /\ Receive(Empty)
    /\ native' = [native EXCEPT !.at = "between"]
    /\ UNCHANGED <<conv, said>>

TextBlock ==
    /\ Anthropic /\ native.at = "between" /\ native.block < MaxBlocks
    /\ native' = [at |-> "block", block |-> native.block + 1, kind |-> "text"]
    /\ Ignore
    /\ UNCHANGED <<conv, said>>

\* Mutant of ToolBlock: the canonical index is that of the native block.
ToolBlockAsIs ==
    /\ Anthropic /\ native.at = "between" /\ native.block < MaxBlocks
    /\ Says("call", Calls(said) + 1)
    /\ native' = [at |-> "block", block |-> native.block + 1, kind |-> "tool"]
    /\ conv' = [tools |-> [conv.tools EXCEPT ![native.block + 1] = conv.next], next |-> conv.next]
    /\ Receive(Tool(conv.next, Calls(said) + 1, None))

\* A tool_use block gets the next canonical index.
ToolBlock ==
    /\ Anthropic /\ native.at = "between" /\ native.block < MaxBlocks
    /\ Says("call", Calls(said) + 1)
    /\ native' = [at |-> "block", block |-> native.block + 1, kind |-> "tool"]
    /\ conv' = [tools |-> [conv.tools EXCEPT ![native.block + 1] = conv.next],
                next |-> conv.next + 1]
    /\ Receive(Tool(conv.next, Calls(said) + 1, None))

TextDelta ==
    /\ Anthropic /\ native.at = "block" /\ native.kind = "text"
    /\ Says("text", 0)
    /\ Receive(Text(Piece))
    /\ UNCHANGED <<native, conv>>

\* A delta of a block without a canonical index is dropped.
ArgsDelta ==
    /\ Anthropic /\ native.at = "block" /\ native.kind = "tool"
    /\ Says("args", Calls(said))
    /\ IF conv.tools[native.block] = -1 THEN Ignore
       ELSE Receive(Tool(conv.tools[native.block], None, Piece))
    /\ UNCHANGED <<native, conv>>

BlockStop ==
    /\ Anthropic /\ native.at = "block"
    /\ native' = [native EXCEPT !.at = "between", !.kind = "none"]
    /\ Ignore
    /\ UNCHANGED <<conv, said>>

\* stop_reason and usage come together; message_stop, which follows, is ignored.
MessageDelta ==
    /\ Anthropic /\ native.at = "between"
    /\ Receive(Finish(TRUE))
    /\ native' = [native EXCEPT !.at = "finished"]
    /\ UNCHANGED <<conv, said>>

-----------------------------------------------------------------------------
(* The transport.                                                          *)

\* _passthrough_stream hands on bytes; _translated_stream reads lines.
Passthrough == upstream = "openai" /\ client = "chat"

\* A delta whose line aiter_lines() takes for two: translate_stream drops both.
LineBreaks ==
    /\ Asks /\ ~Passthrough
    /\ native.at \in IF upstream = "openai" THEN {"begin", "body"} ELSE {"block"}
    /\ Says("unread", 0)
    /\ Ignore
    /\ UNCHANGED <<ends, phase, native, conv, got>>

-----------------------------------------------------------------------------
(* The client.                                                             *)

Yield ==
    /\ phase \in {"open", "closing"} /\ queue # <<>>
    /\ got' = Append(got, Head(queue))
    /\ queue' = Tail(queue)
    /\ UNCHANGED <<ends, phase, native, conv, adapter, parts, said>>

\* The upstream closes the connection, finished or not.
UpstreamEnds ==
    /\ Asks
    /\ phase' = "closing"
    /\ queue' = Closing(adapter)
    /\ adapter' = IF adapter.started THEN Closed(adapter) ELSE adapter
    /\ UNCHANGED <<ends, native, conv, parts, got, said>>

\* The finally clause: what came is audited, whoever is still there to see it.
Leave(how) ==
    /\ phase' = how
    /\ queue' = <<>>
    /\ UNCHANGED <<ends, native, conv, adapter, parts, got, said>>

Complete      == phase = "closing" /\ queue = <<>> /\ Leave("complete")
UpstreamFails == Asks /\ Leave("failed")
ClientLeaves  == phase \in {"open", "closing"} /\ queue # <<>> /\ Leave("gone")

Done == phase \in {"complete", "failed", "gone"} /\ UNCHANGED vars

Upstream == \/ OpenAIText \/ OpenAICall \/ (\E n \in 1..MaxSaid : OpenAIArgs(n))
            \/ (\E usage \in BOOLEAN : OpenAIFinish(usage)) \/ OpenAIUsage
            \/ MessageStart \/ TextBlock \/ ToolBlock \/ TextDelta \/ ArgsDelta \/ BlockStop
            \/ MessageDelta \/ LineBreaks

Next == Upstream \/ Yield \/ UpstreamEnds \/ Complete \/ UpstreamFails \/ ClientLeaves \/ Done

Spec == Init /\ [][Next]_vars

-----------------------------------------------------------------------------
(* What the client understands.                                            *)

\* What the events say of block i.
Deltas(events, i) ==
    [j \in DOMAIN events |->
        IF events[j].type = "delta" /\ events[j].index = i THEN events[j].piece ELSE None]

StartNames(events, i) ==
    [j \in DOMAIN events |->
        IF events[j].type = "start" /\ events[j].index = i THEN events[j].name ELSE None]

\* The blocks of tool calls, in the order of their starts.
Starts(events) ==
    [j \in DOMAIN events |-> IF events[j].type = "start" THEN events[j].index ELSE None]

\* The chunks a client of the canonical protocol has, without its [DONE].
GotChunks == IF got # <<>> /\ got[Len(got)] = Event("DONE") THEN SubSeq(got, 1, Len(got) - 1)
             ELSE got

GotText  == IF client = "chat" THEN TextIn(GotChunks) ELSE Given(Deltas(got, 0))

GotBlocks == LET blocks == Given(Starts(got))
             IN  [j \in DOMAIN blocks |-> [name |-> LastOf(Given(StartNames(got, blocks[j]))),
                                           args |-> Given(Deltas(got, blocks[j]))]]

GotTools == CASE client = "chat"      -> ToolsIn(GotChunks)
              [] client = "messages"  -> GotBlocks
              [] client = "responses" -> <<>>

\* The pieces without a separator.
Audible(pieces) ==
    Given([i \in DOMAIN pieces |-> IF pieces[i] \in Separated THEN None ELSE pieces[i]])

AudibleTools(tools) ==
    [i \in DOMAIN tools |-> [name |-> tools[i].name, args |-> Audible(tools[i].args)]]

Prefix(s, t) == Len(s) =< Len(t) /\ SubSeq(t, 1, Len(s)) = s

\* Block i is open after the first n of the events.
OpenAt(events, i, n) ==
    \E j \in 1..n : /\ events[j].type = "start" /\ events[j].index = i
                    /\ \A k \in (j + 1)..n : ~(events[k].type = "stop" /\ events[k].index = i)

-----------------------------------------------------------------------------
(* Properties.                                                             *)

Chunks == [text : 0..MaxSaid, finish : BOOLEAN, usage : BOOLEAN,
           tool : [index : -1..MaxSaid, name : 0..MaxSaid, args : 0..MaxSaid]]

\* Indices and names are well formed, and what the adapter takes for open are
\* blocks it has started.
TypeOK ==
    /\ upstream \in Upstreams /\ client \in Clients
    /\ phase \in {"open", "closing", "complete", "failed", "gone"}
    /\ parts \in Seq(Chunks)
    /\ conv.next \in 0..Calls(said)
    /\ adapter.open \subseteq DOMAIN adapter.blocks
    /\ adapter.textOpen => adapter.open = {}

\* A client is never told what the audit does not see, but for the pieces with a
\* separator: whenever the stream ends, by itself, by the upstream's failure or
\* with the client's leaving between two events of one chunk, all the rest that
\* it got is in what _finalize extracts.
NothingUnaudited ==
    /\ Prefix(Audible(GotText), AuditText)
    /\ Len(GotTools) =< Len(AuditTools)
    /\ \A i \in DOMAIN GotTools :
          /\ GotTools[i].name = AuditTools[i].name
          /\ Prefix(Audible(GotTools[i].args), AuditTools[i].args)

\* The audit sees all of what the client is told.
AuditHearsAll ==
    /\ Prefix(GotText, AuditText)
    /\ \A i \in DOMAIN GotTools : Prefix(GotTools[i].args, AuditTools[i].args)

\* An answer that was delivered to its end is the one the model gave, as far as
\* it could be read: every text, every call and every argument once, in order and
\* in its place, through both translations.  The audit has it but for the pieces
\* with a separator, and a piece it lacks shifts no other.
DeliveredAsSaid ==
    phase = "complete" =>
        /\ GotText = SaidText /\ AuditText = Audible(SaidText)
        /\ client # "responses" => GotTools = SaidTools
        /\ AuditTools = AudibleTools(SaidTools)

\* An Anthropic client gets deltas of open blocks only, with one exception: text
\* that the model adds after a tool call goes to the text block that the call
\* has closed.
DeltasHitOpenBlocks ==
    client = "messages" =>
        \A n \in DOMAIN got :
            got[n].type = "delta" =>
                \/ OpenAt(got, got[n].index, n)
                \/ got[n].index = 0 /\ \E j \in 1..n : got[j].type = "start" /\ got[j].index > 0

Last == {"message_stop", "completed"}

\* A stream that ran to its end has closed, in a protocol that closes, every
\* block it opened once, and the message once and last of all, whether the
\* upstream finished, sent its usage later or just hung up.
ClosedOnce ==
    phase = "complete" /\ client # "chat" /\ got # <<>> =>
        /\ got[Len(got)].type \in Last
        /\ \A n \in DOMAIN got : got[n].type \in Last => n = Len(got)
        /\ \A n \in DOMAIN got : got[n].type = "start" =>
              \E k \in DOMAIN got : /\ got[k] = Stop(got[n].index)
                                    /\ \A j \in DOMAIN got : got[j] = got[k] => j = k
=============================================================================
