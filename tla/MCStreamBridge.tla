--------------------------- MODULE MCStreamBridge ---------------------------
(* Small instances of StreamBridge for TLC: documents, and chunks of them.   *)
EXTENDS StreamBridge, SequencesExt

a == <<"a">>
b == <<"b">>
MCTexts == {<<>>, a, b}

Numbers == [NoUsage EXCEPT !.input = 1, !.output = 2, !.cache_read = 9]

NoChoice == [content |-> None, refusal |-> None, reasoning |-> None, tools |-> <<>>,
             finish |-> None]
Chat(choice, usage) == [json |-> "chat", choice |-> choice, usage |-> usage]
Tool(i, id, name, arguments) ==
    [index |-> i, id |-> id, name |-> name, arguments |-> arguments]
Call(t) == Chat([NoChoice EXCEPT !.tools = t], None)

Spoken == Chat([NoChoice EXCEPT !.content = a, !.finish = ""], NoUsage)

\* Ids and names that come once, come empty or change; a call without an index.
ChatDocuments ==
    {Done,
     Spoken,
     Chat([NoChoice EXCEPT !.refusal = b, !.reasoning = a, !.finish = "length"], None),
     Call(<<Tool(0, a, a, None), Tool(1, b, b, a)>>),
     Call(<<Tool(0, None, None, b), Tool(None, None, None, a)>>),
     Call(<<Tool(1, <<>>, <<>>, b)>>),
     Chat(None, Numbers)}

NoResponse == [json |-> "responses", response_id |-> None, output |-> None, delta |-> None,
               call |-> FALSE, index |-> 0, id |-> None, name |-> None,
               arguments |-> None, usage |-> None]

ResponsesEvents ==
    {<<"response.output_text.delta", [NoResponse EXCEPT !.delta = a]>>,
     <<"response.output_text.delta", NoJson>>,
     <<"response.reasoning_text.delta", [NoResponse EXCEPT !.delta = b]>>,
     <<"response.output_item.added", [NoResponse EXCEPT !.call = TRUE, !.id = a, !.name = a,
                                                        !.arguments = <<>>]>>,
     <<"response.output_item.added", NoResponse>>,
     <<"response.function_call_arguments.delta", [NoResponse EXCEPT !.id = a, !.delta = b]>>,
     <<"response.function_call_arguments.done", [NoResponse EXCEPT !.id = a, !.arguments = b]>>,
     <<"response.output_item.done", [NoResponse EXCEPT !.call = TRUE, !.index = 1, !.id = a]>>,
     <<"response.output_item.done", [NoResponse EXCEPT !.call = TRUE, !.id = a, !.name = b]>>,
     <<"response.completed", [NoResponse EXCEPT !.response_id = "r", !.output = <<"o">>,
                                                !.usage = Numbers]>>}

Chunk(rest, lines, open) == [rest |-> rest, lines |-> lines, open |-> open]
Open(l, cut) == [l |-> l, cut |-> cut]

\* Whole events; events in two chunks, cut inside a line, before its end, or
\* between two lines; two events in one chunk; events no blank line parts.
ChunksOf(Whole, lasts) ==
    {Chunk(FALSE, w, NoCut) : w \in Whole}
        \cup {Chunk(FALSE, <<Other>> \o Front(w), NoCut) : w \in lasts}
        \cup {Chunk(FALSE, Front(Front(w)), Open(Last(Front(w)), cut)) :
                    w \in lasts, cut \in BOOLEAN}
        \cup {Chunk(FALSE, <<Blank>>, NoCut), Chunk(TRUE, <<Blank>>, NoCut),
              Chunk(TRUE, <<>>, NoCut)}

MCChunks(k) ==
    IF k = "responses"
    THEN LET whole == {<<Event(e[1]), Data(e[2]), Blank>> : e \in ResponsesEvents}
         IN  ChunksOf(whole, {w \in whole : w[1].n \in {"response.output_text.delta",
                                                       "response.completed"}})
    ELSE LET whole == {<<Data(d), Blank>> : d \in ChatDocuments}
         IN  ChunksOf(whole, {w \in whole : w[1].d \in {Done,
                                Spoken}})

=============================================================================
