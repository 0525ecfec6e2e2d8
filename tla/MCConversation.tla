--------------------------- MODULE MCConversation ---------------------------
(***************************************************************************)
(* Two questions.  ChainShapes: three requests of two identities, without  *)
(* faults and with the clock standing still, and images of one, two and    *)
(* three bytes against a budget of two bytes with one image always kept:   *)
(* in three turns images are kept, dropped, dropped again and refused.     *)
(* EveryShape: two requests of most kinds, a clock of two seconds with     *)
(* states good for one, two crashes or failing statements at any place, and*)
(* rows of an older version at the start; one answer of each upstream is   *)
(* enough there.                                                           *)
(***************************************************************************)
EXTENDS Conversation

Text == [kind |-> "text", bytes |-> 0]
Image(n) == [kind |-> "image", bytes |-> n]
NoHeader == [thread |-> "-", session |-> "-"]

Plain == [api |-> "responses", model |-> TRUE, conversation |-> FALSE, who |-> "alice", header |-> NoHeader,
          input |-> <<Text>>, instructions |-> FALSE, reasoning |-> FALSE, 
          store |-> "absent", stream |-> "absent", attempts |-> <<"native">>]

\* Chains of three turns.
ChainShapes ==
    { [Plain EXCEPT !.input = <<Image(1), Image(1)>>],
      [Plain EXCEPT !.input = <<Image(2)>>, !.attempts = <<"native", "chat">>, !.stream = "true"],
      [Plain EXCEPT !.attempts = <<"chat", "native">>, !.instructions = TRUE],
      [Plain EXCEPT !.input = <<Image(3)>>, !.store = "false", !.who = "bob"],
      [Plain EXCEPT !.api = "chat", !.stream = "true", !.header.session = "s"],
      [Plain EXCEPT !.conversation = TRUE] }

\* Every handler, under faults and with the clock running.
EveryShape ==
    { [Plain EXCEPT !.attempts = <<"native", "chat">>, !.header.session = "../"],
      [Plain EXCEPT !.attempts = <<"chat">>, !.stream = "true"],
      [Plain EXCEPT !.api = "chat", !.header.thread = "t"],
      [Plain EXCEPT !.api = "images", !.stream = "true"],
      [Plain EXCEPT !.api = "images"] }

NoRows == <<>>
MCLegacyRows == <<[input |-> 0, output |-> 0, request |-> -1],
                  [input |-> 1, output |-> 0, request |-> 0]>>
MCNativeReplies == {[array |-> TRUE, output |-> <<"text">>],
                    [array |-> TRUE, output |-> <<"reasoning", "text">>],
                    [array |-> FALSE, output |-> <<>>]}
MCChatReplies == {[choices |-> "message", text |-> TRUE, calls |-> 1],
                  [choices |-> "message", text |-> FALSE, calls |-> 0],
                  [choices |-> "empty", text |-> FALSE, calls |-> 0],
                  [choices |-> "invalid", text |-> FALSE, calls |-> 0]}
OneNativeReply == {[array |-> TRUE, output |-> <<"reasoning", "text">>],
                   [array |-> FALSE, output |-> <<>>]}
OneChatReply == {[choices |-> "message", text |-> TRUE, calls |-> 1],
                 [choices |-> "invalid", text |-> FALSE, calls |-> 0]}
=============================================================================
