------------------------- MODULE ResponsesContract -------------------------
(***************************************************************************)
(* What a client of the Responses event stream relies on, whatever the     *)
(* upstream sends: a function call is announced before anything is said of *)
(* it, its arguments arrive in pieces that add up to the arguments stated  *)
(* when they are done, the call is closed once and after that, and the     *)
(* response completes after every call it announced was closed, once and   *)
(* with nothing following.  A stream may fail at any time before.          *)
(***************************************************************************)
EXTENDS Naturals, Sequences

CONSTANTS
    Index,    \* output indexes of calls
    Text      \* texts: sequences of pieces

VARIABLES
    item,     \* how far each call has come
    args,     \* its arguments as received so far
    text,     \* the text received so far
    outcome   \* how the stream stands

vars == <<item, args, text, outcome>>

Stages == {"none", "announced", "stated", "closed"}

Init ==
    /\ item = [i \in Index |-> "none"]
    /\ args = [i \in Index |-> <<>>]
    /\ text = <<>>
    /\ outcome = "open"

Say ==
    /\ outcome = "open"
    /\ \E piece \in Text : text' = text \o piece
    /\ UNCHANGED <<item, args, outcome>>

Announce(i) ==
    /\ outcome = "open"
    /\ item[i] = "none"
    /\ item' = [item EXCEPT ![i] = "announced"]
    /\ UNCHANGED <<args, text, outcome>>

Extend(i) ==
    /\ outcome = "open"
    /\ item[i] = "announced"
    /\ \E piece \in Text : args' = [args EXCEPT ![i] = @ \o piece]
    /\ UNCHANGED <<item, text, outcome>>

\* The arguments stated are the ones received.
State(i) ==
    /\ outcome = "open"
    /\ item[i] = "announced"
    /\ item' = [item EXCEPT ![i] = "stated"]
    /\ UNCHANGED <<args, text, outcome>>

Close(i) ==
    /\ outcome = "open"
    /\ item[i] = "stated"
    /\ item' = [item EXCEPT ![i] = "closed"]
    /\ UNCHANGED <<args, text, outcome>>

\* The response lists the text and the calls the client was given.
Complete ==
    /\ outcome = "open"
    /\ \A i \in Index : item[i] \in {"none", "closed"}
    /\ outcome' = "completed"
    /\ UNCHANGED <<item, args, text>>

Fail ==
    /\ outcome = "open"
    /\ outcome' = "failed"
    /\ UNCHANGED <<item, args, text>>

Next ==
    \/ \E i \in Index : Announce(i) \/ Extend(i) \/ State(i) \/ Close(i)
    \/ Say
    \/ Complete
    \/ Fail

Spec == Init /\ [][Next]_vars

=============================================================================
