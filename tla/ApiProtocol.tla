---------------------------- MODULE ApiProtocol ----------------------------
(***************************************************************************)
(* What the API of the WebSocket server promises its clients               *)
(* (websocket_server/README.md, "API"), abstractly: messages are dealt     *)
(* with one at a time in the order of arrival, "start" and "end" have one  *)
(* response each, "chunk" has none but may bring a result, an "end" may    *)
(* bring a last result before its response, a "start" without its data     *)
(* (lines 45-47) and an action the API does not know have a response with  *)
(* status 1, and what is said comes in the order of what it answers.  What *)
(* is no message of the API at all may be refused or ignored.              *)
(*                                                                         *)
(* A connection can break, as one can over any network, but only over a    *)
(* message that is being dealt with or when its client leaves, and without *)
(* a part of an answer; or the server stops, and all of them are over.     *)
(* That a request that fails has a result with status 1 (line 82) is more  *)
(* than this module says: such a connection may break.                     *)
(***************************************************************************)
EXTENDS Sequences

CONSTANTS
  Connections,   \* the connections clients make, one after the other or not
  Actions        \* the kinds of messages sent to the server

VARIABLES
  link,   \* of each connection: "off", "open", "closing" (by the client), "closed"
  todo,   \* the messages not dealt with
  said    \* what the client has been sent

vars == <<link, todo, said>>

\* The sequences of answers to a message.
Answers(action) ==
  CASE action = "chunk" -> {<< >>, <<"result 0">>, <<"result 1">>}
    [] action = "start" -> {<<"response 0">>}
    [] action = "end"   -> {<<"response 0">>, <<"result 0", "response 0">>}
    [] action \in {"startNoData", "unknown"} -> {<<"response 1">>}
    [] OTHER            -> {<<"response 1">>, << >>}

Init ==
  /\ link = [c \in Connections |-> "off"]
  /\ todo = [c \in Connections |-> << >>]
  /\ said = [c \in Connections |-> << >>]

Connect(c) ==
  /\ link[c] = "off"
  /\ link' = [link EXCEPT ![c] = "open"]
  /\ UNCHANGED <<todo, said>>

Ask(c) ==
  /\ link[c] = "open"
  /\ \E a \in Actions : todo' = [todo EXCEPT ![c] = Append(@, a)]
  /\ UNCHANGED <<link, said>>

Answer(c) ==
  /\ link[c] = "open" /\ todo[c] # << >>
  /\ \E answers \in Answers(Head(todo[c])) :
       said' = [said EXCEPT ![c] = @ \o answers]
  /\ todo' = [todo EXCEPT ![c] = Tail(@)]
  /\ UNCHANGED link

Leave(c) ==
  /\ link[c] = "open"
  /\ link' = [link EXCEPT ![c] = "closing"]
  /\ UNCHANGED <<todo, said>>

\* A message of a client that has left is dealt with in silence.
Ignore(c) ==
  /\ link[c] = "closing" /\ todo[c] # << >>
  /\ todo' = [todo EXCEPT ![c] = Tail(@)]
  /\ UNCHANGED <<link, said>>

\* A connection breaks over the message in hand, or ends when its client has left.
Break(c) ==
  /\ link[c] = "closing" \/ (link[c] = "open" /\ todo[c] # << >>)
  /\ link' = [link EXCEPT ![c] = "closed"]
  /\ todo' = [todo EXCEPT ![c] = << >>]
  /\ UNCHANGED said

\* The server stops.
Stop ==
  /\ link' = [c \in Connections |-> "closed"]
  /\ todo' = [c \in Connections |-> << >>]
  /\ UNCHANGED said

Next == Stop \/ \E c \in Connections :
                  Connect(c) \/ Ask(c) \/ Answer(c) \/ Leave(c) \/ Ignore(c) \/ Break(c)

Spec == Init /\ [][Next]_vars
=============================================================================
