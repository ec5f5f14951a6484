--------------------------- MODULE MessageChannel ---------------------------
(***************************************************************************)
(* What OSMessageQueue promises its callers: a bounded channel.  A call is *)
(* made, and at some later moment takes effect all at once: a message is   *)
(* put behind the others or in front of them, or the first one is taken,   *)
(* or the call fails because there is no room or no message.  How callers  *)
(* wait, and in which order they are served, is left open.                 *)
(***************************************************************************)
EXTENDS Integers, Sequences

CONSTANTS
    Thread,     \* the guest threads that use the queue
    Message,    \* OSMessage values
    Capacity,   \* msgCount
    None

VARIABLES
    channel,    \* the messages in the order in which they are received
    call,       \* the call that a thread has made and that has no effect yet
    got         \* what the last call of a thread has returned

vars == <<channel, call, got>>

NoCall == [op |-> "none", msg |-> None, block |-> FALSE]
Sends    == [op : {"send", "sendFront"}, msg : Message, block : BOOLEAN]
Receives == [op : {"receive"}, msg : {None}, block : BOOLEAN]
Peeks    == [op : {"peek"}, msg : {None}, block : {FALSE}]
Requests == Sends \union Receives \union Peeks

\* "no" is a call that failed, "done" one that returned without a message.
Results == Message \union {"no", "done"}

Call(t) ==
    /\ call[t] = NoCall
    /\ \E request \in Requests : call' = [call EXCEPT ![t] = request]
    /\ got' = [got EXCEPT ![t] = "no"]
    /\ UNCHANGED channel

Returns(t, result) ==
    /\ call' = [call EXCEPT ![t] = NoCall]
    /\ got' = [got EXCEPT ![t] = result]

Send(t) ==
    /\ Len(channel) < Capacity
    /\ \/ call[t].op = "send" /\ channel' = Append(channel, call[t].msg)
       \/ call[t].op = "sendFront" /\ channel' = <<call[t].msg>> \o channel
    /\ Returns(t, "done")

Receive(t) ==
    /\ call[t].op = "receive" /\ channel # <<>>
    /\ channel' = Tail(channel)
    /\ Returns(t, Head(channel))

Peek(t) ==
    /\ call[t].op = "peek" /\ channel # <<>>
    /\ Returns(t, Head(channel))
    /\ UNCHANGED channel

\* Only a call that does not block fails, and only when it has to.
Fail(t) ==
    /\ ~call[t].block
    /\ \/ call[t].op \in {"send", "sendFront"} /\ Len(channel) = Capacity
       \/ call[t].op \in {"receive", "peek"} /\ channel = <<>>
    /\ Returns(t, "no")
    /\ UNCHANGED channel

Init ==
    /\ channel = <<>>
    /\ call = [t \in Thread |-> NoCall]
    /\ got = [t \in Thread |-> "no"]

Next == \E t \in Thread : Call(t) \/ Send(t) \/ Receive(t) \/ Peek(t) \/ Fail(t)

Spec == Init /\ [][Next]_vars
=============================================================================
