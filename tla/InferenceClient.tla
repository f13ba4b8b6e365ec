-------------------------- MODULE InferenceClient ---------------------------
(***************************************************************************)
(* The reconnecting WebSocket client (client.py) against a server that     *)
(* sends hello and then answers each message of a connection once and in   *)
(* order (the loop of server.py's handler).  The lock admits one call at a *)
(* time.  A recv that times out leaves its answer on the way; only infer   *)
(* closes the connection then, and only infer's answers carry an id.       *)
(***************************************************************************)
EXTENDS Naturals, Sequences

CONSTANTS MaxCalls, None     \* bound on the calls; "no connection, no call"

Questions == [type : {"infer", "reset", "health"}, id : Nat]
Answers == [type : {"hello", "action", "reset_ok", "health", "error"}, id : Nat]
Connections == [state : {"open", "broken", "failed"}, out : Seq(Questions), back : Seq(Answers)]
Operations == {"infer", "reset", "health", "metadata"}
Calls == [op : Operations, id : Nat, pc : {"connect", "hello", "send", "recv"}]

ASSUME ClientAssumption ==
    /\ MaxCalls \in Nat \ {0}
    /\ None \notin Connections \cup Calls

VARIABLES
    connection,              \* _connection: its state, messages on the way out and back, or None
    call,                    \* the call that holds _lock: its operation, id and pc, or None
    calls                    \* how many calls were made: the model numbers all of them, where
                             \* _next_request_id numbers the calls of infer

vars == <<connection, call, calls>>

Init ==
    /\ connection = None
    /\ call = None
    /\ calls = 0

\* The answer types that the operation's caller accepts.
Expected == [infer |-> "action", reset |-> "reset_ok", health |-> "health"]

-----------------------------------------------------------------------------

NextId == calls + 1

Begin(op) ==
    /\ call = None /\ calls < MaxCalls
    /\ calls' = calls + 1
    /\ call' = [op |-> op, id |-> NextId, pc |-> "connect"]
    /\ UNCHANGED connection

\* make_infer_request refuses the caller's input before the try: the id is spent,
\* the connection is not touched.
RefuseInput ==
    /\ call = None /\ calls < MaxCalls
    /\ calls' = calls + 1
    /\ UNCHANGED <<connection, call>>

\* Mutant of AfterFailure: infer keeps the connection like reset and health do.
KeptAfterFailure(c) == c

\* infer's except clause closes the connection; the other operations just raise.
AfterFailure(c) == IF call.op = "infer" THEN None ELSE c

\* The call ends, with a value or an exception, and releases the lock.
End(c) ==
    /\ connection' = c
    /\ call' = None
    /\ UNCHANGED calls

Raise(c) == End(AfterFailure(c))
Running(pc) == call # None /\ call.pc = pc
Goto(pc) == call' = [call EXCEPT !.pc = pc]

\* Nothing arrives in time: what was asked for may still be on its way.
TimesOut ==
    /\ Running("hello") \/ Running("recv")
    /\ Raise(connection)

\* send or recv finds that the peer is gone.
Fails ==
    /\ Running("hello") \/ Running("send") \/ Running("recv")
    /\ connection.state # "open"
    /\ Raise([connection EXCEPT !.state = "failed"])

-----------------------------------------------------------------------------
(* _ensure_connected_locked() *)

\* Once connected, metadata returns what hello said; the others go on to send.
Proceed(c) ==
    \/ call.op = "metadata" /\ End(c)
    \/ call.op # "metadata" /\ connection' = c /\ Goto("send") /\ UNCHANGED calls

Connected ==
    /\ Running("connect") /\ connection # None
    /\ Proceed(connection)

ConnectFails ==
    /\ Running("connect") /\ connection = None
    /\ Raise(None)

Hello == [type |-> "hello", id |-> 0]

\* The connection is stored before hello is read.
Connect ==
    /\ Running("connect") /\ connection = None
    /\ connection' = [state |-> "open", out |-> <<>>, back |-> <<Hello>>]
    /\ Goto("hello")
    /\ UNCHANGED calls

ReceiveHello ==
    /\ Running("hello")
    /\ Proceed([connection EXCEPT !.back = Tail(@)])

\* The peer speaks, but not this protocol.
RefuseHello ==
    /\ Running("hello")
    /\ Raise(None)

-----------------------------------------------------------------------------
(* the rest of infer(), reset() and health(), and close() *)

Send ==
    /\ Running("send") /\ connection.state = "open"
    /\ connection' = [connection EXCEPT !.out = Append(@, [type |-> call.op, id |-> call.id])]
    /\ Goto("recv")
    /\ UNCHANGED calls

\* The next answer has the expected type, or the caller raises.  infer compares the
\* ids only after its try: a mismatch raises as well, but keeps the connection.
Recv ==
    /\ Running("recv") /\ connection.back # <<>>
    /\ LET rest == [connection EXCEPT !.back = Tail(@)]
       IN \/ Head(connection.back).type # Expected[call.op] /\ Raise(rest)
          \/ Head(connection.back).type = Expected[call.op] /\ End(rest)

close ==
    /\ call = None /\ connection # None
    /\ connection' = None
    /\ UNCHANGED <<call, calls>>

-----------------------------------------------------------------------------

\* The server's handler: one answer for each message.  Only action and error
\* answers carry the id on the wire; the others keep theirs as history.
Serve ==
    /\ connection # None /\ connection.state = "open" /\ connection.out # <<>>
    /\ LET m == Head(connection.out)
       IN \E type \in {Expected[m.type], "error"} :
             connection' = [connection EXCEPT !.out = Tail(@),
                                              !.back = Append(@, [type |-> type, id |-> m.id])]
    /\ UNCHANGED <<call, calls>>

Break ==
    /\ connection # None /\ connection.state = "open"
    /\ connection' = [connection EXCEPT !.state = "broken", !.out = <<>>]
    /\ UNCHANGED <<call, calls>>

Next ==
    \/ (\E op \in Operations : Begin(op)) \/ RefuseInput
    \/ TimesOut \/ Fails \/ Connected \/ ConnectFails \/ Connect \/ ReceiveHello \/ RefuseHello
    \/ Send \/ Recv \/ close \/ Serve \/ Break

Spec == Init /\ [][Next]_vars

-----------------------------------------------------------------------------

InFlight ==
    IF connection = None THEN {}
    ELSE {connection.out[i] : i \in 1..Len(connection.out)}
            \cup {connection.back[i] : i \in 1..Len(connection.back)}

\* No action chunk of an abandoned request is ever on the way: whatever timed out
\* before, the only inference on a connection is the one the current call waits for,
\* so an old chunk cannot be taken for a new one.
NoStaleAction ==
    \A m \in InFlight : m.type \in {"infer", "action"} =>
        call # None /\ call.op = "infer" /\ call.id = m.id

\* "Synchronous reconnecting WebSocket client": a connection that a call has found
\* broken is not kept for the next call.
BrokenIsDropped == call = None /\ connection # None => connection.state # "failed"
=============================================================================
