------------------------------ MODULE Upstream ------------------------------
(***************************************************************************)
(* The Pi0.5 backends that forward each inference to another server:       *)
(* models/pi05/remote.py (a WebSocket that begins with a hello), tcp.py    *)
(* (length-prefixed frames) and cpp.py (a ZeroMQ REQ socket).  _lock       *)
(* admits one call at a time.  None of them compares the id of an answer   *)
(* with the question, so all rests on what a call leaves on its link.      *)
(***************************************************************************)
EXTENDS Naturals, Sequences

CONSTANTS MaxInfers, None    \* bound on the calls; "no link, no call"

VARIABLES
    kind,                    \* "websocket", "tcp" or "zmq"
    persistent,              \* tcp.py's persistent_connection
    link,                    \* _connection or _sock, or None
    infer,                   \* the call that holds _lock: its number and where it is, or None
    infers,                  \* how many calls were made
    seq,                     \* _seq or _step, which reset() rewinds
    answer                   \* history: which call was answered last, and with whose actions

UpstreamInit ==
    /\ kind \in {"websocket", "tcp", "zmq"}
    /\ persistent \in IF kind = "tcp" THEN BOOLEAN ELSE {TRUE}
    /\ link = None
    /\ infer = None
    /\ infers = 0
    /\ seq = 0
    /\ answer = None

At(pc) == infer # None /\ infer.pc = pc
Goto(pc) == infer' = [infer EXCEPT !.pc = pc]

\* validate_request() refuses before the lock is taken: nothing is left behind.
Begin ==
    /\ infer = None /\ infers < MaxInfers
    /\ infers' = infers + 1
    /\ infer' = [id |-> infers + 1, pc |-> "connect"]
    /\ seq' = IF kind = "websocket" THEN seq ELSE seq + 1
    /\ UNCHANGED <<kind, persistent, link, answer>>

\* The call ends and leaves l behind.
EndWith(l) ==
    /\ infer' = None
    /\ link' = IF persistent THEN l ELSE None
    /\ UNCHANGED <<kind, persistent, infers, seq>>

Raise(l) == EndWith(l) /\ UNCHANGED answer

-----------------------------------------------------------------------------
(* _ensure_connected(), _connect(), _ensure() *)

Message(type, id) == [type |-> type, id |-> id]

\* unread holds what is on its way back; greeted, whether the hello was read; awaiting,
\* whether a REQ socket has yet to receive.
NewLink ==
    [up |-> TRUE, out |-> <<>>, unread |-> IF kind = "websocket" THEN <<Message("hello", 0)>> ELSE <<>>,
     greeted |-> kind # "websocket", awaiting |-> FALSE]

\* A ZeroMQ socket connects in the background and never fails to.
ConnectFails ==
    /\ At("connect") /\ link = None /\ kind # "zmq"
    /\ Raise(None)

Connect ==
    /\ At("connect")
    /\ link' = IF link = None THEN NewLink ELSE link
    /\ Goto(IF link = None /\ kind = "websocket" THEN "hello" ELSE "send")
    /\ UNCHANGED <<kind, persistent, infers, seq, answer>>

Greeted == [link EXCEPT !.unread = Tail(@), !.greeted = TRUE]

\* remote.py reads the hello outside the try of _request(): when it does not come in
\* time the connection stays.
HelloFails ==
    /\ At("hello")
    /\ Raise(link)

\* So it does when what comes is not a map.
HelloRefused ==
    /\ At("hello") /\ link.unread # <<>>
    /\ Raise(Greeted)

ReceiveHello ==
    /\ At("hello") /\ link.unread # <<>>
    /\ link' = Greeted
    /\ Goto("send")
    /\ UNCHANGED <<kind, persistent, infers, seq, answer>>

-----------------------------------------------------------------------------
(* _request(), and the rest of infer() *)

\* Mutant of AfterFailure: tcp.py keeps its socket like cpp.py does.
KeptAfterFailure(l) == IF kind = "websocket" THEN None ELSE l

\* The except clauses of remote.py and tcp.py close; cpp.py has none.
AfterFailure(l) == IF kind = "zmq" THEN l ELSE None

\* cpp.py can fail before it sends: it requires tokens and has no tokenizer.
NoTokens ==
    /\ At("send") /\ kind = "zmq"
    /\ Raise(link)

\* A REQ socket that has not received refuses to send; the others find the peer gone.
SendFails ==
    /\ At("send")
    /\ IF kind = "zmq" THEN link.awaiting ELSE ~ link.up
    /\ Raise(AfterFailure(link))

Send ==
    /\ At("send") /\ ~ link.awaiting
    /\ link.up \/ kind = "zmq"
    /\ link' = [link EXCEPT !.out = Append(@, infer.id), !.awaiting = (kind = "zmq")]
    /\ Goto("recv")
    /\ UNCHANGED <<kind, persistent, infers, seq, answer>>

RecvFails ==
    /\ At("recv")
    /\ Raise(AfterFailure(link))

Received == [link EXCEPT !.unread = Tail(@), !.awaiting = FALSE]

\* An error, or a map without actions such as a hello: infer() raises, and the link stays.
RecvError ==
    /\ At("recv") /\ link.unread # <<>> /\ Head(link.unread).type # "actions"
    /\ Raise(Received)

RecvActions ==
    /\ At("recv") /\ link.unread # <<>> /\ Head(link.unread).type = "actions"
    /\ EndWith(Received)
    /\ answer' = [asked |-> infer.id, got |-> Head(link.unread).id, greeted |-> link.greeted]

reset ==
    /\ infers > 0 /\ seq # 0
    /\ seq' = 0
    /\ UNCHANGED <<kind, persistent, link, infer, infers, answer>>

close ==
    /\ infer = None /\ link # None
    /\ link' = None
    /\ UNCHANGED <<kind, persistent, infer, infers, seq, answer>>

-----------------------------------------------------------------------------
(* the other end *)

Answer ==
    /\ link # None /\ link.up /\ link.out # <<>>
    /\ \E type \in {"actions", "error"} :
          link' = [link EXCEPT !.out = Tail(@), !.unread = Append(@, Message(type, Head(link.out)))]
    /\ UNCHANGED <<kind, persistent, infer, infers, seq, answer>>

\* The connection is lost with what was on its way; ZeroMQ makes a new one by itself.
Lose ==
    /\ link # None /\ link.up
    /\ link' = [link EXCEPT !.up = (kind = "zmq"), !.out = <<>>, !.unread = <<>>]
    /\ UNCHANGED <<kind, persistent, infer, infers, seq, answer>>

UpstreamNext ==
    \/ Begin \/ ConnectFails \/ Connect \/ ReceiveHello
    \/ HelloFails \/ HelloRefused
    \/ NoTokens \/ SendFails \/ Send \/ RecvFails \/ RecvError \/ RecvActions
    \/ reset \/ close \/ Answer \/ Lose

upstream == <<kind, persistent, link, infer, infers, seq, answer>>
UpstreamSpec == UpstreamInit /\ [][UpstreamNext]_upstream

\* infer() returns the actions that were computed from its own observation, after
\* whatever timeouts, lost connections, errors and rewound counters; the one exception
\* is remote.py on a connection whose hello it gave up on, where answers can be those to
\* an earlier question.
OwnAnswer ==
    answer # None => \/ answer.got = answer.asked
                     \/ kind = "websocket" /\ ~ answer.greeted
=============================================================================
