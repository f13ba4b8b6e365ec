--------------------------- MODULE EpisodeProofs ----------------------------
(***************************************************************************)
(* For any number of calls, episodes and steps: the client never leaves an *)
(* inference behind on its connection; so the actions of an episode were   *)
(* computed in it, and it stops in time.  For every robot whose named      *)
(* fields tile its vector: the joints that the model controls go where the *)
(* chunk of the episode says, the others stay.                             *)
(***************************************************************************)
EXTENDS Episode, TLAPS

\* Zenon by default, with time for a busy machine; a leaf that needs arithmetic cites SMTT.
USE ZenonT(60)

-----------------------------------------------------------------------------
(* Sequences *)

\* Each element of a sequence over S is one of S.
LEMMA SeqElement ==
    ASSUME NEW S, NEW s \in Seq(S), NEW i \in 1..Len(s)
    PROVE  s[i] \in S
BY SMTT(30)

\* A sequence is a function on 1..Len(s).
LEMMA SeqLen ==
    ASSUME NEW S, NEW s \in Seq(S)
    PROVE  Len(s) \in Nat /\ s \in [1..Len(s) -> S] /\ DOMAIN s = 1..Len(s)
BY SMTT(30)

\* Only the empty sequence has no element.
LEMMA SeqEmpty ==
    ASSUME NEW S
    PROVE  /\ <<>> \in Seq(S) /\ Len(<<>>) = 0
           /\ \A s \in Seq(S) : s # <<>> => Len(s) \in Nat \ {0}
BY SMTT(30)

\* Taking the head off a sequence that has one shifts the rest.
LEMMA SeqHeadTail ==
    ASSUME NEW S, NEW s \in Seq(S), s # <<>>
    PROVE  /\ Head(s) \in S /\ Tail(s) \in Seq(S) /\ Len(Tail(s)) = Len(s) - 1
           /\ \A i \in 1..Len(Tail(s)) : Tail(s)[i] = s[i + 1]
BY SMTT(30)

\* Append adds one element at the end and moves none.
LEMMA SeqAppend ==
    ASSUME NEW S, NEW s \in Seq(S), NEW e \in S
    PROVE  /\ Append(s, e) \in Seq(S) /\ Append(s, e) # <<>> /\ Len(Append(s, e)) = Len(s) + 1
           /\ \A i \in 1..Len(s) : Append(s, e)[i] = s[i]
           /\ Append(s, e)[Len(s) + 1] = e
BY SMTT(30)

\* The sequences over a set are the functions from an initial segment to it.
LEMMA SeqIs == \A S : Seq(S) = UNION {[1..n -> S] : n \in Nat}
BY SMTT(30)

TypeOK ==
    /\ connection \in Connections \cup {None}
    /\ call \in Calls \cup {None}
    /\ calls \in Nat

\* A call that has connected has a connection, on which hello is unread at first, and only
\* metadata stops there.
Placed ==
    call # None => /\ call.pc # "connect" => connection # None
                   /\ call.pc = "hello" => connection.back # <<>>
                   /\ call.pc \in {"send", "recv"} => call.op # "metadata"

\* The places of the inferences among the messages of s.
Inferences(s) == {i \in 1..Len(s) : s[i].type \in {"infer", "action"}}

Waiting(id) == call # None /\ call.op = "infer" /\ call.pc = "recv" /\ call.id = id

AtMostOne(S) == \A i, j \in S : i = j

\* There is at most one inference on the connection, on its way out or back, and only
\* while the call that sent it waits for it.
OneInference(c) ==
    /\ AtMostOne(Inferences(c.out)) /\ AtMostOne(Inferences(c.back))
    /\ Inferences(c.out) = {} \/ Inferences(c.back) = {}
    /\ \A i \in Inferences(c.out) : Waiting(c.out[i].id)
    /\ \A i \in Inferences(c.back) : Waiting(c.back[i].id)

Quiet(c) == Inferences(c.out) = {} /\ Inferences(c.back) = {}

ClientInv == TypeOK /\ Placed /\ (connection # None => OneInference(connection))

-----------------------------------------------------------------------------
(* What reading and writing do to the places of the inferences *)

\* Reading the first message moves every other inference up by one.
LEMMA InferencesTail ==
    ASSUME NEW S, NEW s \in Seq(S), s # <<>>
    PROVE  /\ Tail(s) \in Seq(S)
           /\ \A i \in Inferences(Tail(s)) : i + 1 \in Inferences(s) /\ Tail(s)[i] = s[i + 1]
           /\ \A i \in Inferences(Tail(s)) : i \in Nat \ {0}
           /\ s[1].type \in {"infer", "action"} => 1 \in Inferences(s)
<1>1. /\ Tail(s) \in Seq(S) /\ Len(s) \in Nat \ {0} /\ Len(Tail(s)) = Len(s) - 1
      /\ \A i \in 1..Len(Tail(s)) : Tail(s)[i] = s[i + 1]
  BY SeqHeadTail, SeqEmpty
<1>2. \A i \in 1..Len(Tail(s)) : i + 1 \in 1..Len(s) /\ i \in Nat \ {0}
  BY <1>1, SMTT(30)
<1>3. 1 \in 1..Len(s)
  BY <1>1, SMTT(30)
<1> QED BY <1>1, <1>2, <1>3 DEF Inferences

\* Writing adds at most the last place, when the message is an inference.
LEMMA InferencesAppend ==
    ASSUME NEW S, NEW s \in Seq(S), NEW m \in S
    PROVE  /\ Append(s, m) \in Seq(S)
           /\ \A i \in Inferences(Append(s, m)) :
                 \/ i \in Inferences(s) /\ Append(s, m)[i] = s[i]
                 \/ i = Len(s) + 1 /\ m.type \in {"infer", "action"} /\ Append(s, m)[i] = m
<1>1. /\ Append(s, m) \in Seq(S) /\ Len(s) \in Nat /\ Len(Append(s, m)) = Len(s) + 1
      /\ \A i \in 1..Len(s) : Append(s, m)[i] = s[i]
      /\ Append(s, m)[Len(s) + 1] = m
  BY SeqAppend, SeqLen, SMTT(30)
<1>2. 1..(Len(s) + 1) = (1..Len(s)) \cup {Len(s) + 1}
  BY <1>1, SMTT(30)
<1>3. Len(s) + 1 \notin 1..Len(s)
  BY <1>1, SMTT(30)
<1> QED BY <1>1, <1>2, <1>3 DEF Inferences

\* Once the only inference has been read, none is left.
LEMMA LastInferenceRead ==
    ASSUME NEW S, NEW s \in Seq(S), s # <<>>, AtMostOne(Inferences(s)),
           Inferences(s) = {} \/ 1 \in Inferences(s)
    PROVE  Inferences(Tail(s)) = {}
<1> SUFFICES ASSUME NEW i \in Inferences(Tail(s)) PROVE FALSE
  OBVIOUS
<1>1. i + 1 \in Inferences(s) /\ i \in Nat \ {0}
  BY InferencesTail
<1>2. i + 1 = 1
  BY <1>1 DEF AtMostOne
<1> QED BY <1>1, <1>2, SMTT(30)

-----------------------------------------------------------------------------
(* The inductive invariant *)

\* While no inference waits, there is none on the connection.
LEMMA QuietUnlessWaiting ==
    ASSUME ClientInv, connection # None, \A id \in Nat : ~ Waiting(id)
    PROVE  Quiet(connection)
<1>1. connection \in Connections /\ OneInference(connection)
  BY DEF ClientInv, TypeOK
<1>2. ASSUME NEW i \in Inferences(connection.out) PROVE FALSE
  <2>1. connection.out \in Seq(Questions) /\ i \in 1..Len(connection.out)
    BY <1>1, <1>2 DEF Connections, Inferences
  <2>2. connection.out[i] \in Questions
    BY <2>1, SeqElement
  <2>3. connection.out[i].id \in Nat
    BY <2>2 DEF Questions
  <2> QED BY <1>1, <2>3 DEF OneInference
<1>3. ASSUME NEW i \in Inferences(connection.back) PROVE FALSE
  <2>1. connection.back \in Seq(Answers) /\ i \in 1..Len(connection.back)
    BY <1>1, <1>3 DEF Connections, Inferences
  <2>2. connection.back[i] \in Answers
    BY <2>1, SeqElement
  <2>3. connection.back[i].id \in Nat
    BY <2>2 DEF Answers
  <2> QED BY <1>1, <2>3 DEF OneInference
<1> QED BY <1>2, <1>3 DEF Quiet

\* A connection without inferences needs nobody to wait.
LEMMA QuietIsEnough ==
    ASSUME NEW c, Quiet(c), connection' = c
    PROVE  OneInference(connection)'
BY DEF OneInference, Quiet, AtMostOne

\* A call that ends leaves no connection, or one without inferences.
LEMMA EndInv ==
    ASSUME ClientInv, NEW c \in Connections \cup {None}, c # None => Quiet(c), End(c)
    PROVE  ClientInv'
<1>1. TypeOK' /\ Placed'
  BY DEF ClientInv, TypeOK, Placed, End
<1>2. ASSUME connection' # None PROVE OneInference(connection)'
  BY <1>2, QuietIsEnough DEF End
<1> QED BY <1>1, <1>2 DEF ClientInv

\* A call that raises may have waited for its inference, which goes with the connection.
LEMMA RaiseInv ==
    ASSUME ClientInv, call # None, NEW c \in Connections \cup {None},
           call.op # "infer" /\ c # None => Quiet(c), Raise(c)
    PROVE  ClientInv'
<1>1. CASE call.op = "infer"
  BY <1>1, EndInv, None \in Connections \cup {None} DEF Raise, AfterFailure
<1>2. CASE call.op # "infer"
  BY <1>2, EndInv DEF Raise, AfterFailure
<1> QED BY <1>1, <1>2

\* So does every call that goes on to send on a connection without inferences.
LEMMA ProceedInv ==
    ASSUME ClientInv, call # None, NEW c \in Connections, Quiet(c), Proceed(c)
    PROVE  ClientInv'
<1>1. CASE End(c)
  BY <1>1, EndInv
<1>2. CASE call.op # "metadata" /\ connection' = c /\ Goto("send") /\ UNCHANGED calls
  <2>1. call' \in Calls /\ call'.pc = "send" /\ call'.op = call.op /\ call' # None
    BY <1>2, ClientAssumption DEF ClientInv, TypeOK, Calls, Goto
  <2>2. c # None
    BY ClientAssumption
  <2>3. TypeOK' /\ Placed'
    BY <1>2, <2>1, <2>2 DEF ClientInv, TypeOK, Placed
  <2>4. OneInference(connection)'
    BY <1>2, QuietIsEnough
  <2> QED BY <2>3, <2>4 DEF ClientInv
<1> QED BY <1>1, <1>2 DEF Proceed

-----------------------------------------------------------------------------
(* One lemma for each action that touches the connection or the call *)

LEMMA BeginInv ==
    ASSUME ClientInv, NEW op \in Operations, Begin(op)
    PROVE  ClientInv'
<1>1. call' \in Calls /\ call'.pc = "connect" /\ calls' \in Nat
  BY SMTT(30) DEF ClientInv, TypeOK, Begin, NextId, Calls
<1>2. TypeOK' /\ Placed'
  BY <1>1 DEF ClientInv, TypeOK, Placed, Begin
<1>3. ASSUME connection # None PROVE OneInference(connection)'
  BY <1>3, QuietUnlessWaiting, QuietIsEnough DEF Begin, Waiting
<1> QED BY <1>2, <1>3 DEF ClientInv, Begin

\* RefuseInput spends an id and nothing else.
LEMMA RefuseInputInv == ClientInv /\ RefuseInput => ClientInv'
BY SMTT(30) DEF ClientInv, TypeOK, Placed, RefuseInput, OneInference, Waiting

LEMMA TimesOutInv == ClientInv /\ TimesOut => ClientInv'
<1> SUFFICES ASSUME ClientInv, TimesOut PROVE ClientInv'
  OBVIOUS
<1>1. call # None /\ connection \in Connections \cup {None}
  BY DEF ClientInv, TypeOK, TimesOut, Running
<1>2. call.op # "infer" /\ connection # None => Quiet(connection)
  BY QuietUnlessWaiting DEF Waiting
<1> QED BY <1>1, <1>2, RaiseInv DEF TimesOut

LEMMA FailsInv == ClientInv /\ Fails => ClientInv'
<1> SUFFICES ASSUME ClientInv, Fails PROVE ClientInv'
  OBVIOUS
<1> DEFINE c == [connection EXCEPT !.state = "failed"]
<1>1. call # None /\ connection # None /\ connection \in Connections
  BY DEF ClientInv, TypeOK, Placed, Fails, Running
<1>2. c \in Connections /\ c.out = connection.out /\ c.back = connection.back
  BY <1>1 DEF Connections
<1>3. call.op # "infer" => Quiet(connection)
  BY <1>1, QuietUnlessWaiting DEF Waiting
<1>4. call.op # "infer" => Quiet(c)
  BY <1>2, <1>3 DEF Quiet
<1> QED BY <1>1, <1>2, <1>4, RaiseInv DEF Fails

LEMMA ConnectedInv == ClientInv /\ Connected => ClientInv'
<1> SUFFICES ASSUME ClientInv, Connected PROVE ClientInv'
  OBVIOUS
<1>1. call # None /\ connection \in Connections
  BY DEF ClientInv, TypeOK, Connected, Running
<1>2. Quiet(connection)
  BY QuietUnlessWaiting DEF Connected, Running, Waiting
<1> QED BY <1>1, <1>2, ProceedInv DEF Connected

LEMMA ConnectInv == ClientInv /\ Connect => ClientInv'
<1> SUFFICES ASSUME ClientInv, Connect PROVE ClientInv'
  OBVIOUS
<1>1. Hello \in Answers
  BY DEF Hello, Answers
<1>2. connection' \in Connections
  BY <1>1, SMTT(30) DEF Connect, Connections
<1>3. call' \in Calls /\ call'.pc = "hello"
  BY DEF ClientInv, TypeOK, Connect, Running, Goto, Calls
<1>4. connection' # None /\ connection'.back # <<>>
  BY <1>2, ClientAssumption DEF Connect
<1>5. TypeOK' /\ Placed'
  BY <1>2, <1>3, <1>4 DEF ClientInv, TypeOK, Placed, Connect
<1>6. Quiet([state |-> "open", out |-> <<>>, back |-> <<Hello>>])
  BY SMTT(30) DEF Quiet, Inferences, Hello
<1>7. OneInference(connection)'
  BY <1>6, QuietIsEnough DEF Connect
<1> QED BY <1>5, <1>7 DEF ClientInv

LEMMA ReceiveHelloInv == ClientInv /\ ReceiveHello => ClientInv'
<1> SUFFICES ASSUME ClientInv, ReceiveHello PROVE ClientInv'
  OBVIOUS
<1> DEFINE c == [connection EXCEPT !.back = Tail(@)]
<1>1. call # None /\ connection # None /\ connection \in Connections /\ connection.back # <<>>
  BY DEF ClientInv, TypeOK, Placed, ReceiveHello, Running
<1>2. Quiet(connection)
  BY <1>1, QuietUnlessWaiting DEF ReceiveHello, Running, Waiting
<1>3. connection.back \in Seq(Answers)
  BY <1>1 DEF Connections
<1>4. Tail(connection.back) \in Seq(Answers) /\ Inferences(Tail(connection.back)) = {}
  BY <1>1, <1>2, <1>3, InferencesTail, LastInferenceRead DEF Quiet, AtMostOne
<1>5. c \in Connections /\ c.out = connection.out /\ c.back = Tail(connection.back)
  BY <1>1, <1>4 DEF Connections
<1>6. Quiet(c)
  BY <1>2, <1>4, <1>5 DEF Quiet
<1> QED BY <1>1, <1>5, <1>6, ProceedInv DEF ReceiveHello

\* The one step that puts an inference on the connection, on which there is none.
LEMMA SendInv == ClientInv /\ Send => ClientInv'
<1> SUFFICES ASSUME ClientInv, Send PROVE ClientInv'
  OBVIOUS
<1> DEFINE m == [type |-> call.op, id |-> call.id]
<1>1. /\ call # None /\ call \in Calls /\ call.pc = "send" /\ call.op # "metadata"
      /\ connection # None /\ connection \in Connections
  BY DEF ClientInv, TypeOK, Placed, Send, Running
<1>2. Quiet(connection)
  BY <1>1, QuietUnlessWaiting DEF Waiting
<1>3. m \in Questions /\ connection.out \in Seq(Questions)
  BY <1>1 DEF Questions, Calls, Operations, Connections
<1>4. /\ Append(connection.out, m) \in Seq(Questions)
      /\ \A i \in Inferences(Append(connection.out, m)) :
            /\ i = Len(connection.out) + 1
            /\ m.type \in {"infer", "action"}
            /\ Append(connection.out, m)[i] = m
  BY <1>2, <1>3, InferencesAppend, SMTT(30) DEF Quiet
<1>5. /\ connection' \in Connections /\ connection'.back = connection.back
      /\ connection'.out = Append(connection.out, m)
  BY <1>1, <1>4 DEF Connections, Send
<1>6. /\ call' \in Calls /\ call' # None /\ call'.pc = "recv"
      /\ call'.op = call.op /\ call'.id = call.id
  BY <1>1, ClientAssumption DEF Calls, Send, Goto
<1>7. TypeOK' /\ Placed'
  BY <1>1, <1>5, <1>6, ClientAssumption DEF ClientInv, TypeOK, Placed, Send
<1>8. m.type \in {"infer", "action"} => call'.op = "infer" /\ call'.id = m.id
  BY <1>1, <1>6 DEF Calls, Operations
<1> HIDE DEF m
<1>9. OneInference(connection)'
  BY <1>2, <1>4, <1>5, <1>6, <1>8, SMTT(30) DEF OneInference, AtMostOne, Quiet, Waiting
<1> QED BY <1>7, <1>9 DEF ClientInv

\* Whoever is not refused by infer takes the only inference off the connection.
LEMMA RecvInv == ClientInv /\ Recv => ClientInv'
<1> SUFFICES ASSUME ClientInv, Recv PROVE ClientInv'
  OBVIOUS
<1> DEFINE back == connection.back
           rest == [connection EXCEPT !.back = Tail(@)]
<1>1. /\ call # None /\ call \in Calls /\ call.pc = "recv" /\ call.op # "metadata"
      /\ connection # None /\ connection \in Connections /\ back # <<>>
      /\ OneInference(connection)
  BY DEF ClientInv, TypeOK, Placed, Recv, Running
<1>2. back \in Seq(Answers) /\ Tail(back) \in Seq(Answers) /\ Head(back) = back[1]
  BY <1>1, SeqHeadTail, SMTT(30) DEF Connections
<1>3. rest \in Connections /\ rest.out = connection.out /\ rest.back = Tail(back)
  BY <1>1, <1>2 DEF Connections
<1>4. ASSUME Quiet(connection) PROVE Quiet(rest)
  BY <1>1, <1>2, <1>3, <1>4, LastInferenceRead DEF Quiet, AtMostOne
<1>5. CASE call.op # "infer"
  <2>1. Quiet(rest)
    BY <1>1, <1>4, <1>5, QuietUnlessWaiting DEF Waiting
  <2>2. CASE Raise(rest)
    BY <1>1, <1>3, <2>1, <2>2, RaiseInv
  <2>3. CASE End(rest)
    BY <1>3, <2>1, <2>3, EndInv
  <2> QED BY <2>2, <2>3 DEF Recv
<1>6. CASE call.op = "infer" /\ Raise(rest)
  BY <1>1, <1>3, <1>6, RaiseInv
<1>7. CASE call.op = "infer" /\ Head(back).type = Expected[call.op] /\ End(rest)
  <2>1. back[1].type = "action"
    BY <1>2, <1>7, SMTT(30) DEF Expected
  <2>2. 1 \in Inferences(back)
    BY <1>1, <1>2, <2>1, InferencesTail
  <2>3. Inferences(Tail(back)) = {} /\ Inferences(connection.out) = {}
    BY <1>1, <1>2, <2>2, LastInferenceRead DEF OneInference
  <2>4. Quiet(rest)
    BY <1>3, <2>3 DEF Quiet
  <2> QED BY <1>3, <1>7, <2>4, EndInv
<1> QED BY <1>5, <1>6, <1>7 DEF Recv

\* The answer takes the place of the question.
LEMMA ServeInv == ClientInv /\ Serve => ClientInv'
<1> SUFFICES ASSUME ClientInv, Serve PROVE ClientInv'
  OBVIOUS
<1> DEFINE out == connection.out
           back == connection.back
           m == Head(out)
<1>1. /\ connection # None /\ connection \in Connections /\ out # <<>>
      /\ OneInference(connection)
      /\ out \in Seq(Questions) /\ back \in Seq(Answers)
  BY DEF ClientInv, TypeOK, Serve, Connections
<1>2. /\ m \in Questions /\ m = out[1] /\ Tail(out) \in Seq(Questions)
      /\ \A i \in Inferences(Tail(out)) : i + 1 \in Inferences(out) /\ Tail(out)[i] = out[i + 1]
      /\ \A i \in Inferences(Tail(out)) : i \in Nat \ {0}
      /\ m.type = "infer" => 1 \in Inferences(out)
  <2> HIDE DEF out
  <2>1. Head(out) \in Questions /\ Head(out) = out[1]
    BY <1>1, SeqHeadTail, SMTT(30)
  <2> QED BY <1>1, <2>1, InferencesTail
<1>3. PICK kind \in {Expected[m.type], "error"} :
         connection' = [connection EXCEPT !.out = Tail(@),
                                          !.back = Append(@, [type |-> kind, id |-> m.id])]
  BY DEF Serve
<1> DEFINE reply == [type |-> kind, id |-> m.id]
<1>4. reply \in Answers /\ (reply.type \in {"infer", "action"} => m.type = "infer")
  BY <1>2, SMTT(30) DEF Answers, Questions, Expected
<1>5. /\ Append(back, reply) \in Seq(Answers)
      /\ \A i \in Inferences(Append(back, reply)) :
            \/ i \in Inferences(back) /\ Append(back, reply)[i] = back[i]
            \/ i = Len(back) + 1 /\ m.type = "infer" /\ Append(back, reply)[i] = reply
  <2>1. \A s \in Seq(Answers), x \in Answers :
           /\ Append(s, x) \in Seq(Answers)
           /\ \A i \in Inferences(Append(s, x)) :
                 \/ i \in Inferences(s) /\ Append(s, x)[i] = s[i]
                 \/ i = Len(s) + 1 /\ x.type \in {"infer", "action"} /\ Append(s, x)[i] = x
    BY InferencesAppend
  <2>2. back \in Seq(Answers) /\ reply \in Answers
    BY <1>1, <1>4
  <2> HIDE DEF reply, back, m
  <2>3. /\ Append(back, reply) \in Seq(Answers)
        /\ \A i \in Inferences(Append(back, reply)) :
              \/ i \in Inferences(back) /\ Append(back, reply)[i] = back[i]
              \/ i = Len(back) + 1 /\ reply.type \in {"infer", "action"} /\ Append(back, reply)[i] = reply
    BY <2>1, <2>2
  <2> QED BY <1>4, <2>3
<1>6. /\ connection' \in Connections /\ connection' # None
      /\ connection'.out = Tail(out) /\ connection'.back = Append(back, reply)
  BY <1>1, <1>2, <1>3, <1>5, ClientAssumption DEF Connections
<1>7. call' = call /\ calls' = calls
  BY DEF Serve
<1>8. back # <<>> => Append(back, reply) # <<>>
  BY <1>1, <1>4, SeqAppend, SMTT(30)
<1>9. TypeOK' /\ Placed'
  BY <1>6, <1>7, <1>8, <1>1 DEF ClientInv, TypeOK, Placed
<1>10. CASE m.type = "infer"
  <2>1. Inferences(Tail(out)) = {} /\ Inferences(back) = {}
    BY <1>1, <1>2, <1>10, LastInferenceRead DEF OneInference
  <2>2. Waiting(m.id)
    BY <1>1, <1>2, <1>10 DEF OneInference
  <2>3. reply.id = m.id
    OBVIOUS
  <2> HIDE DEF reply
  <2>4. OneInference(connection)'
    BY <1>5, <1>6, <1>7, <2>1, <2>2, <2>3, SMTT(30) DEF OneInference, AtMostOne, Waiting
  <2> QED BY <1>9, <2>4 DEF ClientInv
<1>11. CASE m.type # "infer"
  <2>1. \A i \in Inferences(Append(back, reply)) : i \in Inferences(back) /\ Append(back, reply)[i] = back[i]
    BY <1>5, <1>11
  <2>2. AtMostOne(Inferences(Tail(out)))
    BY <1>1, <1>2, SMTT(30) DEF OneInference, AtMostOne
  <2>3. \A i \in Inferences(Tail(out)) : Waiting(Tail(out)[i].id)
    BY <1>1, <1>2 DEF OneInference
  <2>4. \A i \in Inferences(Append(back, reply)) : Waiting(Append(back, reply)[i].id)
    BY <1>1, <2>1 DEF OneInference
  <2>5. AtMostOne(Inferences(Append(back, reply)))
    BY <1>1, <2>1 DEF OneInference, AtMostOne
  <2>6. Inferences(Tail(out)) = {} \/ Inferences(Append(back, reply)) = {}
    BY <1>1, <1>2, <2>1 DEF OneInference
  <2> HIDE DEF reply
  <2>7. OneInference(connection)'
    BY <1>6, <1>7, <2>2, <2>3, <2>4, <2>5, <2>6 DEF OneInference, Waiting
  <2> QED BY <1>9, <2>7 DEF ClientInv
<1> QED BY <1>10, <1>11

LEMMA BreakInv == ClientInv /\ Break => ClientInv'
<1> SUFFICES ASSUME ClientInv, Break PROVE ClientInv'
  OBVIOUS
<1>1. connection # None /\ connection \in Connections /\ OneInference(connection)
  BY DEF ClientInv, TypeOK, Break
<1>2. /\ connection' \in Connections /\ connection' # None
      /\ connection'.out = <<>> /\ connection'.back = connection.back
  BY <1>1, ClientAssumption, SeqEmpty DEF Connections, Break
<1>3. TypeOK' /\ Placed'
  BY <1>1, <1>2 DEF ClientInv, TypeOK, Placed, Break
<1>4. Inferences(<<>>) = {}
  BY SMTT(30) DEF Inferences
<1>5. OneInference(connection)'
  BY <1>1, <1>2, <1>4 DEF OneInference, AtMostOne, Waiting, Break
<1> QED BY <1>3, <1>5 DEF ClientInv

LEMMA NextClient == ClientInv /\ [Next]_vars => ClientInv'
<1> SUFFICES ASSUME ClientInv, [Next]_vars PROVE ClientInv'
  OBVIOUS
<1>1. CASE \E op \in Operations : Begin(op)
  BY <1>1, BeginInv
<1>2. CASE ConnectFails \/ RefuseHello
  BY <1>2, RaiseInv, None \in Connections \cup {None} DEF ConnectFails, RefuseHello, Running
<1>3. CASE close
  BY <1>3 DEF ClientInv, TypeOK, Placed, close
<1>4. CASE UNCHANGED vars
  BY <1>4 DEF ClientInv, TypeOK, Placed, vars, OneInference, Waiting
<1> QED
  BY <1>1, <1>2, <1>3, <1>4, RefuseInputInv, TimesOutInv, FailsInv, ConnectedInv, ConnectInv,
     ReceiveHelloInv, SendInv, RecvInv, ServeInv, BreakInv DEF Next

\* Everything on the way is at a place of out or of back.
LEMMA NothingStale == ClientInv => NoStaleAction
<1> SUFFICES ASSUME ClientInv, NEW m \in InFlight, m.type \in {"infer", "action"}
             PROVE  call # None /\ call.op = "infer" /\ call.id = m.id
  BY DEF NoStaleAction
<1>1. connection # None /\ OneInference(connection)
  BY DEF ClientInv, InFlight
<1>2. \/ \E i \in Inferences(connection.out) : m = connection.out[i]
      \/ \E i \in Inferences(connection.back) : m = connection.back[i]
  BY <1>1 DEF InFlight, Inferences
<1> QED BY <1>1, <1>2 DEF OneInference, Waiting

-----------------------------------------------------------------------------

\* NoStaleAction (client.py) holds for any number of calls, whatever times out, breaks and
\* is refused: the only inference on a connection is the one that the call in progress
\* waits for.
THEOREM OldActionsAreGone == Spec => []NoStaleAction
<1>1. Init => ClientInv
  BY SMTT(30) DEF Init, ClientInv, TypeOK, Placed
<1> QED BY <1>1, NextClient, NothingStale, PTL DEF Spec

-----------------------------------------------------------------------------
(* Episodes *)

Phases == {"idle", "resetting", "loop", "inferring", "acting"}

IsSequence(s) == s \in Seq({s[i] : i \in DOMAIN s})

EpisodeTypeOK ==
    /\ episode = [at |-> episode.at, number |-> episode.number, executed |-> episode.executed,
                  actions |-> episode.actions, source |-> episode.source]
    /\ episode.at \in Phases /\ episode.number \in Nat /\ episode.executed \in Nat
    /\ IsSequence(episode.actions) /\ episode.source \in Nat
    /\ environment.steps \in Nat /\ control_step \in Nat
    /\ DOMAIN asked = 1..MaxCalls /\ (episode.at = "acting" => asked[episode.source].steps \in Nat)
    /\ DOMAIN computed = 1..MaxCalls
    /\ calls <= MaxCalls
    /\ exec_horizon \in Nat \ {0} /\ (max_steps # None => max_steps \in Nat \ {0})

\* What the client does in each phase of an episode, and what the call was asked for.
Calling ==
    /\ episode.at \in {"idle", "loop", "acting"} => call = None
    /\ episode.at = "resetting" => call # None /\ call.op = "reset"
    /\ episode.at = "inferring" => call # None /\ call.op = "infer" /\ call.pc # "hello"
    /\ episode.at \in {"loop", "inferring", "acting"} => connection # None
    /\ episode.at = "acting" => connection.out = <<>> /\ episode.actions # <<>>
    /\ call # None =>
          /\ call.id \in 1..calls
          /\ asked[call.id] = [episode |-> episode.number, control_step |-> control_step,
                               steps |-> environment.steps]

\* Control steps are counted as the environment counts them, and there are steps left.
InStep ==
    /\ StopsInTime
    /\ episode.at \in {"resetting", "loop", "inferring"} => control_step = environment.steps
    /\ episode.at # "idle" => /\ environment.steps < EpisodeSteps
                              /\ max_steps # None => episode.executed < max_steps

\* The messages on the way out have been numbered, and an inference is the last of them.
Numbered ==
    connection # None =>
        /\ \A i \in 1..Len(connection.out) :
              /\ connection.out[i].id \in 1..calls
              /\ connection.out[i].type \in {"reset", "infer"}
              /\ connection.out[i].type = "infer" => i = Len(connection.out)
        /\ Inferences(connection.back) # {} => connection.out = <<>>

\* The reset that the server handles last before anything that is sent now.
ResetAhead(out, number) ==
    \/ /\ backend = number
       /\ \A i \in 1..Len(out) : out[i].type # "reset"
    \/ \E i \in 1..Len(out) :
          /\ out[i].type = "reset" /\ asked[out[i].id].episode = number
          /\ \A j \in (i + 1)..Len(out) : out[j].type # "reset"

\* Once its reset is sent, whatever old answer is taken for that reset's, this episode's
\* reset is the last one ahead of its inferences; unless the connection has broken.
Fresh ==
    /\ \/ episode.at \in {"loop", "inferring", "acting"}
       \/ episode.at = "resetting" /\ call.pc = "recv"
    /\ connection.state = "open"
    => ResetAhead(connection.out, episode.number)

\* What the server has computed and the client has not read is for this episode.
ComputedNow ==
    connection # None =>
        \A i \in Inferences(connection.back) : computed[connection.back[i].id] = episode.number

EpisodeInv ==
    /\ ClientInv /\ EpisodeTypeOK /\ Calling /\ InStep /\ Numbered /\ Fresh /\ ComputedNow
    /\ ActionsAreCurrent

-----------------------------------------------------------------------------
(* Steps of an episode *)

LEMMA EpisodeUsesClient ==
    ASSUME EpisodeNext
    PROVE  [Next]_vars
<1>1. CASE Start \/ Observe
  BY <1>1 DEF Start, Observe, PolicyReset, get_action, CallOf, Next, Operations
<1>2. CASE ObserveRaises \/ LoopEnds \/ Act  BY <1>2 DEF ObserveRaises, LoopEnds, Act
<1>3. CASE ResetAnswered \/ InferAnswered \/ ChunkRefused \/ CallRaises \/ CallProceeds
  BY <1>3 DEF ResetAnswered, InferAnswered, ChunkRefused, CallRaises, CallProceeds, Next
<1>4. CASE Close \/ Handle \/ Lose  BY <1>4 DEF Close, Handle, Lose, Next
<1>5. QED  BY <1>1, <1>2, <1>3, <1>4 DEF EpisodeNext

\* What changes an episode's record changes only the fields it names.
LEMMA EpisodeFields ==
    ASSUME EpisodeTypeOK, NEW at, NEW actions, NEW executed
    PROVE  /\ [episode EXCEPT !.at = at] =
                 [at |-> at, number |-> episode.number, executed |-> episode.executed,
                  actions |-> episode.actions, source |-> episode.source]
           /\ [episode EXCEPT !.actions = actions, !.executed = executed, !.at = at] =
                 [at |-> at, number |-> episode.number, executed |-> executed,
                  actions |-> actions, source |-> episode.source]
<1>1. PICK a, n, x, l, q :
         episode = [at |-> a, number |-> n, executed |-> x, actions |-> l, source |-> q]
  BY DEF EpisodeTypeOK
<1>2. /\ episode.number = n /\ episode.executed = x /\ episode.actions = l
      /\ episode.source = q
  BY <1>1
<1>3. [episode EXCEPT !.at = at] =
         [at |-> at, number |-> n, executed |-> x, actions |-> l, source |-> q]
  BY <1>1, SMTT(30)
<1>4. [episode EXCEPT !.actions = actions, !.executed = executed, !.at = at] =
         [at |-> at, number |-> n, executed |-> executed, actions |-> actions, source |-> q]
  <2>1. PICK e : e = [episode EXCEPT !.actions = actions]  OBVIOUS
  <2>2. PICK f : f = [e EXCEPT !.executed = executed]  OBVIOUS
  <2>3. [episode EXCEPT !.actions = actions, !.executed = executed, !.at = at] = [f EXCEPT !.at = at]
    BY <2>1, <2>2
  <2>4. e = [at |-> a, number |-> n, executed |-> x, actions |-> actions, source |-> q]
    BY <1>1, <2>1
  <2>5. f = [at |-> a, number |-> n, executed |-> executed, actions |-> actions, source |-> q]
    BY <2>2, <2>4
  <2>6. QED  BY <2>3, <2>5, SMTT(30)
<1>5. QED  BY <1>2, <1>3, <1>4

LEMMA ChunkFields ==
    ASSUME EpisodeTypeOK, NEW at, NEW actions, NEW source
    PROVE  [episode EXCEPT !.at = at, !.actions = actions, !.source = source] =
              [at |-> at, number |-> episode.number, executed |-> episode.executed,
               actions |-> actions, source |-> source]
<1>1. PICK a, n, x, l, q :
         episode = [at |-> a, number |-> n, executed |-> x, actions |-> l, source |-> q]
  BY DEF EpisodeTypeOK
<1>2. episode.number = n /\ episode.executed = x  BY <1>1
<1>3. [episode EXCEPT !.at = at, !.actions = actions, !.source = source] =
         [at |-> at, number |-> n, executed |-> x, actions |-> actions, source |-> source]
  <2>1. PICK e : e = [episode EXCEPT !.at = at]  OBVIOUS
  <2>2. PICK f : f = [e EXCEPT !.actions = actions]  OBVIOUS
  <2>3. [episode EXCEPT !.at = at, !.actions = actions, !.source = source] = [f EXCEPT !.source = source]
    BY <2>1, <2>2
  <2>4. e = [at |-> at, number |-> n, executed |-> x, actions |-> l, source |-> q]
    BY <1>1, <2>1
  <2>5. f = [at |-> at, number |-> n, executed |-> x, actions |-> actions, source |-> q]
    BY <2>2, <2>4
  <2>6. QED  BY <2>3, <2>5, SMTT(30)
<1>4. QED  BY <1>2, <1>3

\* Steps of the client that leave the messages on the way out alone, or drop them.
LEMMA NumberedStays ==
    ASSUME Numbered, calls' >= calls, calls \in Nat, calls' \in Nat,
           connection' # None =>
              \/ connection'.out = <<>>
              \/ /\ connection # None /\ connection'.out = connection.out
                 /\ Inferences(connection'.back) = {} \/ connection'.back = connection.back
    PROVE  Numbered'
<1> SUFFICES ASSUME connection' # None PROVE Numbered'
  BY DEF Numbered
<1>1. CASE connection'.out = <<>>  BY <1>1, SMTT(30) DEF Numbered
<1>2. CASE /\ connection # None /\ connection'.out = connection.out
           /\ Inferences(connection'.back) = {} \/ connection'.back = connection.back
  BY <1>2, SMTT(30) DEF Numbered
<1>3. QED  BY <1>1, <1>2

\* Unless a call waits for its inference nothing computed is on the way.
LEMMA NothingComputed ==
    ASSUME ClientInv, \A id \in Nat : ~ Waiting(id)
    PROVE  /\ ComputedNow
           /\ connection # None => Inferences(connection.out) = {} /\ Inferences(connection.back) = {}
BY QuietUnlessWaiting DEF ComputedNow, Quiet

LEMMA CallRecorded ==
    ASSUME EpisodeTypeOK, calls \in Nat, NEW op, CallOf(op)
    PROVE  /\ call = None /\ calls' = calls + 1 /\ calls' <= MaxCalls /\ connection' = connection
           /\ call' = [op |-> op, id |-> calls + 1, pc |-> "connect"]
           /\ DOMAIN asked' = 1..MaxCalls
           /\ asked'[calls + 1] = [episode |-> episode'.number, control_step |-> control_step',
                                   steps |-> environment'.steps]
           /\ \A id \in 1..calls : asked'[id] = asked[id]
<1>1. call = None /\ calls < MaxCalls /\ calls' = calls + 1 /\ connection' = connection
      /\ call' = [op |-> op, id |-> calls + 1, pc |-> "connect"]
  BY DEF CallOf, Begin, NextId
<1>2. calls + 1 \in 1..MaxCalls /\ calls + 1 \notin 1..calls /\ 1..calls \subseteq 1..MaxCalls
  BY <1>1, ClientAssumption, SMTT(30)
<1>3. QED  BY <1>1, <1>2, ClientAssumption, SMTT(30) DEF CallOf, NextId, EpisodeTypeOK

\* Start: the reset of a new episode.
LEMMA StartKeeps ==
    ASSUME EpisodeInv, ClientInv', Start
    PROVE  EpisodeInv'
<1> USE DEF EpisodeInv
<1>1. /\ episode.at = "idle" /\ environment'.steps = 0 /\ control_step' = 0
      /\ episode' = [at |-> "resetting", number |-> episode.number + 1, executed |-> 0,
                     actions |-> <<>>, source |-> 0]
      /\ UNCHANGED <<exec_horizon, max_steps, backend, computed>> /\ CallOf("reset")
  BY DEF Start, PolicyReset, AfterReset, configuration
<1>2. calls \in Nat  BY DEF ClientInv, TypeOK
<1>3. /\ call = None /\ calls' = calls + 1 /\ calls' <= MaxCalls /\ connection' = connection
      /\ call' = [op |-> "reset", id |-> calls + 1, pc |-> "connect"]
      /\ DOMAIN asked' = 1..MaxCalls
      /\ asked'[calls + 1] = [episode |-> episode'.number, control_step |-> control_step',
                              steps |-> environment'.steps]
  BY <1>1, <1>2, CallRecorded
<1>4. call' # None /\ call'.op = "reset" /\ call'.pc = "connect" /\ call'.id = calls + 1
  BY <1>1, <1>2, <1>3, ClientAssumption, SMTT(30) DEF Calls, Operations
<1>5. EpisodeTypeOK'
  <2>1. IsSequence(episode'.actions)  BY <1>1, SeqEmpty DEF IsSequence
  <2>2. QED  BY <1>1, <1>3, <2>1, SMTT(30) DEF EpisodeTypeOK, Phases
<1>6. Calling'
  <2>1. calls + 1 \in 1..calls'  BY <1>2, <1>3, SMTT(30)
  <2>2. QED  BY <1>1, <1>3, <1>4, <2>1 DEF Calling
<1>7. InStep'  BY <1>1, EpisodeAssumption, SMTT(30) DEF InStep, StopsInTime, EpisodeTypeOK
<1>8. Numbered'  BY <1>2, <1>3, NumberedStays, SMTT(30)
<1>9. Fresh'  BY <1>1, <1>4 DEF Fresh
<1>10. ComputedNow'
  <2>1. \A id \in Nat : ~ Waiting(id)  BY <1>3 DEF Waiting
  <2>2. QED  BY <1>3, <2>1, NothingComputed DEF ComputedNow
<1>11. ActionsAreCurrent'  BY <1>1 DEF ActionsAreCurrent
<1>12. QED  BY <1>5, <1>6, <1>7, <1>8, <1>9, <1>10, <1>11

\* Observe: an inference is asked for, behind the episode's reset.
LEMMA ObserveKeeps ==
    ASSUME EpisodeInv, ClientInv', Observe
    PROVE  EpisodeInv'
<1> USE DEF EpisodeInv
<1>1. /\ episode.at = "loop" /\ UNCHANGED <<environment, control_step, exec_horizon, max_steps>>
      /\ episode' = [episode EXCEPT !.at = "inferring"]
      /\ UNCHANGED <<backend, computed>> /\ CallOf("infer")
  BY DEF Observe, get_action, configuration
<1>2. calls \in Nat  BY DEF ClientInv, TypeOK
<1>3. /\ call = None /\ calls' = calls + 1 /\ calls' <= MaxCalls /\ connection' = connection
      /\ call' = [op |-> "infer", id |-> calls + 1, pc |-> "connect"]
      /\ DOMAIN asked' = 1..MaxCalls
      /\ asked'[calls + 1] = [episode |-> episode'.number, control_step |-> control_step',
                              steps |-> environment'.steps]
      /\ \A id \in 1..calls : asked'[id] = asked[id]
  BY <1>1, <1>2, CallRecorded
<1>4. call' # None /\ call'.op = "infer" /\ call'.pc = "connect" /\ call'.id = calls + 1
  BY <1>1, <1>2, <1>3, ClientAssumption, SMTT(30) DEF Calls, Operations
<1>5. episode' = [at |-> "inferring", number |-> episode.number, executed |-> episode.executed,
                  actions |-> episode.actions, source |-> episode.source]
  BY <1>1, EpisodeFields
<1>6. EpisodeTypeOK'  BY <1>1, <1>3, <1>5 DEF EpisodeTypeOK, Phases
<1>7. connection # None  BY <1>1 DEF Calling
<1>8. Calling'
  <2>1. calls + 1 \in 1..calls'  BY <1>2, <1>3, SMTT(30)
  <2>2. QED  BY <1>3, <1>4, <1>5, <1>7, <2>1 DEF Calling
<1>9. InStep'  BY <1>1, <1>5 DEF InStep, StopsInTime
<1>10. Numbered'  BY <1>2, <1>3, NumberedStays, SMTT(30)
<1>11. Fresh'
  <2>1. connection.state = "open" => ResetAhead(connection.out, episode.number)
    BY <1>1 DEF Fresh
  <2>2. \A i \in 1..Len(connection.out) : connection.out[i].id \in 1..calls
    BY <1>7 DEF Numbered
  <2>3. \A i \in 1..Len(connection.out) :
           asked'[connection.out[i].id] = asked[connection.out[i].id]
    BY <1>3, <2>2
  <2>4. episode'.number = episode.number /\ backend' = backend  BY <1>1, <1>5
  <2>5. ResetAhead(connection.out, episode.number) =>
           ResetAhead(connection.out, episode.number)'
    BY <1>3, <2>3, <2>4 DEF ResetAhead
  <2>6. QED  BY <1>3, <2>1, <2>5 DEF Fresh
<1>12. ComputedNow'
  <2>1. \A id \in Nat : ~ Waiting(id)  BY <1>3 DEF Waiting
  <2>2. QED  BY <1>3, <2>1, NothingComputed DEF ComputedNow
<1>13. ActionsAreCurrent'  BY <1>5 DEF ActionsAreCurrent
<1>14. QED  BY <1>6, <1>8, <1>9, <1>10, <1>11, <1>12, <1>13

LEMMA FunctionIsSequence ==
    ASSUME NEW n \in Nat, NEW s, s = [i \in 1..n |-> s[i]]
    PROVE  IsSequence(s)
<1>1. DOMAIN s = 1..n  OBVIOUS
<1>2. s \in [1..n -> {s[i] : i \in DOMAIN s}]  BY <1>1
<1>3. QED  BY <1>2, SeqIs, SMTT(30) DEF IsSequence

LEMMA TailIsSequence ==
    ASSUME NEW s, IsSequence(s), s # <<>>
    PROVE  IsSequence(Tail(s)) /\ Len(s) \in Nat \ {0} /\ Len(Tail(s)) = Len(s) - 1
<1>1. /\ Tail(s) \in Seq({s[i] : i \in DOMAIN s}) /\ Len(s) \in Nat \ {0}
      /\ Len(Tail(s)) = Len(s) - 1
  BY SeqHeadTail, SeqEmpty DEF IsSequence
<1>2. Len(Tail(s)) \in Nat /\ Tail(s) = [i \in 1..Len(Tail(s)) |-> Tail(s)[i]]
  BY <1>1, SeqLen
<1>3. QED  BY <1>1, <1>2, FunctionIsSequence

LEMMA LoopEndsKeeps ==
    ASSUME EpisodeInv, ClientInv', LoopEnds \/ ObserveRaises
    PROVE  EpisodeInv'
<1> USE DEF EpisodeInv
<1>1. /\ episode.at = "loop" /\ episode' = [episode EXCEPT !.at = "idle"]
      /\ UNCHANGED <<environment, control_step, exec_horizon, max_steps, asked, backend, computed>>
      /\ UNCHANGED <<connection, call, calls>>
  BY DEF LoopEnds, ObserveRaises, configuration, histories, vars
<1>2. episode' = [at |-> "idle", number |-> episode.number, executed |-> episode.executed,
                  actions |-> episode.actions, source |-> episode.source]
  BY <1>1, EpisodeFields
<1>3. EpisodeTypeOK'  BY <1>1, <1>2 DEF EpisodeTypeOK, Phases
<1>4. Calling' /\ InStep' /\ Fresh' /\ ActionsAreCurrent'
  BY <1>1, <1>2 DEF Calling, InStep, StopsInTime, Fresh, ActionsAreCurrent
<1>5. Numbered' /\ ComputedNow'  BY <1>1, <1>2 DEF Numbered, ComputedNow
<1>6. QED  BY <1>3, <1>4, <1>5

\* Act: one action is executed; then the loop looks whether to go on.
LEMMA ActKeeps ==
    ASSUME EpisodeInv, ClientInv', Act
    PROVE  EpisodeInv'
<1> USE DEF EpisodeInv
<1> DEFINE rest == Tail(episode.actions)
           at == IF Finished(environment', episode.executed + 1, rest) THEN "idle"
                 ELSE IF rest = <<>> THEN "loop" ELSE "acting"
<1>1. /\ episode.at = "acting"
      /\ episode' = [episode EXCEPT !.actions = rest, !.executed = episode.executed + 1, !.at = at]
      /\ environment'.steps = environment.steps + 1
      /\ UNCHANGED <<control_step, exec_horizon, max_steps, asked, backend, computed>>
      /\ UNCHANGED <<connection, call, calls>>
  BY DEF Act, configuration, histories, vars, take_action
<1>2. episode' = [at |-> at, number |-> episode.number, executed |-> episode.executed + 1,
                  actions |-> rest, source |-> episode.source]
  BY <1>1, EpisodeFields
<1>3. IsSequence(rest) /\ Len(episode.actions) \in Nat \ {0} /\ Len(rest) = Len(episode.actions) - 1
  BY <1>1, TailIsSequence DEF EpisodeTypeOK, Calling
<1>4. /\ at \in {"idle", "loop", "acting"} /\ (at = "acting" => rest # <<>>) /\ (at = "loop" => rest = <<>>)
      /\ at # "idle" => ~ Finished(environment', episode.executed + 1, rest)
  OBVIOUS
<1> HIDE DEF rest, at
<1>a. /\ episode'.at = at /\ episode'.number = episode.number
      /\ episode'.executed = episode.executed + 1 /\ episode'.actions = rest
      /\ episode'.source = episode.source
  BY <1>2
<1>5. EpisodeTypeOK'
  <2>1. episode' = [at |-> episode'.at, number |-> episode'.number, executed |-> episode'.executed,
                    actions |-> episode'.actions, source |-> episode'.source]
    BY <1>2, <1>a
  <2>2. /\ episode'.at \in Phases /\ episode'.number \in Nat /\ episode'.executed \in Nat
        /\ IsSequence(episode'.actions) /\ episode'.source \in Nat /\ environment'.steps \in Nat
    BY <1>1, <1>3, <1>4, <1>a, SMTT(30) DEF EpisodeTypeOK, Phases
  <2>3. asked[episode.source].steps \in Nat  BY <1>1 DEF EpisodeTypeOK
  <2>4. QED  BY <1>1, <1>a, <2>1, <2>2, <2>3 DEF EpisodeTypeOK
<1>6. Calling'  BY <1>1, <1>2, <1>4 DEF Calling
<1>7. control_step = environment.steps + Len(episode.actions)
  BY <1>1, <1>3, SMTT(30) DEF ActionsAreCurrent, EpisodeTypeOK
<1>8. InStep'
  <2>1. at = "loop" => control_step = environment.steps + 1
    <3>1. rest = <<>> => Len(rest) = 0  BY SeqEmpty
    <3>2. at = "loop" => Len(episode.actions) = 1  BY <1>3, <1>4, <3>1, SMTT(30)
    <3>3. QED  BY <1>7, <3>2
  <2>2. at # "idle" => /\ environment.steps + 1 < EpisodeSteps
                       /\ max_steps # None => episode.executed + 1 < max_steps
    BY <1>1, <1>4, EpisodeAssumption, SMTT(30) DEF Finished, is_episode_end, EpisodeTypeOK
  <2>3. /\ episode.executed = environment.steps /\ environment.steps + 1 <= EpisodeSteps
        /\ max_steps # None => episode.executed + 1 <= max_steps
    BY <1>1, EpisodeAssumption, SMTT(30) DEF InStep, StopsInTime, EpisodeTypeOK
  <2>4. QED  BY <1>1, <1>a, <1>4, <2>1, <2>2, <2>3 DEF InStep, StopsInTime
<1>9. Fresh'  BY <1>1, <1>2, <1>4, SMTT(30) DEF Fresh, ResetAhead
<1>10. Numbered' /\ ComputedNow'  BY <1>1, <1>2 DEF Numbered, ComputedNow
<1>11. ActionsAreCurrent'
  <2>1. /\ asked[episode.source].episode = episode.number
        /\ computed[episode.source] = episode.number
        /\ asked[episode.source].control_step = asked[episode.source].steps
    BY <1>1 DEF ActionsAreCurrent
  <2>2. asked[episode.source].steps \in Nat /\ environment.steps \in Nat
    BY <1>1 DEF EpisodeTypeOK
  <2>3. control_step = asked[episode.source].steps
                       + (environment'.steps - asked[episode.source].steps) + Len(rest)
    BY <1>1, <1>3, <1>7, <2>2, SMTT(30)
  <2>4. QED  BY <1>1, <1>a, <2>1, <2>3 DEF ActionsAreCurrent
<1>12. QED  BY <1>5, <1>6, <1>8, <1>9, <1>10, <1>11

-----------------------------------------------------------------------------
(* Steps of a call *)

\* Once no call is made nothing computed is left on the connection.
LEMMA EndedQuiet ==
    ASSUME ClientInv', call' = None \/ call'.pc # "recv"
    PROVE  /\ ComputedNow'
           /\ connection' # None => Inferences(connection'.back) = {} /\ Inferences(connection'.out) = {}
<1>1. connection' # None => Inferences(connection'.back) = {} /\ Inferences(connection'.out) = {}
  BY DEF ClientInv, OneInference, Waiting
<1>2. QED  BY <1>1 DEF ComputedNow

LEMMA ReadsOne ==
    ASSUME ClientInv, Accepted, Recv
    PROVE  /\ call # None /\ call.pc = "recv" /\ connection # None /\ connection.back # <<>>
           /\ connection' = [connection EXCEPT !.back = Tail(connection.back)] /\ connection' # None
           /\ connection'.out = connection.out /\ connection'.state = connection.state
           /\ call' = None /\ calls' = calls
<1>1. /\ call # None /\ call.pc = "recv" /\ connection.back # <<>>
      /\ connection' = [connection EXCEPT !.back = Tail(connection.back)]
      /\ call' = None /\ calls' = calls
  BY DEF Accepted, Recv, End, Running
<1>2. connection # None /\ connection \in Connections  BY <1>1 DEF ClientInv, TypeOK, Placed
<1>3. Tail(connection.back) \in Seq(Answers)
  BY <1>1, <1>2, SeqHeadTail DEF Connections
<1>4. connection' \in Connections  BY <1>1, <1>2, <1>3 DEF Connections
<1>5. QED  BY <1>1, <1>2, <1>4, ClientAssumption DEF Connections

LEMMA ResetAnsweredKeeps ==
    ASSUME EpisodeInv, ClientInv', ResetAnswered
    PROVE  EpisodeInv'
<1> USE DEF EpisodeInv
<1>1. /\ episode.at = "resetting" /\ episode' = [episode EXCEPT !.at = "loop"]
      /\ UNCHANGED <<environment, control_step, exec_horizon, max_steps, asked, backend, computed>>
  BY DEF ResetAnswered, configuration, histories
<1>2. /\ call # None /\ call.pc = "recv" /\ connection # None /\ connection' # None
      /\ connection'.out = connection.out /\ connection'.state = connection.state
      /\ call' = None /\ calls' = calls
  BY ReadsOne DEF ResetAnswered
<1>3. episode' = [at |-> "loop", number |-> episode.number, executed |-> episode.executed,
                  actions |-> episode.actions, source |-> episode.source]
  BY <1>1, EpisodeFields
<1>4. EpisodeTypeOK'  BY <1>1, <1>2, <1>3 DEF EpisodeTypeOK, Phases
<1>5. Calling' /\ InStep' /\ ActionsAreCurrent'
  BY <1>1, <1>2, <1>3 DEF Calling, InStep, StopsInTime, ActionsAreCurrent
<1>6. Fresh'  BY <1>1, <1>2, <1>3, SMTT(30) DEF Fresh, ResetAhead
<1>7. ComputedNow' /\ Inferences(connection'.back) = {}  BY <1>2, EndedQuiet
<1>8. Numbered'
  BY <1>2, <1>7, NumberedStays, SMTT(30) DEF ClientInv, TypeOK
<1>9. QED  BY <1>4, <1>5, <1>6, <1>7, <1>8

LEMMA ChunkIsSequence ==
    ASSUME NEW id, exec_horizon \in Nat
    PROVE  ChunkLength \in Nat /\ IsSequence(ChunkOf(id)) /\ Len(ChunkOf(id)) = ChunkLength
<1> DEFINE n == ChunkLength
           row(k) == action_dict(contract, actions_to_raw(contract, Row(id, k), current.raw_state))
<1>1. ChunkOf(id) = [k \in 1..n |-> row(k)]  BY DEF ChunkOf
<1>2. n \in Nat  BY EpisodeAssumption DEF ChunkLength
<1> HIDE DEF n, row
<1>3. ChunkOf(id) = [k \in 1..n |-> ChunkOf(id)[k]]  BY <1>1
<1>4. IsSequence(ChunkOf(id))  BY <1>2, <1>3, FunctionIsSequence
<1>5. Len(ChunkOf(id)) = n  BY <1>1, <1>2, <1>4, SeqLen, SMTT(30) DEF IsSequence
<1>6. QED  BY <1>2, <1>4, <1>5 DEF n

\* InferAnswered: the answer is the one inference on the connection, which the server
\* handled after this episode's reset.
LEMMA InferAnsweredKeeps ==
    ASSUME EpisodeInv, ClientInv', InferAnswered
    PROVE  EpisodeInv'
<1> USE DEF EpisodeInv
<1> DEFINE id == Head(connection.back).id
<1>1. /\ episode.at = "inferring"
      /\ episode' = [episode EXCEPT !.at = "acting", !.actions = ChunkOf(id), !.source = id]
      /\ control_step' = control_step + ChunkLength
      /\ UNCHANGED <<environment, exec_horizon, max_steps, asked, backend, computed>>
  BY DEF InferAnswered, configuration, histories
<1>2. /\ call # None /\ call.pc = "recv" /\ connection # None /\ connection' # None
      /\ connection.back # <<>>
      /\ connection'.out = connection.out /\ connection'.state = connection.state
      /\ call' = None /\ calls' = calls
  BY ReadsOne DEF InferAnswered
<1>3. episode' = [at |-> "acting", number |-> episode.number, executed |-> episode.executed,
                  actions |-> ChunkOf(id), source |-> id]
  BY <1>1, ChunkFields
<1>4. call.op = "infer" /\ id = call.id /\ Head(connection.back).type = "action"
  BY <1>1, SMTT(30) DEF Calling, InferAnswered, Accepted, Expected
<1>5. 1 \in Inferences(connection.back) /\ connection.back[1].id = id
  <2>1. connection.back \in Seq(Answers)  BY <1>2 DEF ClientInv, TypeOK, Connections
  <2>2. connection.back[1] = Head(connection.back)  BY <1>2, <2>1, SeqHeadTail, SMTT(30)
  <2>3. Len(connection.back) \in Nat \ {0}  BY <1>2, <2>1, SeqEmpty, SeqLen
  <2>4. QED  BY <1>4, <2>2, <2>3, SMTT(30) DEF Inferences
<1>6. computed[id] = episode.number /\ connection.out = <<>>
  BY <1>2, <1>5 DEF ComputedNow, Numbered
<1>7. id \in 1..calls /\ asked[id] = [episode |-> episode.number, control_step |-> control_step,
                                      steps |-> environment.steps]
  BY <1>2, <1>4 DEF Calling
<1>8. /\ IsSequence(ChunkOf(id)) /\ Len(ChunkOf(id)) = ChunkLength /\ ChunkLength \in Nat
      /\ ChunkOf(id) # <<>>
  <2>1. ChunkLength \in Nat \ {0}  BY EpisodeAssumption DEF ChunkLength, EpisodeTypeOK
  <2>2. QED  BY <2>1, ChunkIsSequence, SeqEmpty DEF EpisodeTypeOK
<1>9. asked[id].episode = episode.number /\ asked[id].control_step = control_step
      /\ asked[id].steps = environment.steps
  BY <1>7, SMTT(30)
<1>10. calls \in Nat  BY DEF ClientInv, TypeOK
<1> HIDE DEF id
<1>11. EpisodeTypeOK'
  <2>1. id \in Nat  BY <1>7, <1>10, SMTT(30)
  <2>2. episode' = [at |-> episode'.at, number |-> episode'.number, executed |-> episode'.executed,
                    actions |-> episode'.actions, source |-> episode'.source]
        /\ episode'.at = "acting" /\ episode'.source = id /\ episode'.actions = ChunkOf(id)
        /\ episode'.number = episode.number /\ episode'.executed = episode.executed
    BY <1>3
  <2>3. asked'[episode'.source].steps \in Nat /\ control_step' \in Nat
    BY <1>1, <1>8, <1>9, <2>2, SMTT(30) DEF EpisodeTypeOK
  <2>4. "acting" \in Phases  BY DEF Phases
  <2>5. QED  BY <1>1, <1>2, <1>8, <2>1, <2>2, <2>3, <2>4 DEF EpisodeTypeOK
<1>12. Calling'  BY <1>1, <1>2, <1>3, <1>6, <1>8 DEF Calling
<1>13. InStep'  BY <1>1, <1>3 DEF InStep, StopsInTime
<1>14. Fresh'  BY <1>1, <1>2, <1>3, SMTT(30) DEF Fresh, ResetAhead
<1>15. ComputedNow' /\ Inferences(connection'.back) = {}  BY <1>2, EndedQuiet
<1>16. Numbered'  BY <1>2, <1>10, <1>15, NumberedStays, SMTT(30)
<1>17. ActionsAreCurrent'
  <2>1. control_step = environment.steps  BY <1>1 DEF InStep, StopsInTime
  <2>2. QED  BY <1>1, <1>3, <1>6, <1>8, <1>9, <2>1, SMTT(30) DEF ActionsAreCurrent, EpisodeTypeOK
<1>18. QED  BY <1>11, <1>12, <1>13, <1>14, <1>15, <1>16, <1>17

\* CallRaises: the call is over and so is the episode.
LEMMA CallRaisesKeeps ==
    ASSUME EpisodeInv, ClientInv', CallRaises \/ ChunkRefused
    PROVE  EpisodeInv'
<1> USE DEF EpisodeInv
<1>1. /\ episode.at \in {"resetting", "inferring"} /\ episode' = [episode EXCEPT !.at = "idle"]
      /\ UNCHANGED <<environment, exec_horizon, max_steps, asked, backend, computed>>
      /\ control_step' \in Nat
  <2>1. ChunkLength \in Nat  BY EpisodeAssumption DEF ChunkLength, EpisodeTypeOK
  <2>2. QED  BY <2>1, SMTT(30) DEF CallRaises, ChunkRefused, EpisodeTypeOK, configuration, histories
<1>2. call' = None /\ calls' = calls
  BY DEF CallRaises, ChunkRefused, TimesOut, Fails, ConnectFails, RefuseHello, Recv, Raise, End
<1>3. calls \in Nat /\ connection \in Connections \cup {None} /\ call # None
  BY DEF ClientInv, TypeOK, CallRaises, ChunkRefused, TimesOut, Fails, ConnectFails,
     RefuseHello, Recv, Running
<1>4. episode' = [at |-> "idle", number |-> episode.number, executed |-> episode.executed,
                  actions |-> episode.actions, source |-> episode.source]
  BY <1>1, EpisodeFields
<1>5. EpisodeTypeOK'  BY <1>1, <1>2, <1>4 DEF EpisodeTypeOK, Phases
<1>6. Calling' /\ InStep' /\ Fresh' /\ ActionsAreCurrent'
  BY <1>1, <1>2, <1>4 DEF Calling, InStep, StopsInTime, Fresh, ActionsAreCurrent
<1>7. ComputedNow' /\ (connection' # None => Inferences(connection'.back) = {})
  BY <1>2, EndedQuiet
<1>8. connection' # None => connection # None /\ connection'.out = connection.out
  <2>1. CASE TimesOut  BY <2>1 DEF TimesOut, Raise, AfterFailure, End
  <2>2. CASE Fails
    <3>1. Placed  BY DEF ClientInv
    <3>2. connection # None  BY <1>3, <2>2, <3>1 DEF Fails, Running, Placed
    <3>3. connection' = None \/ connection' = [connection EXCEPT !.state = "failed"]
      BY <2>2 DEF Fails, Raise, AfterFailure, End
    <3>4. QED  BY <1>3, <3>2, <3>3 DEF Connections
  <2>3. CASE ConnectFails \/ RefuseHello
    BY <2>3 DEF ConnectFails, RefuseHello, Raise, AfterFailure, End
  <2>4. CASE Recv
    <3>1. Placed  BY DEF ClientInv
    <3>2. connection # None  BY <1>3, <2>4, <3>1 DEF Recv, Running, Placed
    <3>3. connection' = None \/ connection' = [connection EXCEPT !.back = Tail(connection.back)]
      BY <2>4 DEF Recv, Raise, AfterFailure, End
    <3>4. QED  BY <1>3, <3>2, <3>3 DEF Connections
  <2>5. QED  BY <2>1, <2>2, <2>3, <2>4 DEF CallRaises, ChunkRefused
<1>9. Numbered'  BY <1>2, <1>3, <1>7, <1>8, NumberedStays, SMTT(30)
<1>10. QED  BY <1>5, <1>6, <1>7, <1>9

\* A step that leaves the robot alone, and does not serve a message.
LEMMA RobotStays ==
    ASSUME EpisodeInv, UNCHANGED <<configuration, robot, histories>>, calls' = calls
    PROVE  /\ EpisodeTypeOK' /\ InStep' /\ ActionsAreCurrent'
           /\ UNCHANGED <<episode, environment, control_step, asked, backend, computed>>
<1>1. UNCHANGED <<episode, environment, control_step, exec_horizon, max_steps, asked, backend, computed>>
  BY DEF configuration, robot, histories
<1>2. QED  BY <1>1 DEF EpisodeInv, EpisodeTypeOK, InStep, StopsInTime, ActionsAreCurrent

\* Between the phases of a call there is no other that is asked for something.
LEMMA CallIsPlaced ==
    ASSUME EpisodeInv, call # None
    PROVE  /\ episode.at \in {"resetting", "inferring"} /\ call \in Calls
           /\ call.op = "reset" <=> episode.at = "resetting"
           /\ call.op = "infer" <=> episode.at = "inferring"
BY DEF EpisodeInv, EpisodeTypeOK, Phases, Calling, ClientInv, TypeOK

\* CallProceeds, before the message is sent.
LEMMA ConnectingKeeps ==
    ASSUME EpisodeInv, ClientInv', Connect \/ Connected \/ ReceiveHello,
           UNCHANGED <<configuration, robot, histories>>
    PROVE  EpisodeInv'
<1> USE DEF EpisodeInv
<1>1. call # None /\ call.pc \in {"connect", "hello"}
  BY DEF Connect, Connected, ReceiveHello, Running
<1>2. /\ episode.at \in {"resetting", "inferring"} /\ call \in Calls
      /\ call.op = "reset" <=> episode.at = "resetting"
      /\ call.op = "infer" <=> episode.at = "inferring"
  BY <1>1, CallIsPlaced
<1>3. \E pc \in {"hello", "send"} : call' = [call EXCEPT !.pc = pc] /\ calls' = calls
                                     /\ (pc = "hello" => Connect)
  BY <1>2 DEF Connect, Connected, ReceiveHello, Proceed, Goto
<1>4. /\ call'.op = call.op /\ call'.id = call.id /\ call' # None /\ calls' = calls
      /\ call'.pc \in {"hello", "send"} /\ (call'.pc = "hello" => Connect)
  BY <1>2, <1>3, ClientAssumption DEF Calls
<1>5. /\ EpisodeTypeOK' /\ InStep' /\ ActionsAreCurrent'
      /\ UNCHANGED <<episode, environment, control_step, asked, backend, computed>>
  BY <1>4, RobotStays
<1>6. ComputedNow' /\ (connection' # None => Inferences(connection'.back) = {})
  BY <1>4, EndedQuiet
<1>7. connection' # None /\ (Connect => connection = None /\ connection'.out = <<>>)
      /\ (~ Connect => connection # None /\ connection'.out = connection.out
                       /\ connection'.state = connection.state)
  <2>1. CASE Connect
    <3>1. connection = None /\ connection' = [state |-> "open", out |-> <<>>, back |-> <<Hello>>]
      BY <2>1 DEF Connect
    <3>2. TypeOK' /\ Placed'  BY DEF ClientInv
    <3>3. connection' # None  BY <1>3, <1>4, <2>1, <3>2 DEF Placed
    <3>4. QED  BY <2>1, <3>1, <3>3
  <2>2. CASE Connected /\ ~ Connect
    BY <1>2, <2>2 DEF Connected, Proceed
  <2>3. CASE ReceiveHello /\ ~ Connect
    <3>1. connection # None /\ connection \in Connections
      BY <2>3 DEF ReceiveHello, Running, ClientInv, Placed, TypeOK
    <3>2. connection' = [connection EXCEPT !.back = Tail(connection.back)]
      BY <1>2, <2>3 DEF ReceiveHello, Proceed
    <3>3. Placed'  BY DEF ClientInv
    <3>4. connection' # None  BY <1>4, <3>3 DEF Placed
    <3>5. QED  BY <2>3, <3>1, <3>2, <3>4 DEF Connections
  <2>4. QED  BY <2>1, <2>2, <2>3
<1>8. Numbered'
  <2>1. calls \in Nat  BY DEF ClientInv, TypeOK
  <2>2. QED  BY <1>4, <1>6, <1>7, <2>1, NumberedStays, SMTT(30)
<1>9. Calling'
  <2>1. Connect => episode.at = "resetting"  BY <1>2, <1>7 DEF Calling
  <2>2. QED  BY <1>2, <1>4, <1>5, <1>7, <2>1 DEF Calling
<1>10. Fresh'
  <2>1. CASE episode.at = "resetting"  BY <1>4, <1>5, <2>1 DEF Fresh
  <2>2. CASE episode.at = "inferring"
    <3>1. connection # None  BY <2>2 DEF Calling
    <3>2. QED  BY <1>5, <1>7, <2>2, <3>1 DEF Fresh, ResetAhead
  <2>3. QED  BY <1>2, <2>1, <2>2
<1>11. QED  BY <1>5, <1>6, <1>8, <1>9, <1>10

\* CallProceeds, the message is sent: a reset becomes the last one ahead, an inference
\* goes behind it.
LEMMA SendKeeps ==
    ASSUME EpisodeInv, ClientInv', Send, UNCHANGED <<configuration, robot, histories>>
    PROVE  EpisodeInv'
<1> USE DEF EpisodeInv
<1> DEFINE n == Len(connection.out)
           m == [type |-> call.op, id |-> call.id]
<1>1. /\ call # None /\ call.pc = "send" /\ connection.state = "open" /\ calls' = calls
      /\ connection' = [connection EXCEPT !.out = Append(connection.out, m)]
      /\ call' = [call EXCEPT !.pc = "recv"]
  BY DEF Send, Running, Goto
<1>2. /\ episode.at \in {"resetting", "inferring"} /\ call \in Calls
      /\ call.op = "reset" <=> episode.at = "resetting"
      /\ call.op = "infer" <=> episode.at = "inferring"
  BY <1>1, CallIsPlaced
<1>3. connection # None /\ connection \in Connections
  BY <1>1 DEF ClientInv, Placed, TypeOK
<1>4. Inferences(connection.out) = {} /\ Inferences(connection.back) = {}
  BY <1>1, <1>3 DEF ClientInv, OneInference, Waiting
<1>5. /\ call'.op = call.op /\ call'.id = call.id /\ call' # None /\ call'.pc = "recv"
  BY <1>1, <1>2, ClientAssumption DEF Calls
<1>6. /\ EpisodeTypeOK' /\ InStep' /\ ActionsAreCurrent'
      /\ UNCHANGED <<episode, environment, control_step, asked, backend, computed>>
  BY <1>1, RobotStays
<1>7. connection' # None /\ connection'.back = connection.back /\ connection'.out = Append(connection.out, m)
  <2>1. Placed'  BY DEF ClientInv
  <2>2. connection' # None  BY <1>5, <2>1 DEF Placed
  <2>3. QED  BY <1>1, <1>3, <2>2 DEF Connections
<1>8. m \in Questions /\ connection.out \in Seq(Questions) /\ m.type = call.op /\ m.id = call.id
  BY <1>2, <1>3 DEF Questions, Calls, Connections
<1>9. /\ n \in Nat /\ Len(connection'.out) = n + 1 /\ connection'.out[n + 1] = m
      /\ \A i \in 1..n : connection'.out[i] = connection.out[i]
  <2> HIDE DEF m
  <2>1. QED  BY <1>7, <1>8, SeqAppend, SeqLen, SMTT(30)
<1>10. call.id \in 1..calls /\ asked[call.id].episode = episode.number
  BY <1>1, SMTT(30) DEF Calling
<1> HIDE DEF m, n
<1>11. \A i \in 1..(n + 1) : i \in 1..n \/ i = n + 1  BY <1>9, SMTT(30)
<1>12. Numbered'
  <2>1. \A i \in 1..n : /\ connection.out[i].id \in 1..calls
                        /\ connection.out[i].type = "reset"
    BY <1>3, <1>4 DEF Numbered, Inferences, n
  <2>2. QED  BY <1>1, <1>2, <1>4, <1>7, <1>8, <1>9, <1>10, <1>11, <2>1, SMTT(30) DEF Numbered
<1>13. Calling'  BY <1>1, <1>2, <1>5, <1>6, <1>7 DEF Calling
<1>14. ComputedNow'  BY <1>4, <1>7 DEF ComputedNow
<1>15. ResetAhead(connection.out, episode.number)'
  <2>1. CASE episode.at = "resetting"
    <3>1. n + 1 \in 1..(n + 1) /\ \A j \in ((n + 1) + 1)..(n + 1) : FALSE  BY <1>9, SMTT(30)
    <3>2. m.type = "reset" /\ asked'[m.id].episode = episode.number
      BY <1>2, <1>6, <1>8, <1>10, <2>1
    <3>3. QED  BY <1>6, <1>9, <3>1, <3>2 DEF ResetAhead
  <2>2. CASE episode.at = "inferring"
    <3>1. ResetAhead(connection.out, episode.number)  BY <1>1, <2>2 DEF Fresh
    <3>2. m.type # "reset"  BY <1>2, <1>8, <2>2
    <3>3. CASE backend = episode.number /\ \A i \in 1..n : connection.out[i].type # "reset"
      BY <1>6, <1>9, <1>11, <3>2, <3>3 DEF ResetAhead
    <3>4. CASE \E i \in 1..n : /\ connection.out[i].type = "reset"
                               /\ asked[connection.out[i].id].episode = episode.number
                               /\ \A j \in (i + 1)..n : connection.out[j].type # "reset"
      <4>1. PICK i \in 1..n : /\ connection.out[i].type = "reset"
                              /\ asked[connection.out[i].id].episode = episode.number
                              /\ \A j \in (i + 1)..n : connection.out[j].type # "reset"
        BY <3>4
      <4>2. /\ i \in 1..(n + 1)
            /\ \A j \in (i + 1)..(n + 1) : (j \in (i + 1)..n /\ j \in 1..n) \/ j = n + 1
        BY <1>9, SMTT(30)
      <4>3. \A j \in (i + 1)..(n + 1) : connection'.out[j].type # "reset"
        BY <1>9, <3>2, <4>1, <4>2
      <4>4. connection'.out[i].type = "reset" /\ asked'[connection'.out[i].id].episode = episode'.number
        BY <1>6, <1>9, <4>1
      <4>5. QED  BY <1>9, <4>2, <4>3, <4>4 DEF ResetAhead
    <3>5. QED  BY <3>1, <3>3, <3>4 DEF ResetAhead, n
  <2>3. QED  BY <1>2, <2>1, <2>2
<1>16. QED  BY <1>6, <1>12, <1>13, <1>14, <1>15 DEF Fresh

LEMMA CloseKeeps ==
    ASSUME EpisodeInv, ClientInv', Close
    PROVE  EpisodeInv'
<1> USE DEF EpisodeInv
<1>1. episode.at = "idle" /\ connection' = None /\ UNCHANGED <<call, calls>>
      /\ UNCHANGED <<configuration, robot, histories>>
  BY DEF Close, close
<1>2. /\ EpisodeTypeOK' /\ InStep' /\ ActionsAreCurrent'
      /\ UNCHANGED <<episode, environment, control_step, asked, backend, computed>>
  BY <1>1, RobotStays
<1>3. QED  BY <1>1, <1>2 DEF Calling, Numbered, Fresh, ComputedNow

\* Lose: a connection that breaks takes the messages on their way out with it.
LEMMA LoseKeeps ==
    ASSUME EpisodeInv, ClientInv', Lose
    PROVE  EpisodeInv'
<1> USE DEF EpisodeInv
<1>1. /\ connection # None /\ connection' = [connection EXCEPT !.state = "broken", !.out = <<>>]
      /\ UNCHANGED <<call, calls>> /\ UNCHANGED <<configuration, robot, histories>>
  BY DEF Lose, Break
<1>2. /\ EpisodeTypeOK' /\ InStep' /\ ActionsAreCurrent'
      /\ UNCHANGED <<episode, environment, control_step, asked, backend, computed>>
  BY <1>1, RobotStays
<1>3. connection \in Connections /\ <<>> \in Seq(Questions)
  BY <1>1, SeqEmpty DEF ClientInv, TypeOK
<1>4. /\ connection' \in Connections /\ connection'.state = "broken" /\ connection'.out = <<>>
      /\ connection'.back = connection.back
  BY <1>1, <1>3 DEF Connections
<1>5. connection' # None  BY <1>4, ClientAssumption
<1>6. Numbered'  BY <1>4, SeqEmpty, SMTT(30) DEF Numbered
<1>7. QED  BY <1>1, <1>2, <1>4, <1>5, <1>6 DEF Calling, Fresh, ComputedNow

\* Handle: the server takes the first message.
LEMMA HandleKeeps ==
    ASSUME EpisodeInv, ClientInv', Handle
    PROVE  EpisodeInv'
<1> USE DEF EpisodeInv
<1> DEFINE n == Len(connection.out)
           m == connection.out[1]
<1>1. PICK type \in {Expected[m.type], "error"} :
         /\ connection # None /\ connection.state = "open" /\ connection.out # <<>>
         /\ connection' = [connection EXCEPT !.out = Tail(connection.out),
                              !.back = Append(connection.back, [type |-> type, id |-> m.id])]
         /\ UNCHANGED <<call, calls>> /\ UNCHANGED <<configuration, robot, asked>>
         /\ backend' = IF m.type = "reset" THEN asked[m.id].episode ELSE backend
         /\ computed' = [computed EXCEPT ![m.id] = backend]
  <2>1. connection # None  BY DEF Handle, Serve
  <2>2. connection.out \in Seq(Questions) /\ connection.out # <<>>
    BY <2>1 DEF Handle, Serve, ClientInv, TypeOK, Connections
  <2>3. Head(connection.out) = m  BY <2>2, SeqHeadTail, SMTT(30)
  <2>4. QED  BY <2>3 DEF Handle, Serve
<1>2. connection \in Connections  BY <1>1 DEF ClientInv, TypeOK
<1>3. connection.out \in Seq(Questions) /\ connection.back \in Seq(Answers)
  BY <1>2 DEF Connections
<1>4. /\ n \in Nat \ {0} /\ Tail(connection.out) \in Seq(Questions)
      /\ Len(Tail(connection.out)) = n - 1
      /\ \A i \in 1..(n - 1) : Tail(connection.out)[i] = connection.out[i + 1]
  <2>1. /\ Tail(connection.out) \in Seq(Questions) /\ Len(Tail(connection.out)) = Len(connection.out) - 1
        /\ \A i \in 1..Len(Tail(connection.out)) : Tail(connection.out)[i] = connection.out[i + 1]
    BY <1>1, <1>3, SeqHeadTail
  <2>2. n \in Nat \ {0}  BY <1>1, <1>3, SeqEmpty, SeqLen
  <2>3. QED  BY <2>1, <2>2
<1>5. 1 \in 1..n /\ m \in Questions
  <2>1. 1 \in 1..n  BY <1>4, SMTT(30)
  <2>2. QED  BY <1>3, <2>1, SeqElement
<1>6. m.id \in 1..calls /\ m.type \in {"reset", "infer"} /\ (m.type = "infer" => n = 1)
  BY <1>1, <1>5 DEF Numbered
<1>7. [type |-> type, id |-> m.id] \in Answers
  BY <1>5, <1>6, SMTT(30) DEF Answers, Questions, Expected
<1>8. /\ connection' # None /\ connection'.out = Tail(connection.out)
      /\ connection'.back = Append(connection.back, [type |-> type, id |-> m.id])
      /\ connection'.state = "open"
  <2>1. Append(connection.back, [type |-> type, id |-> m.id]) \in Seq(Answers)
    BY <1>3, <1>7, SeqAppend
  <2>2. connection' \in Connections  BY <1>1, <1>2, <1>4, <2>1 DEF Connections
  <2>3. QED  BY <1>1, <1>2, <2>2, ClientAssumption DEF Connections
<1>9. UNCHANGED <<episode, environment, control_step, exec_horizon, max_steps, asked, call, calls>>
  BY <1>1 DEF configuration, robot
<1>10. calls \in Nat /\ m.id \in 1..MaxCalls
  BY <1>6, ClientAssumption, SMTT(30) DEF EpisodeTypeOK, ClientInv, TypeOK
<1>11. Inferences(connection.back) = {}  BY <1>1 DEF Numbered
<1>12. \A i \in Inferences(connection'.back) :
          /\ type = "action" /\ connection'.back[i].id = m.id
  <2>1. \A i \in Inferences(connection'.back) :
           /\ [type |-> type, id |-> m.id].type \in {"infer", "action"}
           /\ connection'.back[i] = [type |-> type, id |-> m.id]
    BY <1>3, <1>7, <1>8, <1>11, InferencesAppend, SMTT(30)
  <2>2. QED  BY <1>6, <2>1, SMTT(30) DEF Expected
<1>13. type = "action" => m.type = "infer"  BY <1>6, SMTT(30) DEF Expected
<1>14. m.type = "infer" => backend = episode.number
  <2> SUFFICES ASSUME m.type = "infer" PROVE backend = episode.number  OBVIOUS
  <2>1. 1 \in Inferences(connection.out)  BY <1>5 DEF Inferences
  <2>2. Waiting(m.id)  BY <1>1, <2>1 DEF ClientInv, OneInference
  <2>3. episode.at = "inferring"  BY <2>2, CallIsPlaced DEF Waiting
  <2>4. ResetAhead(connection.out, episode.number)  BY <1>1, <2>3 DEF Fresh
  <2>5. \A i \in 1..n : i = 1
    <3>1. n = 1  BY <1>6
    <3> HIDE DEF n
    <3>2. QED  BY <3>1, SMTT(30)
  <2>6. \A i \in 1..n : connection.out[i].type # "reset"  BY <2>5
  <2>7. QED  BY <2>4, <2>6 DEF ResetAhead
<1> HIDE DEF m, n
<1>15. DOMAIN computed' = 1..MaxCalls  BY <1>1 DEF EpisodeTypeOK
<1>16. EpisodeTypeOK'  BY <1>9, <1>15 DEF EpisodeTypeOK
<1>17. episode.at # "acting"  BY <1>1 DEF Calling
<1>18. Calling' /\ InStep' /\ ActionsAreCurrent'
  BY <1>8, <1>9, <1>17 DEF Calling, InStep, StopsInTime, ActionsAreCurrent
<1>19. Numbered'
  <2>1. \A i \in 1..(n - 1) : i + 1 \in 1..n  BY <1>4, SMTT(30)
  <2>2. \A i \in 1..(n - 1) :
           /\ Tail(connection.out)[i].id \in 1..calls
           /\ Tail(connection.out)[i].type \in {"reset", "infer"}
           /\ Tail(connection.out)[i].type = "infer" => i = n - 1
    BY <1>1, <1>4, <2>1, SMTT(30) DEF Numbered, n
  <2>3. Inferences(connection'.back) # {} => Tail(connection.out) = <<>>
    <3>1. Inferences(connection'.back) # {} => n = 1  BY <1>6, <1>12, <1>13
    <3>2. n = 1 => Len(Tail(connection.out)) = 0  BY <1>4, SMTT(30)
    <3>3. QED  BY <1>4, <3>1, <3>2, SeqEmpty
  <2>4. QED  BY <1>4, <1>8, <1>9, <2>2, <2>3 DEF Numbered
<1>20. ComputedNow'
  <2>1. Inferences(connection'.back) # {} => computed'[m.id] = episode.number
    BY <1>1, <1>10, <1>12, <1>13, <1>14 DEF EpisodeTypeOK
  <2>2. QED  BY <1>9, <1>12, <2>1 DEF ComputedNow
<1>21. ResetAhead(connection.out, episode.number) => ResetAhead(connection.out, episode.number)'
  <2>1. CASE backend = episode.number /\ \A i \in 1..n : connection.out[i].type # "reset"
    <3>1. m.type # "reset"  BY <1>5, <2>1 DEF m
    <3>2. \A i \in 1..(n - 1) : i + 1 \in 1..n  BY <1>4, SMTT(30)
    <3>3. QED  BY <1>1, <1>4, <1>8, <1>9, <2>1, <3>1, <3>2, SMTT(30) DEF ResetAhead
  <2>2. CASE \E i \in 1..n : /\ connection.out[i].type = "reset"
                             /\ asked[connection.out[i].id].episode = episode.number
                             /\ \A j \in (i + 1)..n : connection.out[j].type # "reset"
    <3>1. PICK i \in 1..n : /\ connection.out[i].type = "reset"
                            /\ asked[connection.out[i].id].episode = episode.number
                            /\ \A j \in (i + 1)..n : connection.out[j].type # "reset"
      BY <2>2
    <3>2. \A j \in ((i - 1) + 1)..(n - 1) : j \in 1..(n - 1) /\ j + 1 \in (i + 1)..n
      BY <1>4, SMTT(30)
    <3>3. \A j \in ((i - 1) + 1)..(n - 1) : Tail(connection.out)[j].type # "reset"
      BY <1>4, <3>1, <3>2
    <3>4. CASE i = 1
      <4>1. backend' = episode.number  BY <1>1, <3>1, <3>4 DEF m
      <4>2. (i - 1) + 1 = 1  BY <3>4, SMTT(30)
      <4>3. \A j \in 1..(n - 1) : Tail(connection.out)[j].type # "reset"
        BY <3>3, <4>2
      <4>4. QED  BY <1>4, <1>8, <1>9, <4>1, <4>3 DEF ResetAhead
    <3>5. CASE i # 1
      <4>1. i - 1 \in 1..(n - 1) /\ (i - 1) + 1 = i  BY <1>4, <3>5, SMTT(30)
      <4>2. Tail(connection.out)[i - 1] = connection.out[i]  BY <1>4, <4>1
      <4>3. /\ Tail(connection.out)[i - 1].type = "reset"
            /\ asked'[Tail(connection.out)[i - 1].id].episode = episode'.number
        BY <1>9, <3>1, <4>2
      <4>4. QED  BY <1>4, <1>8, <3>3, <4>1, <4>3 DEF ResetAhead
    <3>6. QED  BY <3>4, <3>5
  <2>3. QED  BY <2>1, <2>2 DEF ResetAhead, n
<1>22. Fresh'  BY <1>1, <1>9, <1>21 DEF Fresh
<1>23. QED  BY <1>16, <1>18, <1>19, <1>20, <1>22

-----------------------------------------------------------------------------

LEMMA EpisodeInductive ==
    ASSUME EpisodeInv, [EpisodeNext]_<<vars, episodeVars>>
    PROVE  EpisodeInv'
<1>1. ASSUME EpisodeNext PROVE EpisodeInv'
  <2>1. ClientInv'  BY <1>1, EpisodeUsesClient, NextClient DEF EpisodeInv
  <2>2. CASE Start  BY <2>1, <2>2, StartKeeps
  <2>3. CASE Observe  BY <2>1, <2>3, ObserveKeeps
  <2>4. CASE LoopEnds \/ ObserveRaises  BY <2>1, <2>4, LoopEndsKeeps
  <2>5. CASE Act  BY <2>1, <2>5, ActKeeps
  <2>6. CASE ResetAnswered  BY <2>1, <2>6, ResetAnsweredKeeps
  <2>7. CASE InferAnswered  BY <2>1, <2>7, InferAnsweredKeeps
  <2>8. CASE CallRaises \/ ChunkRefused  BY <2>1, <2>8, CallRaisesKeeps
  <2>9. CASE CallProceeds  BY <2>1, <2>9, ConnectingKeeps, SendKeeps DEF CallProceeds
  <2>10. CASE Close  BY <2>1, <2>10, CloseKeeps
  <2>11. CASE Handle  BY <2>1, <2>11, HandleKeeps
  <2>12. CASE Lose  BY <2>1, <2>12, LoseKeeps
  <2>13. QED
    BY <1>1, <2>2, <2>3, <2>4, <2>5, <2>6, <2>7, <2>8, <2>9, <2>10, <2>11, <2>12 DEF EpisodeNext
<1>2. ASSUME UNCHANGED <<vars, episodeVars>> PROVE EpisodeInv'
  <2>1. UNCHANGED <<connection, call, calls, exec_horizon, max_steps, environment, control_step,
                    episode, asked, backend, computed>>
    BY <1>2 DEF episodeVars, vars, configuration, robot, histories
  <2>2. ClientInv'  BY <2>1, NextClient DEF EpisodeInv, vars
  <2>3. EpisodeTypeOK' /\ Calling' /\ InStep' /\ ActionsAreCurrent'
    BY <2>1 DEF EpisodeInv, EpisodeTypeOK, Calling, InStep, StopsInTime,
       ActionsAreCurrent
  <2>4. Numbered' /\ Fresh' /\ ComputedNow'
    BY <2>1 DEF EpisodeInv, Numbered, Fresh, ResetAhead, ComputedNow
  <2>5. QED  BY <2>2, <2>3, <2>4 DEF EpisodeInv
<1>3. QED  BY <1>1, <1>2

LEMMA EpisodeStarts ==
    ASSUME Init, EpisodeInit
    PROVE  EpisodeInv
<1>1. connection = None /\ call = None /\ calls = 0  BY DEF Init
<1>2. ClientInv  BY <1>1 DEF ClientInv, TypeOK, Placed
<1>3. /\ episode = [at |-> "idle", number |-> 0, executed |-> 0, actions |-> <<>>, source |-> 0]
      /\ environment.steps = 0 /\ control_step = 0 /\ backend = 0
      /\ asked = [id \in 1..MaxCalls |-> None] /\ computed = [id \in 1..MaxCalls |-> 0]
      /\ exec_horizon \in Nat \ {0} /\ (max_steps # None => max_steps \in Nat \ {0})
  BY EpisodeAssumption DEF EpisodeInit
<1>4. IsSequence(episode.actions)  BY <1>3, SeqEmpty DEF IsSequence
<1>5. EpisodeTypeOK  BY <1>1, <1>3, <1>4, ClientAssumption, SMTT(30) DEF EpisodeTypeOK, Phases
<1>6. Calling /\ InStep /\ Fresh /\ ActionsAreCurrent
  <2>1. episode.at = "idle" /\ episode.executed = 0  BY <1>3
  <2>2. InStep  BY <1>3, <2>1, EpisodeAssumption, SMTT(30) DEF InStep, StopsInTime
  <2>3. QED  BY <1>1, <2>1, <2>2 DEF Calling, Fresh, ActionsAreCurrent
<1>7. QED  BY <1>1, <1>2, <1>5, <1>6 DEF EpisodeInv, Numbered, ComputedNow

\* For any numbers of calls, episodes and steps, and any robot: whatever timed out, failed
\* or was answered late, the actions that run_episode() executes were computed in their
\* episode, after its reset, from the observation before the first of them.
THEOREM ActionsStayCurrent == EpisodeSpec => []ActionsAreCurrent
<1>1. Init /\ EpisodeInit => EpisodeInv  BY EpisodeStarts
<1>2. EpisodeInv /\ [EpisodeNext]_<<vars, episodeVars>> => EpisodeInv'  BY EpisodeInductive
<1>3. EpisodeInv => ActionsAreCurrent  BY DEF EpisodeInv
<1>4. QED  BY <1>1, <1>2, <1>3, PTL DEF EpisodeSpec

\* No step of an episode follows the one that ended it, in the middle of a chunk or not:
\* for any episode_steps, max_steps and exec_horizon that run_episode() accepts.
THEOREM EpisodesStopInTime == EpisodeSpec => []StopsInTime
<1>1. Init /\ EpisodeInit => EpisodeInv  BY EpisodeStarts
<1>2. EpisodeInv /\ [EpisodeNext]_<<vars, episodeVars>> => EpisodeInv'  BY EpisodeInductive
<1>3. EpisodeInv => StopsInTime
  BY DEF EpisodeInv, InStep
<1>4. QED  BY <1>1, <1>2, <1>3, PTL DEF EpisodeSpec

-----------------------------------------------------------------------------
(* The robot *)

\* A concatenation holds the elements of the first, then those of the second.
LEMMA SeqConcat ==
    ASSUME NEW S, NEW s \in Seq(S), NEW u \in Seq(S)
    PROVE  /\ s \o u \in Seq(S) /\ Len(s \o u) = Len(s) + Len(u)
           /\ \A i \in 1..Len(s) + Len(u) :
                 (s \o u)[i] = IF i <= Len(s) THEN s[i] ELSE u[i - Len(s)]
BY SMTT(30)

(* The layouts of a robot's vector *)

\* What a contract that from_mapping() accepts says of its parts.
LEMMA ContractParts ==
    ASSUME NEW c \in RawRobotContracts, validate(c)
    PROVE  /\ c.raw_state_dim \in Nat /\ c.raw_action_dim \in Nat
           /\ model_dim(c) \in Nat /\ DOMAIN c.model_state_indices = 1..model_dim(c)
           /\ \A j \in 1..model_dim(c) : c.model_state_indices[j] \in Nat
           /\ \A i, j \in 1..model_dim(c) :
                 c.model_state_indices[i] = c.model_state_indices[j] => i = j
           /\ Range(c.model_state_indices) = {c.model_state_indices[j] : j \in 1..model_dim(c)}
           /\ \A k \in 1..4 : /\ c.slices[k][1] \in Nat /\ c.slices[k][2] \in Nat
                              /\ c.slices[k][1] < c.slices[k][2]
                              /\ c.slices[k][2] <= c.raw_action_dim
<1>1. /\ c.raw_state_dim \in Nat /\ c.raw_action_dim \in Nat
      /\ c.model_state_indices \in Seq(Nat) /\ c.slices \in [1..4 -> Nat \X Nat]
  BY DEF RawRobotContracts
<1>2. /\ model_dim(c) \in Nat /\ DOMAIN c.model_state_indices = 1..model_dim(c)
      /\ \A j \in 1..model_dim(c) : c.model_state_indices[j] \in Nat
  BY <1>1, SeqLen, SeqElement DEF model_dim
<1>3. \A i, j \in 1..model_dim(c) : c.model_state_indices[i] = c.model_state_indices[j] => i = j
  BY <1>2 DEF validate, IsInjective
<1>4. Range(c.model_state_indices) = {c.model_state_indices[j] : j \in 1..model_dim(c)}
  BY <1>2 DEF Range
<1>5. \A k \in 1..4 : c.slices[k][1] \in Nat /\ c.slices[k][2] \in Nat
  BY <1>1
<1>6. QED  BY <1>1, <1>2, <1>3, <1>4, <1>5 DEF validate

\* actions_to_raw() puts each coordinate of a row in its own place, and keeps the others.
LEMMA RawRow ==
    ASSUME NEW c \in RawRobotContracts, validate(c), NEW row, NEW state
    PROVE  LET raw == actions_to_raw(c, row, state)
           IN /\ DOMAIN raw = DOMAIN state
              /\ \A j \in 1..model_dim(c) : c.model_state_indices[j] \in DOMAIN state =>
                    raw[c.model_state_indices[j]] = row[j]
              /\ \A i \in DOMAIN state :
                    i \notin Range(c.model_state_indices) => raw[i] = state[i]
<1> DEFINE raw == actions_to_raw(c, row, state)
<1>1. /\ model_dim(c) \in Nat /\ DOMAIN c.model_state_indices = 1..model_dim(c)
      /\ \A i, j \in 1..model_dim(c) :
            c.model_state_indices[i] = c.model_state_indices[j] => i = j
      /\ Range(c.model_state_indices) = {c.model_state_indices[j] : j \in 1..model_dim(c)}
  BY ContractParts
<1>2. \A i : i \in Range(c.model_state_indices) <=> \E j \in 1..model_dim(c) : c.model_state_indices[j] = i
  BY <1>1
<1>3. raw = [i \in DOMAIN state |->
                IF i \in Range(c.model_state_indices)
                THEN row[CHOOSE j \in 1..model_dim(c) : c.model_state_indices[j] = i]
                ELSE state[i]]
  BY DEF actions_to_raw
<1> HIDE DEF raw
<1>4. ASSUME NEW j \in 1..model_dim(c), c.model_state_indices[j] \in DOMAIN state
      PROVE  raw[c.model_state_indices[j]] = row[j]
  <2> DEFINE i == c.model_state_indices[j]
             chosen == CHOOSE k \in 1..model_dim(c) : c.model_state_indices[k] = i
  <2>1. chosen \in 1..model_dim(c) /\ c.model_state_indices[chosen] = i  BY <1>4
  <2>2. chosen = j  BY <1>1, <2>1
  <2>3. i \in Range(c.model_state_indices)  BY <1>2
  <2>4. raw[i] = row[chosen]  BY <1>3, <1>4, <2>3
  <2>5. QED  BY <2>2, <2>4
<1>5. ASSUME NEW i \in DOMAIN state, i \notin Range(c.model_state_indices)
      PROVE  raw[i] = state[i]
  BY <1>1, <1>2, <1>3, <1>5
<1>6. DOMAIN raw = DOMAIN state  BY <1>3
<1>7. QED  BY <1>4, <1>5, <1>6 DEF raw

\* The first n values of a raw vector, and n values from a on, as sequences.
Prefix(raw, n) == [i \in 1..n |-> raw[i - 1]]
Field(raw, a, n) == [i \in 1..n |-> raw[a + i - 1]]

\* The beginning of a vector and the field behind it are a longer beginning.
LEMMA Joined ==
    ASSUME NEW raw, NEW a \in Nat, NEW b \in Nat, a <= b
    PROVE  Prefix(raw, a) \o Field(raw, a, b - a) = Prefix(raw, b)
<1> DEFINE s == Prefix(raw, a)
           t == Field(raw, a, b - a)
           S == {s[i] : i \in 1..a} \cup {t[i] : i \in 1..(b - a)}
<1>1. b - a \in Nat /\ a + (b - a) = b  BY SMTT(30)
<1>2. /\ s \in [1..a -> S] /\ t \in [1..(b - a) -> S] /\ DOMAIN s = 1..a /\ DOMAIN t = 1..(b - a)
      /\ \A i \in 1..a : s[i] = raw[i - 1]
      /\ \A i \in 1..(b - a) : t[i] = raw[a + i - 1]
  BY DEF Prefix, Field
<1> HIDE DEF s, t, S
<1>3. s \in Seq(S) /\ t \in Seq(S) /\ Len(s) = a /\ Len(t) = b - a
  <2>1. s \in Seq(S) /\ t \in Seq(S)  BY <1>1, <1>2, SeqIs
  <2>2. Len(s) \in Nat /\ 1..Len(s) = 1..a /\ Len(t) \in Nat /\ 1..Len(t) = 1..(b - a)
    BY <1>2, <2>1, SeqLen
  <2>3. \A m, n \in Nat : 1..m = 1..n => m = n
    <3> SUFFICES ASSUME NEW m \in Nat, NEW n \in Nat, 1..m = 1..n PROVE m = n  OBVIOUS
    <3>1. m # 0 => m \in 1..n  BY SMTT(30)
    <3>2. n # 0 => n \in 1..m  BY SMTT(30)
    <3>3. QED  BY <3>1, <3>2, SMTT(30)
  <2>4. QED  BY <1>1, <2>1, <2>2, <2>3
<1>4. /\ s \o t \in Seq(S) /\ Len(s \o t) = Len(s) + Len(t)
      /\ \A i \in 1..(Len(s) + Len(t)) : (s \o t)[i] = IF i <= Len(s) THEN s[i] ELSE t[i - Len(s)]
  BY <1>3, SeqConcat
<1>5. s \o t \in Seq(S) /\ Len(s \o t) = b /\ \A i \in 1..b : (s \o t)[i] = IF i <= a THEN s[i] ELSE t[i - a]
  BY <1>1, <1>3, <1>4
<1>6. (s \o t) = [i \in 1..b |-> (s \o t)[i]]
  BY <1>5, SeqLen
<1>7. ASSUME NEW i \in 1..b PROVE (s \o t)[i] = raw[i - 1]
  <2>1. CASE i <= a  BY <1>2, <1>5, <2>1, SMTT(30)
  <2>2. CASE ~ i <= a
    <3>1. i - a \in 1..(b - a) /\ a + (i - a) - 1 = i - 1  BY <2>2, SMTT(30)
    <3>2. t[i - a] = raw[i - 1]  BY <1>2, <3>1
    <3>3. QED  BY <1>5, <2>2, <3>2
  <2>3. QED  BY <2>1, <2>2
<1>8. s \o t = Prefix(raw, b)  BY <1>6, <1>7 DEF Prefix
<1>9. QED  BY <1>8 DEF s, t

\* When the named fields tile the vector from its beginning, the command is that beginning.
LEMMA CommandIsPrefix ==
    ASSUME NEW c \in RawRobotContracts, validate(c), Tiles(c), NEW raw
    PROVE  /\ flatten_qpos_action(action_dict(c, raw)) = Prefix(raw, command_action_dim(c))
           /\ command_action_dim(c) \in Nat /\ command_action_dim(c) <= c.raw_action_dim
<1> DEFINE a(k) == c.slices[k][2]
           field(k) == Field(raw, c.slices[k][1], Width(c, k))
<1>1. \A k \in 1..4 : /\ c.slices[k][1] \in Nat /\ a(k) \in Nat /\ c.slices[k][1] < a(k)
                      /\ a(k) <= c.raw_action_dim
  BY ContractParts
<1>2. /\ c.slices[1][1] = 0 /\ c.slices[2][1] = a(1)
      /\ c.slices[3][1] = a(2) /\ c.slices[4][1] = a(3)
  BY SMTT(30) DEF Tiles
<1>3. /\ Width(c, 1) = a(1) /\ Width(c, 2) = a(2) - a(1) /\ Width(c, 3) = a(3) - a(2)
      /\ Width(c, 4) = a(4) - a(3)
  BY <1>1, <1>2, SMTT(30) DEF Width
<1>4. /\ a(1) \in Nat /\ a(2) \in Nat /\ a(3) \in Nat /\ a(4) \in Nat
      /\ a(1) <= a(2) /\ a(2) <= a(3) /\ a(3) <= a(4) /\ a(4) <= c.raw_action_dim
  BY <1>1, <1>2, SMTT(30)
<1>5. flatten_qpos_action(action_dict(c, raw)) = field(1) \o field(2) \o field(3) \o field(4)
  <2>1. action_dict(c, raw) = [k \in 1..4 |-> field(k)]  BY DEF action_dict, Field
  <2> HIDE DEF field
  <2>2. /\ action_dict(c, raw)[1] = field(1) /\ action_dict(c, raw)[2] = field(2)
        /\ action_dict(c, raw)[3] = field(3) /\ action_dict(c, raw)[4] = field(4)
    BY <2>1, SMTT(30)
  <2>3. QED  BY <2>2 DEF flatten_qpos_action
<1>6. field(1) = Prefix(raw, a(1))
  <2>1. \A i \in 1..a(1) : 0 + i - 1 = i - 1  BY <1>4, SMTT(30)
  <2>2. QED  BY <1>2, <1>3, <2>1 DEF Field, Prefix
<1>7. /\ field(2) = Field(raw, a(1), a(2) - a(1)) /\ field(3) = Field(raw, a(2), a(3) - a(2))
      /\ field(4) = Field(raw, a(3), a(4) - a(3))
  BY <1>2, <1>3
<1>8. command_action_dim(c) = a(4)  BY <1>3, <1>4, SMTT(30) DEF command_action_dim
<1> HIDE DEF a, field
<1>9. /\ Prefix(raw, a(1)) \o field(2) = Prefix(raw, a(2))
      /\ Prefix(raw, a(2)) \o field(3) = Prefix(raw, a(3))
      /\ Prefix(raw, a(3)) \o field(4) = Prefix(raw, a(4))
  BY <1>4, <1>7, Joined
<1>10. field(1) \o field(2) \o field(3) \o field(4) = Prefix(raw, a(4))
  BY <1>6, <1>9
<1>11. QED  BY <1>4, <1>5, <1>8, <1>10

-----------------------------------------------------------------------------
(* Robots *)

AtRest(state) == \A i \in held_indices(contract) \cap DOMAIN state : state[i] = 0

\* A state of the robot, in which the joints that the model does not control are at rest.
RobotState(state) ==
    DOMAIN state = Dims(contract.raw_state_dim) /\ (Tiles(contract) => AtRest(state))

\* A chunk has been accepted in this episode.
HasChunk == episode.at = "acting" \/ episode.executed > 0

Taken == environment.steps - asked[episode.source].steps

\* The actions that are left are the rows from the next one on, over the observed state.
Due ==
    \A k \in 1..Len(episode.actions) :
        episode.actions[k] =
            action_dict(contract,
                actions_to_raw(contract, Row(episode.source, Taken + k), current.raw_state))

RobotInv ==
    /\ contract \in RawRobotContracts /\ validate(contract)
    /\ RobotState(environment.raw_state)
    /\ episode.at \in {"inferring", "acting"} => RobotState(current.raw_state)
    /\ HasChunk => /\ Reshapes(contract)
                   /\ episode.source \in 1..calls /\ asked[episode.source].steps \in Nat
    /\ episode.at = "acting" => Due
    /\ RobotFollowsModel


LEMMA PrefixLength ==
    ASSUME NEW raw, NEW n \in Nat
    PROVE  Len(Prefix(raw, n)) = n
<1>1. Prefix(raw, n) = [i \in 1..n |-> Prefix(raw, n)[i]] /\ DOMAIN Prefix(raw, n) = 1..n
  BY DEF Prefix
<1>2. IsSequence(Prefix(raw, n))  BY <1>1, FunctionIsSequence
<1>3. QED  BY <1>1, <1>2, SeqLen, SMTT(30) DEF IsSequence

\* A step that moves nothing, takes no action and accepts no chunk.
LEMMA RobotUnmoved ==
    ASSUME EpisodeTypeOK, RobotInv, environment' = environment, contract' = contract,
           calls \in Nat, calls' \in Nat, calls' >= calls,
           \A id \in 1..calls : asked'[id] = asked[id],
           episode'.source = episode.source, episode'.executed = episode.executed,
           episode'.actions = episode.actions,
           episode'.at = "acting" => episode.at = "acting" /\ current' = current,
           episode'.at = "inferring" =>
              current' = environment \/ (episode.at = "inferring" /\ current' = current)
    PROVE  RobotInv'
<1>1. HasChunk' => HasChunk  BY DEF HasChunk
<1>2. HasChunk => /\ episode.source \in 1..calls /\ episode'.source \in 1..calls'
                  /\ asked'[episode'.source] = asked[episode.source]
  BY SMTT(30) DEF RobotInv
<1>3. HasChunk' => Reshapes(contract') /\ asked'[episode'.source].steps \in Nat
  BY <1>1, <1>2 DEF RobotInv
<1>4. \A state : RobotState(state) => RobotState(state)'
  BY DEF RobotState, AtRest
<1>5. RobotState(environment.raw_state)'  BY DEF RobotInv, RobotState, AtRest
<1>6. episode'.at \in {"inferring", "acting"} => RobotState(current.raw_state)'
  BY DEF RobotInv, RobotState, AtRest
<1>7. HasChunk => Taken' = Taken  BY <1>2 DEF Taken
<1>8. episode'.at = "acting" => Due'
  BY <1>7 DEF RobotInv, Due, HasChunk, Row
<1>9. RobotFollowsModel'
  <2> SUFFICES ASSUME episode'.executed > 0, Tiles(contract') PROVE RobotFollowsModel'
    BY DEF RobotFollowsModel
  <2>1. HasChunk /\ RobotFollowsModel  BY DEF RobotInv, HasChunk
  <2>2. asked'[episode'.source] = asked[episode.source]  BY <1>2, <2>1
  <2>3. QED  BY <2>1, <2>2 DEF RobotFollowsModel
<1>10. QED  BY <1>1, <1>2, <1>3, <1>5, <1>6, <1>8, <1>9 DEF RobotInv

LEMMA QuietSteps ==
    ASSUME EpisodeInv, RobotInv, EpisodeNext, ~ Start, ~ Act, ~ InferAnswered
    PROVE  RobotInv'
<1>1. EpisodeTypeOK /\ calls \in Nat  BY DEF EpisodeInv, ClientInv, TypeOK
<1>2. CASE Observe
  <2>1. /\ environment' = environment /\ contract' = contract /\ current' = environment
        /\ episode' = [episode EXCEPT !.at = "inferring"] /\ CallOf("infer")
    BY <1>2 DEF Observe, get_action, configuration
  <2>2. episode' = [at |-> "inferring", number |-> episode.number, executed |-> episode.executed,
                    actions |-> episode.actions, source |-> episode.source]
    BY <1>1, <2>1, EpisodeFields
  <2>3. calls' = calls + 1 /\ \A id \in 1..calls : asked'[id] = asked[id]
    BY <1>1, <2>1, CallRecorded
  <2>4. QED  BY <1>1, <2>1, <2>2, <2>3, RobotUnmoved, SMTT(30)
<1>3. CASE ObserveRaises \/ LoopEnds \/ ResetAnswered \/ ChunkRefused \/ CallRaises
  <2>1. PICK at \in {"idle", "loop"} : episode' = [episode EXCEPT !.at = at]
    BY <1>3 DEF ObserveRaises, LoopEnds, ResetAnswered, ChunkRefused, CallRaises
  <2>2. environment' = environment /\ contract' = contract /\ asked' = asked
    BY <1>3 DEF ObserveRaises, LoopEnds, ResetAnswered, ChunkRefused, CallRaises, configuration,
                histories
  <2>3. calls' = calls
    BY <1>3 DEF ObserveRaises, LoopEnds, ResetAnswered, ChunkRefused, CallRaises, vars,
       TimesOut,
                Fails, ConnectFails, RefuseHello, Recv, Raise, End
  <2>4. episode' = [at |-> at, number |-> episode.number, executed |-> episode.executed,
                    actions |-> episode.actions, source |-> episode.source]
    BY <1>1, <2>1, EpisodeFields
  <2>5. QED  BY <1>1, <2>2, <2>3, <2>4, RobotUnmoved, SMTT(30)
<1>4. CASE CallProceeds \/ Close \/ Handle \/ Lose
  <2>1. UNCHANGED <<environment, contract, current, episode, asked>>
    BY <1>4 DEF CallProceeds, Close, Handle, Lose, configuration, robot, histories
  <2>2. calls' = calls
    BY <1>4 DEF CallProceeds, Close, Handle, Lose, Connect, Connected, ReceiveHello, Send, close,
                Serve, Break, Proceed, End
  <2>3. QED  BY <1>1, <2>1, <2>2, RobotUnmoved, SMTT(30)
<1>5. QED  BY <1>2, <1>3, <1>4 DEF EpisodeNext

LEMMA StartMoves ==
    ASSUME EpisodeInv, RobotInv, Start
    PROVE  RobotInv'
<1>1. /\ environment' = [steps |-> 0, raw_state |-> Zeros(contract.raw_state_dim)]
      /\ episode' = [at |-> "resetting", number |-> episode.number + 1, executed |-> 0,
                     actions |-> <<>>, source |-> 0]
      /\ contract' = contract
  BY DEF Start, configuration
<1>2. ~ HasChunk'  BY <1>1, SMTT(30) DEF HasChunk
<1>3. RobotState(environment.raw_state)'  BY <1>1 DEF RobotState, AtRest, Zeros
<1>4. QED  BY <1>1, <1>2, <1>3, SMTT(30) DEF RobotInv, RobotFollowsModel

LEMMA ChunkIsDue ==
    ASSUME EpisodeInv, EpisodeInv', RobotInv, InferAnswered
    PROVE  RobotInv'
<1>0. PICK id : id = Head(connection.back).id  OBVIOUS
<1>1. /\ episode.at = "inferring" /\ Reshapes(contract) /\ Accepted
      /\ episode' = [episode EXCEPT !.at = "acting", !.actions = ChunkOf(id), !.source = id]
      /\ UNCHANGED <<environment, contract, current, asked>>
  BY <1>0 DEF InferAnswered, configuration, histories
<1>2. EpisodeTypeOK /\ Calling /\ calls \in Nat  BY DEF EpisodeInv, ClientInv, TypeOK
<1>3. episode' = [at |-> "acting", number |-> episode.number, executed |-> episode.executed,
                  actions |-> ChunkOf(id), source |-> id]
  BY <1>1, <1>2, ChunkFields
<1>4. id = call.id /\ call # None  BY <1>0, <1>1, <1>2 DEF Calling, Accepted
<1>5. id \in 1..calls /\ asked[id].steps = environment.steps /\ environment.steps \in Nat
  BY <1>2, <1>4, SMTT(30) DEF Calling, EpisodeTypeOK
<1>6. calls' = calls  BY DEF InferAnswered, Recv, Raise, End
<1>7. /\ episode'.at = "acting" /\ episode'.actions = ChunkOf(id) /\ episode'.source = id
      /\ Taken' = 0
  BY <1>1, <1>3, <1>5, SMTT(30) DEF Taken
<1>8. RobotState(environment.raw_state)' /\ RobotState(current.raw_state)'
  BY <1>1 DEF RobotInv, RobotState, AtRest
<1>9. Due'
  <2>1. Len(ChunkOf(id)) = ChunkLength /\ ChunkLength \in Nat
    BY <1>2, ChunkIsSequence DEF EpisodeTypeOK
  <2>2. \A k \in 1..ChunkLength : 0 + k = k  BY <2>1, SMTT(30)
  <2>3. \A k \in 1..ChunkLength :
           ChunkOf(id)[k] = action_dict(contract, actions_to_raw(contract, Row(id, k), current.raw_state))
    BY DEF ChunkOf
  <2>4. \A k : Row(id, k)' = Row(id, k)  BY <1>1 DEF Row
  <2>5. QED  BY <1>1, <1>7, <2>1, <2>2, <2>3, <2>4, SMTT(30) DEF Due
<1>10. RobotFollowsModel'
  <2>1. \A i \in held_indices(contract) : i \in Dims(contract.raw_state_dim)
    BY <1>1 DEF held_indices, Reshapes
  <2>2. Tiles(contract') => \A i \in held_indices(contract') : environment'.raw_state[i] = 0
    BY <1>1, <1>8, <2>1 DEF RobotState, AtRest
  <2>3. QED  BY <1>7, <2>2, SMTT(30) DEF RobotFollowsModel, Taken
<1>11. QED  BY <1>1, <1>5, <1>6, <1>7, <1>8, <1>9, <1>10 DEF RobotInv

\* Act: the joints that the model controls go to the row that is due, the others stay.
LEMMA ActMoves ==
    ASSUME EpisodeInv, EpisodeInv', RobotInv, Act
    PROVE  RobotInv'
<1>1. EpisodeTypeOK /\ Calling /\ calls \in Nat  BY DEF EpisodeInv, ClientInv, TypeOK
<1>2. PICK value, rest, at :
         /\ value = flatten_qpos_action(Head(episode.actions)) /\ rest = Tail(episode.actions)
         /\ episode.at = "acting" /\ environment' = take_action(environment, value)
         /\ episode' = [episode EXCEPT !.actions = rest, !.executed = episode.executed + 1, !.at = at]
         /\ at \in {"idle", "loop", "acting"}
         /\ UNCHANGED <<contract, current, asked, calls>>
  BY DEF Act, configuration, histories, vars
<1>3. episode' = [at |-> at, number |-> episode.number, executed |-> episode.executed + 1,
                  actions |-> rest, source |-> episode.source]
  BY <1>1, <1>2, EpisodeFields
<1>4. /\ episode'.at = at /\ episode'.executed = episode.executed + 1 /\ episode'.actions = rest
      /\ episode'.source = episode.source
  BY <1>3
<1>5. /\ Reshapes(contract) /\ episode.source \in 1..calls
      /\ asked[episode.source].steps \in Nat /\ environment.steps \in Nat
      /\ contract \in RawRobotContracts /\ validate(contract)
      /\ RobotState(environment.raw_state) /\ RobotState(current.raw_state) /\ Due
  BY <1>1, <1>2 DEF RobotInv, HasChunk, EpisodeTypeOK
<1>6. environment'.steps = environment.steps + 1 /\ Taken' = Taken + 1 /\ Taken \in Int
  <2>1. environment'.steps = environment.steps + 1  BY <1>2 DEF take_action
  <2>2. asked'[episode'.source].steps = asked[episode.source].steps  BY <1>2, <1>4
  <2>3. QED  BY <1>5, <2>1, <2>2, SMTT(30) DEF Taken
<1>7. /\ IsSequence(episode.actions) /\ episode.actions # <<>>
      /\ Len(episode.actions) \in Nat \ {0} /\ Len(rest) = Len(episode.actions) - 1
      /\ Head(episode.actions) = episode.actions[1]
      /\ \A k \in 1..Len(rest) : rest[k] = episode.actions[k + 1]
  <2>1. IsSequence(episode.actions) /\ episode.actions # <<>>
    BY <1>1, <1>2 DEF EpisodeTypeOK, Calling
  <2>2. Len(episode.actions) \in Nat \ {0} /\ Len(rest) = Len(episode.actions) - 1
    BY <1>2, <2>1, TailIsSequence
  <2>3. /\ Head(episode.actions) = episode.actions[1]
        /\ \A k \in 1..Len(rest) : rest[k] = episode.actions[k + 1]
    BY <1>2, <2>1, SeqHeadTail, SMTT(30) DEF IsSequence
  <2>4. QED  BY <2>1, <2>2, <2>3
<1>8. Due'
  <2>1. PICK taken : taken = Taken  OBVIOUS
  <2>2. ASSUME NEW k \in 1..Len(rest)
        PROVE  rest[k] = action_dict(contract, actions_to_raw(contract,
                            Row(episode.source, taken + 1 + k), current.raw_state))
    <3>1. k + 1 \in 1..Len(episode.actions) /\ taken + (k + 1) = taken + 1 + k
      BY <1>6, <1>7, <2>1, SMTT(30)
    <3>2. episode.actions[k + 1] =
             action_dict(contract, actions_to_raw(contract,
                Row(episode.source, taken + (k + 1)), current.raw_state))
      BY <1>5, <2>1, <3>1 DEF Due
    <3>3. QED  BY <1>7, <3>1, <3>2
  <2>3. Taken' = taken + 1  BY <1>6, <2>1
  <2>4. \A k : Row(episode.source, Taken + k)' = Row(episode.source, taken + 1 + k)
    BY <1>2, <1>4, <2>3, SMTT(30) DEF Row
  <2>5. QED  BY <1>2, <1>4, <2>2, <2>4 DEF Due
<1>9. DOMAIN environment'.raw_state = DOMAIN environment.raw_state
      /\ \A i \in DOMAIN environment.raw_state :
            environment'.raw_state[i] = IF i < Len(value) THEN value[i + 1] ELSE environment.raw_state[i]
  BY <1>2 DEF take_action
<1>10. PICK raw : raw = actions_to_raw(contract, Row(episode.source, Taken + 1), current.raw_state)
  OBVIOUS
<1>11. /\ DOMAIN raw = DOMAIN current.raw_state
       /\ \A j \in 1..model_dim(contract) : contract.model_state_indices[j] \in DOMAIN raw =>
             raw[contract.model_state_indices[j]] = Row(episode.source, Taken + 1)[j]
       /\ \A i \in DOMAIN raw :
             i \notin Range(contract.model_state_indices) => raw[i] = current.raw_state[i]
  BY <1>5, <1>10, RawRow, SMTT(30)
<1>12. ASSUME Tiles(contract)
       PROVE  /\ Len(value) = command_action_dim(contract) /\ command_action_dim(contract) \in Nat
              /\ command_action_dim(contract) <= contract.raw_action_dim
              /\ \A i \in Dims(command_action_dim(contract)) : value[i + 1] = raw[i]
  <2>1. episode.actions[1] = action_dict(contract, raw)
    <3>1. 1 \in 1..Len(episode.actions)  BY <1>7, SMTT(30)
    <3>2. QED  BY <1>5, <1>10, <3>1 DEF Due
  <2>2. /\ value = Prefix(raw, command_action_dim(contract))
        /\ command_action_dim(contract) \in Nat
        /\ command_action_dim(contract) <= contract.raw_action_dim
    BY <1>2, <1>5, <1>7, <1>12, <2>1, CommandIsPrefix
  <2>3. Len(value) = command_action_dim(contract)
    BY <2>2, PrefixLength
  <2>4. \A i \in Dims(command_action_dim(contract)) :
           i + 1 \in 1..command_action_dim(contract) /\ (i + 1) - 1 = i
    BY <2>2, SMTT(30) DEF Dims
  <2>5. \A i \in 1..command_action_dim(contract) : value[i] = raw[i - 1]
    BY <2>2 DEF Prefix
  <2>6. QED  BY <2>2, <2>3, <2>4, <2>5
<1>13. /\ DOMAIN raw = Dims(contract.raw_state_dim)
       /\ DOMAIN environment.raw_state = Dims(contract.raw_state_dim)
       /\ contract.raw_state_dim = contract.raw_action_dim /\ contract.raw_action_dim \in Nat
  BY <1>5, <1>11, ContractParts DEF RobotState, Reshapes
<1>14. ASSUME Tiles(contract), NEW i \in held_indices(contract)
       PROVE  environment'.raw_state[i] = 0
  <2>1. i \in Dims(contract.raw_state_dim) /\ i \notin Range(contract.model_state_indices)
    BY <1>13 DEF held_indices
  <2>2. environment.raw_state[i] = 0 /\ current.raw_state[i] = 0
    BY <1>5, <1>14, <2>1 DEF RobotState, AtRest
  <2>3. raw[i] = 0  BY <1>11, <1>13, <2>1, <2>2
  <2>4. i < Len(value) => value[i + 1] = raw[i]
    BY <1>12, <1>13, <1>14, <2>1, SMTT(30) DEF Dims
  <2>5. QED  BY <1>9, <1>13, <2>1, <2>2, <2>3, <2>4
<1>15. RobotState(environment.raw_state)'
  BY <1>2, <1>9, <1>13, <1>14 DEF RobotState, AtRest
<1>16. ASSUME Tiles(contract), NEW j \in 1..model_dim(contract),
              contract.model_state_indices[j] < command_action_dim(contract)
       PROVE  environment'.raw_state[contract.model_state_indices[j]]
                 = Cell(episode.source, Taken + 1, j)
  <2> DEFINE i == contract.model_state_indices[j]
  <2>1. i \in Nat  BY <1>5, ContractParts
  <2> HIDE DEF i
  <2>2. i < command_action_dim(contract)  BY <1>16 DEF i
  <2>3. i \in Dims(command_action_dim(contract)) /\ i \in Dims(contract.raw_state_dim)
    BY <1>12, <1>13, <1>16, <2>1, <2>2, SMTT(30) DEF Dims
  <2>4. environment'.raw_state[i] = raw[i]
    BY <1>9, <1>12, <1>13, <1>16, <2>2, <2>3
  <2>5. raw[i] = Row(episode.source, Taken + 1)[j]  BY <1>11, <1>13, <2>3 DEF i
  <2>6. Row(episode.source, Taken + 1)[j] = Cell(episode.source, Taken + 1, j)  BY DEF Row
  <2>7. QED  BY <2>4, <2>5, <2>6 DEF i
<1>17. RobotFollowsModel'
  <2> SUFFICES ASSUME Tiles(contract)
               PROVE  /\ \A i \in held_indices(contract) : environment'.raw_state[i] = 0
                      /\ \A j \in 1..model_dim(contract) :
                            contract.model_state_indices[j] < command_action_dim(contract) =>
                               state_to_model(contract, environment'.raw_state)[j]
                                  = Cell(episode.source, Taken + 1, j)
    BY <1>2, <1>4, <1>6 DEF RobotFollowsModel, Taken
  <2>1. \A j \in 1..model_dim(contract) :
           state_to_model(contract, environment'.raw_state)[j]
              = environment'.raw_state[contract.model_state_indices[j]]
    BY DEF state_to_model
  <2>2. QED  BY <1>14, <1>16, <2>1
<1>18. RobotState(current.raw_state)'  BY <1>2, <1>5 DEF RobotState, AtRest
<1>19. QED  BY <1>2, <1>4, <1>5, <1>8, <1>15, <1>17, <1>18 DEF RobotInv

\* The repository's own robot is one that from_mapping() accepts.
LEMMA DazzIsValid == DAZZ_S600_CONTRACT \in RawRobotContracts /\ validate(DAZZ_S600_CONTRACT)
<1> DEFINE indices == <<0, 1, 2, 3, 4, 5, 8, 9, 10, 11, 12, 13, 7, 15>>
           slices == <<<<0, 7>>, <<7, 8>>, <<8, 15>>, <<15, 16>>>>
<1>1. DAZZ_S600_CONTRACT = [raw_state_dim |-> 18, raw_action_dim |-> 18,
                            model_state_indices |-> indices, slices |-> slices]
  BY DEF DAZZ_S600_CONTRACT, Contract
<1>2. slices \in [1..4 -> Nat \X Nat]  BY SMTT(30)
<1>3. \A k \in 1..4 : 0 <= slices[k][1] /\ slices[k][1] < slices[k][2] /\ slices[k][2] <= 18
  BY SMTT(30)
<1>4. indices \in Seq(Nat) /\ Len(indices) = 14 /\ indices # <<>>  BY SMTT(30)
<1>5. DOMAIN indices = 1..14  BY SMTT(30)
<1>6. \A i \in 1..14 : indices[i] \in Dims(18)  BY SMTT(30) DEF Dims
<1>7. \A i, j \in 1..14 : indices[i] = indices[j] => i = j  BY SMTT(30)
<1> HIDE DEF indices, slices
<1>8. DAZZ_S600_CONTRACT \in RawRobotContracts  BY <1>1, <1>2, <1>4 DEF RawRobotContracts
<1>9. IsInjective(indices) /\ Range(indices) \subseteq Dims(18)
  BY <1>5, <1>6, <1>7 DEF IsInjective, Range
<1>10. QED  BY <1>1, <1>3, <1>4, <1>8, <1>9, SMTT(30) DEF validate

LEMMA RobotStarts ==
    ASSUME EpisodeInit
    PROVE  RobotInv
<1>1. contract \in Contracts \cup {DAZZ_S600_CONTRACT}  BY DEF EpisodeInit
<1>2. contract \in RawRobotContracts /\ validate(contract)
  BY <1>1, DazzIsValid, EpisodeAssumption
<1>3. /\ environment = [steps |-> 0, raw_state |-> Zeros(contract.raw_state_dim)]
      /\ episode = [at |-> "idle", number |-> 0, executed |-> 0, actions |-> <<>>, source |-> 0]
  BY DEF EpisodeInit
<1>4. RobotState(environment.raw_state)  BY <1>3 DEF RobotState, AtRest, Zeros
<1>5. ~ HasChunk /\ episode.at = "idle" /\ episode.executed = 0  BY <1>3, SMTT(30) DEF HasChunk
<1>6. QED  BY <1>2, <1>4, <1>5, SMTT(30) DEF RobotInv, RobotFollowsModel

LEMMA RobotInductive ==
    ASSUME EpisodeInv, EpisodeInv', RobotInv, [EpisodeNext]_<<vars, episodeVars>>
    PROVE  RobotInv'
<1>1. CASE EpisodeNext  BY <1>1, QuietSteps, StartMoves, ChunkIsDue, ActMoves
<1>2. CASE UNCHANGED <<vars, episodeVars>>
  <2>1. UNCHANGED <<environment, contract, current, episode, asked, calls>>
    BY <1>2 DEF vars, episodeVars, configuration, robot, histories
  <2>2. EpisodeTypeOK /\ calls \in Nat  BY DEF EpisodeInv, ClientInv, TypeOK
  <2>3. QED  BY <2>1, <2>2, RobotUnmoved, SMTT(30)
<1>3. QED  BY <1>1, <1>2

\* For every robot whose named fields tile its vector, and any horizons: each step moves
\* every joint that the model controls to its own coordinate of the row that is due, and
\* no other joint, through the three layouts of actions_to_raw(), action_dict() and
\* flatten_qpos_action().
THEOREM RobotIsFollowing == EpisodeSpec => []RobotFollowsModel
<1>1. Init /\ EpisodeInit => EpisodeInv /\ RobotInv  BY EpisodeStarts, RobotStarts
<1>2. EpisodeInv /\ [EpisodeNext]_<<vars, episodeVars>> => EpisodeInv'  BY EpisodeInductive
<1>3. EpisodeInv /\ EpisodeInv' /\ RobotInv /\ [EpisodeNext]_<<vars, episodeVars>> => RobotInv'
  BY RobotInductive
<1>4. RobotInv => RobotFollowsModel  BY DEF RobotInv
<1>5. QED  BY <1>1, <1>2, <1>3, <1>4, PTL DEF EpisodeSpec
=============================================================================
