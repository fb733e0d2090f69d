------------------------- MODULE ControlServerProofs -------------------------
(***************************************************************************)
(* Proofs about the control server, for any number of connections and      *)
(* requests (ControlServer): every answer is the answer to its line, and   *)
(* the lines of a connection are handled in the order in which they were   *)
(* written.  And about its socket, for any number of instances of the      *)
(* application (ControlSocket): starts that do not overlap leave one server.*)
(* And about a client at the other end, a loop of ah-use (AgentLoop): it   *)
(* takes no other block for the outcome of its command.                    *)
(***************************************************************************)
EXTENDS ControlServer, ControlSocket, AgentLoop, NaturalInduction, SequenceTheorems

Messages == [req: Requests, to: Requests]

TypeOK ==
  /\ up \in BOOLEAN
  /\ open \in SUBSET Clients
  /\ kindOf \in [Requests -> Kinds]
  /\ serving \in SUBSET Clients
  /\ asked \in [Clients -> Seq(Requests)]
  /\ taken \in [Clients -> Nat]
  /\ waiting \in [Clients -> {0} \cup Requests]
  /\ queue \in Seq(Messages)
  /\ handled \in Seq(Requests)
  /\ replies \in SUBSET Messages
  /\ answers \in [Clients -> Seq([req: Ids, result: Results])]
------------------------------------------------------------------------------
(***************************************************************************)
(* Lines and answers.  A connection's thread has answered every line that  *)
(* it took, but for the one it waits for.                                  *)
(***************************************************************************)
LinesOf(c) ==
  /\ taken[c] <= Len(asked[c])
  /\ waiting[c] # 0 => /\ c \in serving /\ taken[c] # 0 /\ waiting[c] = asked[c][taken[c]]
                        /\ IsRequest(waiting[c])
  /\ c \in serving => Len(answers[c]) = IF waiting[c] = 0 THEN taken[c] ELSE taken[c] - 1
  /\ Len(answers[c]) <= Len(asked[c])
  /\ \A i \in 1..Len(answers[c]) : answers[c][i].req = IdOf(asked[c][i])

\* A reply goes into the channel of its own request (Channel).
OwnChannels ==
  /\ \A i \in 1..Len(queue) : queue[i].to = queue[i].req
  /\ \A m \in replies : m.to = m.req

LinesInv == TypeOK /\ OwnChannels /\ \A c \in Clients : LinesOf(c)

LEMMA InitLines == Init => LinesInv
BY RequestsAssumption DEF Init, Ids, LinesInv, TypeOK, OwnChannels, LinesOf, Requests, Messages

\* The thread answers the line it took last and waits no more.
LEMMA AnswerFits ==
  ASSUME LinesInv, NEW c \in Clients, waiting[c] # 0, NEW a \in [req: Ids, result: Results],
         a.req = waiting[c], WriteResponse(c, a), StopWaiting(c),
         UNCHANGED <<open, kindOf, asked, taken>>
  PROVE  /\ serving' \in SUBSET Clients
         /\ waiting' \in [Clients -> {0} \cup Requests]
         /\ answers' \in [Clients -> Seq([req: Ids, result: Results])]
         /\ \A d \in Clients : LinesOf(d)'
<1>1. waiting' = [waiting EXCEPT ![c] = 0]
  BY DEF StopWaiting
<1>2. /\ asked \in [Clients -> Seq(Requests)] /\ taken \in [Clients -> Nat]
      /\ waiting \in [Clients -> {0} \cup Requests]
      /\ answers \in [Clients -> Seq([req: Ids, result: Results])]
      /\ serving \in SUBSET Clients
      /\ \A d \in Clients : LinesOf(d)
  BY DEF LinesInv, TypeOK
<1>3. CASE c \in open
  <2>1. answers' = [answers EXCEPT ![c] = Append(@, a)] /\ serving' = serving
    BY <1>3 DEF WriteResponse
  <2>2. /\ Len(answers[c]) \in Nat /\ Len(answers[c]) + 1 = taken[c]
        /\ taken[c] <= Len(asked[c]) /\ a.req = IdOf(asked[c][taken[c]])
        /\ \A i \in 1..Len(answers[c]) : answers[c][i].req = IdOf(asked[c][i])
    BY <1>2 DEF LinesOf, IdOf, IsRequest
  <2>3. /\ answers'[c] = Append(answers[c], a)
        /\ Len(answers'[c]) = Len(answers[c]) + 1
        /\ \A i \in 1..Len(answers[c]) : answers'[c][i] = answers[c][i]
        /\ answers'[c][Len(answers[c]) + 1] = a
    BY <1>2, <2>1
  <2>4. \A i \in 1..Len(answers'[c]) : answers'[c][i].req = IdOf(asked[c][i])
    BY <2>2, <2>3
  <2>k. \A r : IdOf(r)' = IdOf(r) /\ IsRequest(r)' = IsRequest(r)
    BY DEF IdOf, IsRequest
  <2>5. LinesOf(c)'
    BY <1>1, <1>2, <2>1, <2>2, <2>3, <2>4, <2>k DEF LinesOf
  <2>6. ASSUME NEW d \in Clients, d # c PROVE LinesOf(d)'
    BY <1>1, <1>2, <2>1, <2>6, <2>k DEF LinesOf
  <2>7. \A d \in Clients : LinesOf(d)'
    BY <2>5, <2>6
  <2>8. answers' \in [Clients -> Seq([req: Ids, result: Results])]
    <3>1. answers[c] \in Seq([req: Ids, result: Results])
      BY <1>2
    <3>2. Append(answers[c], a) \in Seq([req: Ids, result: Results])
      BY <3>1
    <3> QED BY <1>2, <2>1, <3>2
  <2>9. waiting' \in [Clients -> {0} \cup Requests] /\ serving' \in SUBSET Clients
    BY <1>1, <1>2, <2>1
  <2> QED BY <2>7, <2>8, <2>9
<1>4. CASE c \notin open
  <2>1. serving' = serving \ {c} /\ answers' = answers
    BY <1>4 DEF WriteResponse
  <2>2. ASSUME NEW d \in Clients PROVE LinesOf(d)'
    BY <1>1, <1>2, <2>1 DEF LinesOf, IdOf, IsRequest
  <2> QED BY <1>1, <1>2, <2>1, <2>2
<1> QED BY <1>3, <1>4

LEMMA LinesStep == LinesInv /\ [Next]_vars => LinesInv'
<1> SUFFICES ASSUME LinesInv, [Next]_vars PROVE LinesInv'
  OBVIOUS
<1>t. TypeOK /\ OwnChannels /\ \A d \in Clients : LinesOf(d)
  BY DEF LinesInv
<1>req. /\ Requests \subseteq Nat \ {0} /\ Requests \subseteq Ids /\ NoId \in Ids
        /\ {"handled", "timeout", "server_closed", "decode_error"} \subseteq Results
  BY RequestsAssumption DEF Requests, Results, Ids
<1>k. [Next]_vars => kindOf' = kindOf
  BY DEF Next, ThreadStep, vars, WriteLine, Close, QueueRequest, QueueIsClosed, ReplyArrives,
         TimeOut, Disconnected, AnswerUndecodable, ReadFails, WatchEvents, LeaveLoop,
         HandleControlRequest, ShellGone
<1>i. kindOf' = kindOf /\ \A r : IdOf(r)' = IdOf(r) /\ IsRequest(r)' = IsRequest(r)
  BY <1>k DEF IdOf, IsRequest
<1>1. ASSUME NEW c \in Clients, WriteLine(c) PROVE LinesInv'
  <2>1. PICK r \in Requests : asked' = [asked EXCEPT ![c] = Append(@, r)]
    BY <1>1 DEF WriteLine
  <2>2. /\ asked' \in [Clients -> Seq(Requests)]
        /\ Len(asked'[c]) = Len(asked[c]) + 1
        /\ \A i \in 1..Len(asked[c]) : asked'[c][i] = asked[c][i]
        /\ \A d \in Clients : d # c => asked'[d] = asked[d]
    BY <1>t, <2>1 DEF TypeOK
  <2>3. ASSUME NEW d \in Clients PROVE LinesOf(d)'
    <3>0. /\ asked[d] \in Seq(Requests) /\ taken[d] \in Nat
          /\ answers[d] \in Seq([req: Ids, result: Results])
      BY <1>t DEF TypeOK
    <3>l. /\ Len(asked[d]) \in Nat /\ taken[d] \in Nat /\ Len(answers[d]) \in Nat
      BY <3>0
    <3>1. /\ Len(asked'[d]) >= Len(asked[d])
          /\ \A i \in 1..Len(asked[d]) : asked'[d][i] = asked[d][i]
      <4>1. CASE d = c
        BY <2>2, <3>l, <4>1
      <4>2. CASE d # c
        BY <2>2, <3>l, <4>2
      <4> QED BY <4>1, <4>2
    <3>2. taken' = taken /\ waiting' = waiting /\ serving' = serving /\ answers' = answers
      BY <1>1 DEF WriteLine
    <3>3. Len(asked'[d]) \in Nat
      BY <2>2
    <3> QED BY <1>t, <1>i, <3>l, <3>1, <3>2, <3>3 DEF LinesOf
  <2> QED BY <1>t, <1>1, <1>i, <2>2, <2>3 DEF WriteLine, LinesInv, TypeOK, OwnChannels
<1>2. ASSUME NEW c \in Clients, Close(c) PROVE LinesInv'
  BY <1>t, <1>i, <1>2 DEF Close, LinesInv, TypeOK, OwnChannels, LinesOf
<1>3. ASSUME NEW c \in Clients, QueueRequest(c) PROVE LinesInv'
  <2> DEFINE n == asked[c][taken[c] + 1]
             m == [req |-> n, to |-> n]
  <2>1. /\ c \in serving /\ waiting[c] = 0 /\ taken[c] < Len(asked[c])
        /\ taken' = [taken EXCEPT ![c] = @ + 1]
        /\ waiting' = [waiting EXCEPT ![c] = n]
        /\ queue' = Append(queue, m) /\ IsRequest(n)
        /\ UNCHANGED <<up, open, serving, asked, handled, replies, answers>>
    BY <1>3 DEF QueueRequest, CanRead, NextLine, Channel
  <2>2. taken[c] \in Nat /\ n \in Requests /\ m \in Messages
    BY <1>t, <2>1 DEF TypeOK, Messages
  <2>3. /\ queue' \in Seq(Messages)
        /\ Len(queue') = Len(queue) + 1
        /\ queue'[Len(queue) + 1] = m
        /\ \A i \in 1..Len(queue) : queue'[i] = queue[i]
    BY <1>t, <2>1, <2>2 DEF TypeOK
  <2>4. \A i \in 1..Len(queue') : queue'[i].to = queue'[i].req
    <3>1. Len(queue) \in Nat
      BY <1>t DEF TypeOK
    <3> QED BY <1>t, <2>3, <3>1 DEF OwnChannels
  <2>5. ASSUME NEW d \in Clients PROVE LinesOf(d)'
    <3> HIDE DEF n, m
    <3>1. CASE d = c
      <4>1. taken'[c] = taken[c] + 1 /\ waiting'[c] = n /\ n # 0
        BY <1>t, <1>req, <2>1, <2>2 DEF TypeOK
      <4>2. n = asked[c][taken[c] + 1]
        BY DEF n
      <4> QED BY <1>t, <1>i, <2>1, <2>2, <3>1, <4>1, <4>2 DEF LinesOf, TypeOK
    <3>2. CASE d # c
      BY <1>t, <1>i, <2>1, <3>2 DEF LinesOf, TypeOK
    <3> QED BY <3>1, <3>2
  <2>6. taken' \in [Clients -> Nat] /\ waiting' \in [Clients -> {0} \cup Requests]
    BY <1>t, <2>1, <2>2 DEF TypeOK
  <2> QED BY <1>t, <1>i, <2>1, <2>3, <2>4, <2>5, <2>6 DEF LinesInv, TypeOK, OwnChannels
<1>4. ASSUME NEW c \in Clients, QueueIsClosed(c) \/ AnswerUndecodable(c) PROVE LinesInv'
  <2> DEFINE n == asked[c][taken[c] + 1]
  <2>0. /\ c \in serving /\ waiting[c] = 0 /\ taken[c] < Len(asked[c])
        /\ taken' = [taken EXCEPT ![c] = @ + 1]
        /\ UNCHANGED <<up, open, asked, waiting, queue, handled, replies>>
    BY <1>4 DEF QueueIsClosed, AnswerUndecodable, CanRead
  <2>2. taken[c] \in Nat /\ n \in Requests
    BY <1>t, <2>0 DEF TypeOK
  <2>p. PICK a \in [req: Ids, result: Results] : a.req = IdOf(n) /\ WriteResponse(c, a)
    <3>1. CASE QueueIsClosed(c)
      <4> DEFINE a == [req |-> n, result |-> "server_closed"]
      <4>1. a \in [req: Ids, result: Results] /\ a.req = n
        BY <1>req, <2>2
      <4>2. IdOf(n) = n /\ WriteResponse(c, a)
        BY <3>1 DEF QueueIsClosed, IsRequest, IdOf, NextLine, Answer
      <4> HIDE DEF a
      <4> QED BY <4>1, <4>2
    <3>2. CASE AnswerUndecodable(c)
      <4> DEFINE a == [req |-> NoId, result |-> "decode_error"]
      <4>1. a \in [req: Ids, result: Results] /\ a.req = NoId
        BY <1>req
      <4>2. IdOf(n) = NoId /\ WriteResponse(c, a)
        BY <3>2 DEF AnswerUndecodable, IdOf, NextLine, Answer
      <4> HIDE DEF a
      <4> QED BY <4>1, <4>2
    <3> QED BY <1>4, <3>1, <3>2
  <2>1. /\ c \in serving /\ waiting[c] = 0 /\ taken[c] < Len(asked[c])
        /\ taken' = [taken EXCEPT ![c] = @ + 1]
        /\ WriteResponse(c, a)
        /\ UNCHANGED <<up, open, asked, waiting, queue, handled, replies>>
    BY <2>0, <2>p
  <2>3. /\ Len(answers[c]) = taken[c]
        /\ \A i \in 1..Len(answers[c]) : answers[c][i].req = IdOf(asked[c][i])
    BY <1>t, <2>1 DEF LinesOf
  <2>4. taken' \in [Clients -> Nat]
    BY <1>t, <2>1, <2>2 DEF TypeOK
  <2>n. n = asked[c][taken[c] + 1]
    OBVIOUS
  <2> HIDE DEF n
  <2>5. CASE c \in open
    <3>1. answers' = [answers EXCEPT ![c] = Append(@, a)] /\ serving' = serving
      BY <2>1, <2>5 DEF WriteResponse
    <3>t. answers \in [Clients -> Seq([req: Ids, result: Results])]
      BY <1>t DEF TypeOK
    <3>s. answers[c] \in Seq([req: Ids, result: Results])
      BY <3>t
    <3>a. answers'[c] = Append(answers[c], a)
      BY <3>t, <3>1
    <3>b. answers' \in [Clients -> Seq([req: Ids, result: Results])]
      <4>1. Append(answers[c], a) \in Seq([req: Ids, result: Results])
        BY <3>s
      <4> QED BY <3>t, <3>1, <4>1
    <3>2. /\ answers' \in [Clients -> Seq([req: Ids, result: Results])]
          /\ Len(answers'[c]) = Len(answers[c]) + 1
          /\ \A i \in 1..Len(answers[c]) : answers'[c][i] = answers[c][i]
          /\ answers'[c][Len(answers[c]) + 1] = a
      <4>1. Len(Append(answers[c], a)) = Len(answers[c]) + 1
        BY <3>s
      <4>2. \A i \in 1..Len(answers[c]) : Append(answers[c], a)[i] = answers[c][i]
        BY <3>s
      <4>3. Append(answers[c], a)[Len(answers[c]) + 1] = a
        BY <3>s
      <4> QED BY <3>a, <3>b, <4>1, <4>2, <4>3
    <3>3. \A i \in 1..Len(answers'[c]) : answers'[c][i].req = IdOf(asked[c][i])
      <4>1. Len(answers[c]) \in Nat
        BY <3>s
      <4>2. ASSUME NEW i \in 1..Len(answers'[c]) PROVE answers'[c][i].req = IdOf(asked[c][i])
        <5>1. CASE i \in 1..Len(answers[c])
          BY <2>3, <3>2, <5>1
        <5>2. CASE i = Len(answers[c]) + 1
          BY <2>p, <2>3, <2>n, <3>2, <5>2
        <5> QED BY <3>2, <4>1, <5>1, <5>2
      <4> QED BY <4>2
    <3>4. LinesOf(c)'
      BY <1>t, <1>i, <2>1, <2>2, <2>3, <3>1, <3>2, <3>3 DEF LinesOf, TypeOK
    <3>5. ASSUME NEW d \in Clients, d # c PROVE LinesOf(d)'
      BY <1>t, <1>i, <2>1, <3>1, <3>5 DEF LinesOf, TypeOK
    <3> QED BY <1>t, <1>i, <2>1, <2>4, <3>1, <3>2, <3>4, <3>5 DEF LinesInv, TypeOK, OwnChannels
  <2>6. CASE c \notin open
    <3>1. serving' = serving \ {c} /\ answers' = answers
      BY <2>1, <2>6 DEF WriteResponse
    <3>2. ASSUME NEW d \in Clients PROVE LinesOf(d)'
      BY <1>t, <1>i, <2>1, <2>2, <3>1 DEF LinesOf, TypeOK
    <3> QED BY <1>t, <1>i, <2>1, <2>4, <3>1, <3>2 DEF LinesInv, TypeOK, OwnChannels
  <2> QED BY <2>5, <2>6
<1>5. ASSUME NEW c \in Clients, ReplyArrives(c) PROVE LinesInv'
  <2>1. PICK m \in replies :
          /\ m.to = waiting[c]
          /\ replies' = replies \ {m}
          /\ WriteResponse(c, [req |-> m.req, result |-> "handled"])
    BY <1>5 DEF ReplyArrives, Channel, Answer
  <2>2. /\ waiting[c] # 0 /\ StopWaiting(c)
        /\ UNCHANGED <<up, open, asked, taken, queue, handled>>
    BY <1>5 DEF ReplyArrives
  <2>3. m.req \in Requests /\ m.req = waiting[c]
    BY <1>t, <2>1 DEF TypeOK, Messages, OwnChannels
  <2> DEFINE a == [req |-> m.req, result |-> "handled"]
  <2>4. a \in [req: Ids, result: Results] /\ a.req = waiting[c] /\ WriteResponse(c, a)
    BY <1>req, <2>1, <2>3
  <2> HIDE DEF a
  <2>5. /\ serving' \in SUBSET Clients
        /\ waiting' \in [Clients -> {0} \cup Requests]
        /\ answers' \in [Clients -> Seq([req: Ids, result: Results])]
        /\ \A d \in Clients : LinesOf(d)'
    BY <1>i, <2>2, <2>4, AnswerFits
  <2> QED BY <1>t, <1>i, <2>1, <2>2, <2>5 DEF LinesInv, TypeOK, OwnChannels
<1>6. ASSUME NEW c \in Clients, TimeOut(c) \/ Disconnected(c) PROVE LinesInv'
  <2>1. PICK result \in {"timeout", "server_closed"} :
          WriteResponse(c, [req |-> waiting[c], result |-> result])
    BY <1>6 DEF TimeOut, Disconnected, Answer
  <2>2. /\ waiting[c] # 0 /\ StopWaiting(c)
        /\ UNCHANGED <<up, open, asked, taken, queue, handled, replies>>
    BY <1>6 DEF TimeOut, Disconnected
  <2> DEFINE a == [req |-> waiting[c], result |-> result]
  <2>3. a \in [req: Ids, result: Results] /\ a.req = waiting[c] /\ WriteResponse(c, a)
    BY <1>t, <1>req, <2>1, <2>2 DEF TypeOK
  <2> HIDE DEF a
  <2>4. /\ serving' \in SUBSET Clients
        /\ waiting' \in [Clients -> {0} \cup Requests]
        /\ answers' \in [Clients -> Seq([req: Ids, result: Results])]
        /\ \A d \in Clients : LinesOf(d)'
    BY <1>i, <2>2, <2>3, AnswerFits
  <2> QED BY <1>t, <1>i, <2>2, <2>4 DEF LinesInv, TypeOK, OwnChannels
<1>7. CASE HandleControlRequest
  <2>1. /\ queue # <<>> /\ queue' = Tail(queue)
        /\ handled' = Append(handled, Head(queue).req)
        /\ replies' \subseteq replies \cup {Head(queue)}
        /\ UNCHANGED <<up, open, serving, asked, taken, waiting, answers>>
    BY <1>7 DEF HandleControlRequest, Reply
  <2>2. /\ Head(queue) \in Messages /\ Head(queue) = queue[1] /\ 1 \in 1..Len(queue)
        /\ queue' \in Seq(Messages)
        /\ \A i \in 1..Len(queue') : i + 1 \in 1..Len(queue) /\ queue'[i] = queue[i + 1]
    BY <1>t, <2>1 DEF TypeOK
  <2>3. handled' \in Seq(Requests)
    BY <1>t, <2>1, <2>2 DEF TypeOK, Messages
  <2>4. OwnChannels'
    BY <1>t, <2>1, <2>2 DEF OwnChannels
  <2>5. \A d \in Clients : LinesOf(d)'
    BY <1>t, <1>i, <2>1 DEF LinesOf
  <2> QED BY <1>t, <1>i, <2>1, <2>2, <2>3, <2>4, <2>5 DEF LinesInv, TypeOK
<1>8. CASE ShellGone
  <2>1. /\ up' = FALSE /\ queue' = <<>>
        /\ UNCHANGED <<open, serving, asked, taken, waiting, handled, replies, answers>>
    BY <1>8 DEF ShellGone
  <2>2. queue' \in Seq(Messages) /\ Len(queue') = 0
    BY <2>1
  <2>3. TypeOK'
    BY <1>t, <1>i, <2>1, <2>2 DEF TypeOK
  <2>4. OwnChannels'
    BY <1>t, <2>1, <2>2 DEF OwnChannels
  <2>5. \A d \in Clients : LinesOf(d)'
    BY <1>t, <1>i, <2>1 DEF LinesOf
  <2> QED BY <2>3, <2>4, <2>5 DEF LinesInv
<1>9. ASSUME NEW c \in Clients, ReadFails(c) \/ WatchEvents(c) PROVE LinesInv'
  <2>1. /\ waiting[c] = 0 /\ taken[c] < Len(asked[c])
        /\ taken' = [taken EXCEPT ![c] = @ + 1] /\ serving' = serving \ {c}
        /\ UNCHANGED <<up, open, asked, waiting, queue, handled, replies, answers>>
    BY <1>9 DEF ReadFails, WatchEvents, LeaveLoop, CanRead
  <2>2. taken' \in [Clients -> Nat] /\ taken'[c] = taken[c] + 1
    BY <1>t, <2>1 DEF TypeOK
  <2>3. ASSUME NEW d \in Clients PROVE LinesOf(d)'
    BY <1>t, <1>i, <2>1, <2>2 DEF LinesOf, TypeOK
  <2> QED BY <1>t, <1>i, <2>1, <2>2, <2>3 DEF LinesInv, TypeOK, OwnChannels
<1>10. CASE UNCHANGED vars
  BY <1>t, <1>i, <1>10 DEF vars, LinesInv, TypeOK, OwnChannels, LinesOf
<1> QED
  BY <1>1, <1>2, <1>3, <1>4, <1>5, <1>6, <1>7, <1>8, <1>9, <1>10 DEF Next, ThreadStep

\* The n-th answer on a connection belongs to its n-th line, whatever kinds of
\* lines the clients write, however late
\* replies come and whoever goes away: a reply has a channel of its own, so a
\* late one is never taken for the next request's.
THEOREM AnswersFitLines == Spec => []AnswersMatchLines
<1>1. LinesInv => AnswersMatchLines
  <2> SUFFICES ASSUME LinesInv, NEW c \in Clients
               PROVE  /\ Len(answers[c]) <= Len(asked[c])
                      /\ \A i \in DOMAIN answers[c] : answers[c][i].req = IdOf(asked[c][i])
    BY DEF AnswersMatchLines
  <2>1. answers[c] \in Seq([req: Ids, result: Results])
    BY DEF LinesInv, TypeOK
  <2>2. DOMAIN answers[c] = 1..Len(answers[c])
    BY <2>1
  <2>3. LinesOf(c)
    BY DEF LinesInv
  <2> QED BY <2>2, <2>3 DEF LinesOf
<1> QED BY <1>1, InitLines, LinesStep, PTL DEF Spec
------------------------------------------------------------------------------
(***************************************************************************)
(* The order of requests.  Arrived(k) is the k-th request that the UI      *)
(* thread handled or will handle: handling moves a request from the queue  *)
(* to the handled ones and leaves this order alone.                        *)
(***************************************************************************)
Arrivals == Len(handled) + Len(queue)
Arrived(k) == IF k <= Len(handled) THEN handled[k] ELSE queue[k - Len(handled)].req

\* A request is one line of one connection.
LinesDiffer ==
  \A c, d \in Clients : \A i \in 1..Len(asked[c]), j \in 1..Len(asked[d]) :
    asked[c][i] = asked[d][j] => c = d /\ i = j

ArrivedOnce == \A k, l \in 1..Arrivals : Arrived(k) = Arrived(l) => k = l

ArrivedWasTaken ==
  \A k \in 1..Arrivals : \E c \in Clients : \E i \in 1..taken[c] : Arrived(k) = asked[c][i]

\* While there is a shell, no request that a thread took is missing.
TakenHasArrived ==
  up => \A c \in Clients : \A i \in 1..taken[c] :
          IsRequest(asked[c][i]) => \E k \in 1..Arrivals : Arrived(k) = asked[c][i]

ArrivedInOrder ==
  \A c \in Clients : \A i, j \in 1..Len(asked[c]) : \A k \in 1..Arrivals :
    i < j /\ IsRequest(asked[c][i]) /\ Arrived(k) = asked[c][j] =>
      \E l \in 1..(k - 1) : Arrived(l) = asked[c][i]

HandledIsSaid ==
  /\ \A m \in replies : IsHandled(m.req)
  /\ \A c \in Clients : \A i \in 1..Len(answers[c]) :
       answers[c][i].result = "handled" => IsHandled(answers[c][i].req)

OrderInv == /\ LinesDiffer /\ ArrivedOnce /\ ArrivedWasTaken
            /\ TakenHasArrived /\ ArrivedInOrder

\* What the lines and the arrivals are after a step that neither adds a line nor
\* an arrival: any prefix of the arrivals is in order again.
LEMMA PrefixIsInOrder ==
  ASSUME LinesInv, LinesInv', OrderInv, asked' = asked, kindOf' = kindOf,
         \A c \in Clients : taken'[c] >= taken[c],
         Arrivals' \in 0..Arrivals,
         \A k \in 1..Arrivals' : Arrived(k)' = Arrived(k),
         up' => /\ up /\ Arrivals' = Arrivals
                /\ \A c \in Clients : \A i \in 1..taken'[c] :
                     IsRequest(asked[c][i]) => i \in 1..taken[c]
  PROVE  OrderInv'
<1>1. /\ \A c \in Clients : taken[c] \in Nat /\ taken'[c] \in Nat
      /\ Arrivals \in Nat /\ Arrivals' \in Nat
  BY DEF LinesInv, TypeOK, Arrivals
<1>2. LinesDiffer'
  BY DEF OrderInv, LinesDiffer
<1>3. ArrivedOnce'
  BY <1>1 DEF OrderInv, ArrivedOnce
<1>4. ArrivedWasTaken'
  <2> SUFFICES ASSUME NEW k \in 1..Arrivals'
               PROVE  \E c \in Clients : \E i \in 1..taken'[c] : Arrived(k)' = asked[c][i]
    BY DEF ArrivedWasTaken
  <2>1. k \in 1..Arrivals /\ Arrived(k)' = Arrived(k)
    BY <1>1
  <2>2. PICK c \in Clients : \E i \in 1..taken[c] : Arrived(k) = asked[c][i]
    BY <2>1 DEF OrderInv, ArrivedWasTaken
  <2>4. PICK i \in 1..taken[c] : Arrived(k) = asked[c][i]
    BY <2>2
  <2>3. i \in 1..taken'[c]
    BY <1>1
  <2> QED BY <2>1, <2>3, <2>4
<1>5. TakenHasArrived'
  BY <1>1 DEF OrderInv, TakenHasArrived, IsRequest
<1>6. ArrivedInOrder'
  <2> SUFFICES ASSUME NEW c \in Clients, NEW i \in 1..Len(asked[c]), NEW j \in 1..Len(asked[c]),
                      NEW k \in 1..Arrivals', i < j, Arrived(k)' = asked[c][j],
                      IsRequest(asked[c][i])
               PROVE  \E l \in 1..(k - 1) : Arrived(l)' = asked[c][i]
    BY DEF ArrivedInOrder, IsRequest
  <2>1. k \in 1..Arrivals /\ Arrived(k) = asked[c][j]
    BY <1>1
  <2>2. PICK l \in 1..(k - 1) : Arrived(l) = asked[c][i]
    BY <2>1 DEF OrderInv, ArrivedInOrder
  <2>3. l \in 1..Arrivals'
    BY <1>1
  <2> QED BY <2>2, <2>3
<1> QED BY <1>2, <1>3, <1>4, <1>5, <1>6 DEF OrderInv

\* A new line has a number that no line has, and no arrival either.
LEMMA WriteKeepsOrder ==
  ASSUME LinesInv, LinesInv', OrderInv, NEW c \in Clients, WriteLine(c)
  PROVE  OrderInv'
<1>1. PICK r \in Requests \ Written : asked' = [asked EXCEPT ![c] = Append(@, r)]
  BY DEF WriteLine
<1>2. UNCHANGED <<up, kindOf, taken, queue, handled>>
  BY DEF WriteLine
<1>3. asked \in [Clients -> Seq(Requests)] /\ asked' \in [Clients -> Seq(Requests)]
  BY DEF LinesInv, TypeOK
<1>a. asked[c] \in Seq(Requests) /\ asked'[c] = Append(asked[c], r)
  BY <1>1, <1>3
<1>4. /\ \A d \in Clients : Len(asked[d]) \in Nat
      /\ Len(asked'[c]) = Len(asked[c]) + 1 /\ asked'[c][Len(asked[c]) + 1] = r
      /\ \A i \in 1..Len(asked[c]) : asked'[c][i] = asked[c][i]
      /\ \A d \in Clients : d # c => asked'[d] = asked[d]
  BY <1>1, <1>3, <1>a
<1>5. \A d \in Clients : \A i \in 1..Len(asked[d]) : asked[d][i] # r
  <2> SUFFICES ASSUME NEW d \in Clients, NEW i \in 1..Len(asked[d]) PROVE asked[d][i] \in Written
    OBVIOUS
  <2>1. i \in DOMAIN asked[d]
    BY <1>3
  <2> QED BY <2>1 DEF Written
<1>6. \A d \in Clients : \A i \in 1..taken[d] : i \in 1..Len(asked[d]) /\ asked'[d][i] = asked[d][i]
  <2> TAKE d \in Clients
  <2>1. taken[d] \in Nat /\ taken[d] <= Len(asked[d])
    BY DEF LinesInv, TypeOK, LinesOf
  <2>2. \A i \in 1..Len(asked[d]) : asked'[d][i] = asked[d][i]
    BY <1>4
  <2> QED BY <1>4, <2>1, <2>2
<1>7. Arrivals' = Arrivals /\ \A k : Arrived(k)' = Arrived(k)
  BY <1>2 DEF Arrivals, Arrived
<1>8. \A k \in 1..Arrivals : Arrived(k) # r
  <2> TAKE k \in 1..Arrivals
  <2>1. PICK d \in Clients : \E i \in 1..taken[d] : Arrived(k) = asked[d][i]
    BY DEF OrderInv, ArrivedWasTaken
  <2> QED BY <1>5, <1>6, <2>1
<1>w. ASSUME NEW d \in Clients, NEW i \in 1..Len(asked'[d])
      PROVE  \/ i \in 1..Len(asked[d]) /\ asked'[d][i] = asked[d][i]
             \/ d = c /\ i = Len(asked[c]) + 1 /\ asked'[d][i] = r
  <2>1. CASE d = c
    <3>1. i \in 1..(Len(asked[c]) + 1) /\ Len(asked[c]) \in Nat
      BY <1>4, <2>1
    <3>2. i \in 1..Len(asked[c]) \/ i = Len(asked[c]) + 1
      BY <3>1
    <3> QED BY <1>4, <2>1, <3>2
  <2>2. CASE d # c
    BY <1>4, <2>2
  <2> QED BY <2>1, <2>2
<1>9. LinesDiffer'
  <2> SUFFICES ASSUME NEW d \in Clients, NEW e \in Clients,
                      NEW i \in 1..Len(asked'[d]), NEW j \in 1..Len(asked'[e]),
                      asked'[d][i] = asked'[e][j]
               PROVE  d = e /\ i = j
    BY DEF LinesDiffer
  <2>1. \/ i \in 1..Len(asked[d]) /\ asked'[d][i] = asked[d][i]
        \/ d = c /\ i = Len(asked[c]) + 1 /\ asked'[d][i] = r
    BY <1>w
  <2>2. \/ j \in 1..Len(asked[e]) /\ asked'[e][j] = asked[e][j]
        \/ e = c /\ j = Len(asked[c]) + 1 /\ asked'[e][j] = r
    BY <1>w
  <2> QED BY <1>5, <2>1, <2>2 DEF OrderInv, LinesDiffer
<1>10. ArrivedOnce'
  BY <1>7 DEF OrderInv, ArrivedOnce
<1>11. ArrivedWasTaken'
  BY <1>2, <1>6, <1>7 DEF OrderInv, ArrivedWasTaken
<1>12. TakenHasArrived'
  BY <1>2, <1>6, <1>7 DEF OrderInv, TakenHasArrived, IsRequest
<1>13. ArrivedInOrder'
  <2> SUFFICES ASSUME NEW d \in Clients, NEW i \in 1..Len(asked'[d]), NEW j \in 1..Len(asked'[d]),
                      NEW k \in 1..Arrivals, i < j, Arrived(k) = asked'[d][j],
                      IsRequest(asked'[d][i])
               PROVE  \E l \in 1..(k - 1) : Arrived(l) = asked'[d][i]
    BY <1>2, <1>7 DEF ArrivedInOrder, IsRequest
  <2>1. j \in 1..Len(asked[d]) /\ asked'[d][j] = asked[d][j]
    BY <1>8, <1>w
  <2>2. i \in 1..Len(asked[d]) /\ asked'[d][i] = asked[d][i]
    <3>1. Len(asked[d]) \in Nat
      BY <1>4
    <3>2. i \in 1..Len(asked[d])
      BY <2>1, <3>1
    <3> QED BY <1>4, <3>2
  <2> QED BY <2>1, <2>2 DEF OrderInv, ArrivedInOrder
<1> QED BY <1>9, <1>10, <1>11, <1>12, <1>13 DEF OrderInv

\* The line a thread takes arrives last, behind all the lines before it.
LEMMA QueueKeepsOrder ==
  ASSUME LinesInv, LinesInv', OrderInv, NEW c \in Clients, QueueRequest(c)
  PROVE  OrderInv'
<1> DEFINE n == asked[c][taken[c] + 1]
<1>1. /\ up /\ taken[c] < Len(asked[c]) /\ taken' = [taken EXCEPT ![c] = @ + 1]
      /\ queue' = Append(queue, [req |-> n, to |-> n])
      /\ UNCHANGED <<up, kindOf, asked, handled>>
  BY DEF QueueRequest, CanRead, NextLine, Channel
<1>2. /\ taken \in [Clients -> Nat] /\ queue \in Seq(Messages) /\ handled \in Seq(Requests)
      /\ asked \in [Clients -> Seq(Requests)]
  BY DEF LinesInv, TypeOK
<1>3. /\ \A d \in Clients : taken[d] \in Nat /\ taken[d] <= Len(asked[d]) /\ Len(asked[d]) \in Nat
      /\ Len(handled) \in Nat /\ Len(queue) \in Nat /\ Arrivals \in Nat
  BY <1>2 DEF LinesInv, LinesOf, Arrivals
<1>n. n = asked[c][taken[c] + 1] /\ taken[c] + 1 \in 1..Len(asked[c])
  BY <1>1, <1>3
<1> DEFINE m == [req |-> n, to |-> n]
<1>m. m.req = n /\ queue' = Append(queue, m)
  BY <1>1
<1> HIDE DEF n, m
<1>q. n \in Requests /\ m \in Messages
  BY <1>2, <1>n DEF m, Messages
<1>4. /\ Len(queue') = Len(queue) + 1 /\ queue'[Len(queue) + 1] = m
      /\ \A i \in 1..Len(queue) : queue'[i] = queue[i]
  BY <1>2, <1>m, <1>q
<1>5. Arrivals' = Arrivals + 1
  BY <1>1, <1>3, <1>4 DEF Arrivals
<1>6. \A k \in 1..(Arrivals + 1) : k = Arrivals + 1 => Arrived(k)' = n
  BY <1>1, <1>3, <1>4, <1>m DEF Arrived, Arrivals
<1>7. \A k \in 1..Arrivals : Arrived(k)' = Arrived(k)
  BY <1>1, <1>3, <1>4 DEF Arrived, Arrivals
<1>8. /\ taken'[c] = taken[c] + 1
      /\ \A d \in Clients : d # c => taken'[d] = taken[d]
      /\ \A d \in Clients : \A i \in 1..taken[d] : i \in 1..taken'[d] /\ i \in 1..Len(asked[d])
  BY <1>1, <1>2, <1>3
<1>9. \A k \in 1..Arrivals : Arrived(k) # n
  <2> SUFFICES ASSUME NEW k \in 1..Arrivals, Arrived(k) = n PROVE FALSE
    OBVIOUS
  <2>1. PICK d \in Clients : \E i \in 1..taken[d] : Arrived(k) = asked[d][i]
    BY DEF OrderInv, ArrivedWasTaken
  <2>2. PICK i \in 1..taken[d] : Arrived(k) = asked[d][i]
    BY <2>1
  <2>3. d = c /\ i = taken[c] + 1
    BY <1>8, <1>n, <2>2 DEF OrderInv, LinesDiffer
  <2> QED BY <1>3, <2>3
<1>10. LinesDiffer'
  BY <1>1 DEF OrderInv, LinesDiffer
<1>11. ArrivedOnce'
  <2> SUFFICES ASSUME NEW k \in 1..(Arrivals + 1), NEW l \in 1..(Arrivals + 1),
                      Arrived(k)' = Arrived(l)'
               PROVE  k = l
    BY <1>5 DEF ArrivedOnce
  <2> QED BY <1>3, <1>6, <1>7, <1>9 DEF OrderInv, ArrivedOnce
<1>12. ArrivedWasTaken'
  <2> SUFFICES ASSUME NEW k \in 1..(Arrivals + 1)
               PROVE  \E d \in Clients : \E i \in 1..taken'[d] : Arrived(k)' = asked[d][i]
    BY <1>1, <1>5 DEF ArrivedWasTaken
  <2>1. CASE k \in 1..Arrivals
    BY <1>7, <1>8, <2>1 DEF OrderInv, ArrivedWasTaken
  <2>2. CASE k = Arrivals + 1
    <3>1. taken[c] + 1 \in 1..taken'[c]
      BY <1>3, <1>8
    <3> QED BY <1>6, <1>n, <2>2, <3>1
  <2> QED BY <1>3, <2>1, <2>2
<1>13. TakenHasArrived'
  <2> SUFFICES ASSUME NEW d \in Clients, NEW i \in 1..taken'[d], IsRequest(asked[d][i])
               PROVE  \E k \in 1..(Arrivals + 1) : Arrived(k)' = asked[d][i]
    BY <1>1, <1>5 DEF TakenHasArrived, IsRequest
  <2>1. CASE i \in 1..taken[d]
    <3>1. PICK k \in 1..Arrivals : Arrived(k) = asked[d][i]
      BY <1>1, <2>1 DEF OrderInv, TakenHasArrived
    <3> QED BY <1>3, <1>7, <3>1
  <2>2. CASE i \notin 1..taken[d]
    <3>1. d = c /\ i = taken[c] + 1
      BY <1>3, <1>8, <2>2
    <3> QED BY <1>3, <1>6, <1>n, <3>1
  <2> QED BY <2>1, <2>2
<1>14. ArrivedInOrder'
  <2> SUFFICES ASSUME NEW d \in Clients, NEW i \in 1..Len(asked[d]), NEW j \in 1..Len(asked[d]),
                      NEW k \in 1..(Arrivals + 1), i < j, Arrived(k)' = asked[d][j],
                      IsRequest(asked[d][i])
               PROVE  \E l \in 1..(k - 1) : Arrived(l)' = asked[d][i]
    BY <1>1, <1>5 DEF ArrivedInOrder, IsRequest
  <2>1. CASE k \in 1..Arrivals
    <3>1. PICK l \in 1..(k - 1) : Arrived(l) = asked[d][i]
      BY <1>7, <2>1 DEF OrderInv, ArrivedInOrder
    <3>2. l \in 1..Arrivals
      BY <1>3, <2>1
    <3> QED BY <1>7, <3>1, <3>2
  <2>2. CASE k = Arrivals + 1
    <3>1. d = c /\ j = taken[c] + 1
      BY <1>6, <1>n, <2>2 DEF OrderInv, LinesDiffer
    <3>2. i \in 1..taken[c]
      BY <1>3, <3>1
    <3>3. PICK l \in 1..Arrivals : Arrived(l) = asked[c][i]
      <4>1. IsRequest(asked[c][i])
        BY <3>1
      <4> QED BY <1>1, <3>2, <4>1 DEF OrderInv, TakenHasArrived
    <3>4. l \in 1..(k - 1)
      BY <1>3, <2>2
    <3> QED BY <1>7, <3>1, <3>3, <3>4
  <2>3. k \in 1..Arrivals \/ k = Arrivals + 1
    BY <1>3
  <2> QED BY <2>1, <2>2, <2>3
<1> QED BY <1>10, <1>11, <1>12, <1>13, <1>14 DEF OrderInv

\* Handling and losing the queue: the arrivals stay, or their handled part stays.
LEMMA UIKeepsOrder ==
  ASSUME LinesInv, LinesInv', OrderInv, HandleControlRequest \/ ShellGone
  PROVE  OrderInv'
<1>1. /\ queue \in Seq(Messages) /\ handled \in Seq(Requests)
      /\ Len(queue) \in Nat /\ Len(handled) \in Nat
      /\ \A c \in Clients : taken[c] \in Nat
  BY DEF LinesInv, TypeOK
<1>2. asked' = asked /\ taken' = taken /\ kindOf' = kindOf
  BY DEF HandleControlRequest, ShellGone
<1>3. CASE HandleControlRequest
  <2>1. /\ queue # <<>> /\ queue' = Tail(queue) /\ up' = up
        /\ handled' = Append(handled, Head(queue).req)
    BY <1>3 DEF HandleControlRequest
  <2>m. Head(queue) \in Messages
    BY <1>1, <2>1
  <2>2. /\ Head(queue) = queue[1] /\ Head(queue).req \in Requests /\ Len(queue) >= 1
        /\ Len(queue') = Len(queue) - 1
        /\ \A i \in 1..Len(queue') : queue'[i] = queue[i + 1]
    <3>1. Head(queue).req \in Requests
      BY <2>m DEF Messages
    <3> QED BY <1>1, <2>1, <3>1
  <2>3. /\ Len(handled') = Len(handled) + 1 /\ handled'[Len(handled) + 1] = queue[1].req
        /\ \A i \in 1..Len(handled) : handled'[i] = handled[i]
    BY <1>1, <2>1, <2>2
  <2>4. Arrivals' = Arrivals /\ Arrivals \in Nat
    BY <1>1, <2>2, <2>3 DEF Arrivals
  <2>5. ASSUME NEW k \in 1..Arrivals PROVE Arrived(k)' = Arrived(k)
    <3>1. CASE k <= Len(handled)
      BY <1>1, <2>3, <2>4, <3>1 DEF Arrived
    <3>2. CASE k = Len(handled) + 1
      BY <1>1, <2>2, <2>3, <3>2 DEF Arrived
    <3>3. CASE k > Len(handled) + 1
      <4>1. k - Len(handled') \in 1..Len(queue') /\ (k - Len(handled')) + 1 = k - Len(handled)
        BY <1>1, <2>2, <2>3, <2>4, <3>3 DEF Arrivals
      <4>2. queue'[k - Len(handled')] = queue[k - Len(handled)]
        BY <2>2, <4>1
      <4> QED BY <1>1, <2>3, <2>4, <3>3, <4>2 DEF Arrived
    <3> QED BY <1>1, <2>4, <3>1, <3>2, <3>3
  <2>6. Arrivals' \in 0..Arrivals
    BY <2>4
  <2> QED BY <1>1, <1>2, <2>1, <2>4, <2>5, <2>6, PrefixIsInOrder
<1>4. CASE ShellGone
  <2>1. queue' = <<>> /\ handled' = handled /\ up' = FALSE
    BY <1>4 DEF ShellGone
  <2>2. Arrivals' = Len(handled)
    BY <1>1, <2>1 DEF Arrivals
  <2>3. Arrivals' \in 0..Arrivals /\ \A k \in 1..Arrivals' : Arrived(k)' = Arrived(k)
    BY <1>1, <2>1, <2>2 DEF Arrivals, Arrived
  <2> QED BY <1>1, <1>2, <2>1, <2>3, PrefixIsInOrder
<1> QED BY <1>3, <1>4

LEMMA OrderStep == LinesInv /\ LinesInv' /\ OrderInv /\ [Next]_vars => OrderInv'
<1> SUFFICES ASSUME LinesInv, LinesInv', OrderInv, [Next]_vars PROVE OrderInv'
  OBVIOUS
<1>t. Arrivals \in Nat /\ \A c \in Clients : taken[c] \in Nat /\ taken \in [Clients -> Nat]
  BY DEF LinesInv, TypeOK, Arrivals
<1>1. ASSUME UNCHANGED <<up, kindOf, asked, taken, queue, handled>> PROVE OrderInv'
  <2>1. Arrivals' = Arrivals /\ \A k : Arrived(k)' = Arrived(k)
    BY <1>1 DEF Arrivals, Arrived
  <2> QED BY <1>t, <1>1, <2>1, PrefixIsInOrder
<1>2. ASSUME NEW c \in Clients,
             QueueIsClosed(c) \/ AnswerUndecodable(c) \/ ReadFails(c) \/ WatchEvents(c)
      PROVE  OrderInv'
  <2>1. /\ up => ~IsRequest(asked[c][taken[c] + 1])
        /\ taken' = [taken EXCEPT ![c] = @ + 1]
        /\ UNCHANGED <<up, kindOf, asked, queue, handled>>
    BY <1>2 DEF QueueIsClosed, AnswerUndecodable, ReadFails, WatchEvents, LeaveLoop, IsRequest,
                NextLine
  <2>2. Arrivals' = Arrivals /\ \A k : Arrived(k)' = Arrived(k)
    BY <2>1 DEF Arrivals, Arrived
  <2>3. \A d \in Clients : taken'[d] >= taken[d]
    BY <1>t, <2>1
  <2>4. up => \A d \in Clients : \A i \in 1..taken'[d] :
                IsRequest(asked[d][i]) => i \in 1..taken[d]
    BY <1>t, <2>1
  <2> QED BY <1>t, <2>1, <2>2, <2>3, <2>4, PrefixIsInOrder
<1>3. ASSUME NEW c \in Clients,
             Close(c) \/ ReplyArrives(c) \/ TimeOut(c) \/ Disconnected(c)
      PROVE  OrderInv'
  <2>1. UNCHANGED <<up, kindOf, asked, taken, queue, handled>>
    BY <1>3 DEF Close, ReplyArrives, TimeOut, Disconnected
  <2> QED BY <1>1, <2>1
<1>4. CASE UNCHANGED vars
  BY <1>1, <1>4 DEF vars
<1> QED BY <1>2, <1>3, <1>4, WriteKeepsOrder, QueueKeepsOrder, UIKeepsOrder DEF Next, ThreadStep

NextIsHandled(r) == \E i \in DOMAIN handled' : handled'[i] = r

\* What is handled stays handled.
LEMMA HandledGrows ==
  ASSUME LinesInv, [Next]_vars, NEW r, IsHandled(r)
  PROVE  NextIsHandled(r)
<1>1. handled \in Seq(Requests)
  BY DEF LinesInv, TypeOK
<1>2. CASE HandleControlRequest
  <2>0. queue # <<>> /\ queue \in Seq(Messages) /\ handled' = Append(handled, Head(queue).req)
    BY <1>2 DEF HandleControlRequest, LinesInv, TypeOK
  <2>m. Head(queue) \in Messages
    BY <2>0
  <2>1. handled' = Append(handled, Head(queue).req) /\ Head(queue).req \in Requests
    BY <2>0, <2>m DEF Messages
  <2>2. PICK i \in DOMAIN handled : handled[i] = r
    BY DEF IsHandled
  <2>3. i \in DOMAIN handled' /\ handled'[i] = handled[i]
    BY <1>1, <2>1
  <2> QED BY <2>2, <2>3 DEF NextIsHandled
<1>3. CASE UNCHANGED handled
  BY <1>3 DEF IsHandled, NextIsHandled
<1>4. HandleControlRequest \/ UNCHANGED handled
  BY DEF Next, ThreadStep, vars, WriteLine, Close, QueueRequest, QueueIsClosed, ReplyArrives,
         TimeOut, Disconnected, AnswerUndecodable, ReadFails, WatchEvents, LeaveLoop, ShellGone
<1> QED BY <1>2, <1>3, <1>4

LEMMA SaidStep ==
  ASSUME LinesInv, LinesInv', HandledIsSaid, [Next]_vars
  PROVE  HandledIsSaid'
<1>t. /\ answers \in [Clients -> Seq([req: Ids, result: Results])]
      /\ \A c \in Clients : answers[c] \in Seq([req: Ids, result: Results])
  BY DEF LinesInv, TypeOK
<1>1. \A m \in replies : NextIsHandled(m.req)
  BY HandledGrows DEF HandledIsSaid
<1>2. \A c \in Clients : \A i \in 1..Len(answers[c]) :
        answers[c][i].result = "handled" => NextIsHandled(answers[c][i].req)
  BY HandledGrows DEF HandledIsSaid
\* A thread writes an answer, and what it says is true.
<1>3. ASSUME NEW c \in Clients, NEW a \in [req: Ids, result: Results], WriteResponse(c, a),
             a.result = "handled" => NextIsHandled(a.req), replies' \subseteq replies
      PROVE  HandledIsSaid'
  <2>1. CASE c \in open
    <3>1. answers' = [answers EXCEPT ![c] = Append(@, a)]
      BY <1>3, <2>1 DEF WriteResponse
    <3>2. answers'[c] = Append(answers[c], a) /\ \A d \in Clients : d # c => answers'[d] = answers[d]
      BY <1>t, <3>1
    <3>3. answers[c] \in Seq([req: Ids, result: Results])
      BY <1>t
    <3>4. Len(answers[c]) \in Nat /\ Len(Append(answers[c], a)) = Len(answers[c]) + 1
      BY <3>3
    <3>5. \A i \in 1..Len(answers[c]) : Append(answers[c], a)[i] = answers[c][i]
      BY <3>3
    <3>6. Append(answers[c], a)[Len(answers[c]) + 1] = a
      BY <3>3
    <3>7. ASSUME NEW i \in 1..Len(answers'[c]), answers'[c][i].result = "handled"
          PROVE  NextIsHandled(answers'[c][i].req)
      <4>1. CASE i \in 1..Len(answers[c])
        <5>1. answers'[c][i] = answers[c][i]
          BY <3>2, <3>5, <4>1
        <5> QED BY <1>2, <3>7, <4>1, <5>1
      <4>2. CASE i = Len(answers[c]) + 1
        <5>1. answers'[c][i] = a
          BY <3>2, <3>6, <4>2
        <5> QED BY <1>3, <3>7, <5>1
      <4> QED BY <3>2, <3>4, <4>1, <4>2
    <3>8. ASSUME NEW d \in Clients, d # c, NEW i \in 1..Len(answers'[d]),
                 answers'[d][i].result = "handled"
          PROVE  NextIsHandled(answers'[d][i].req)
      <4>1. answers'[d] = answers[d]
        BY <3>2, <3>8
      <4> QED BY <1>2, <3>8, <4>1
    <3>9. \A d \in Clients : \A i \in 1..Len(answers'[d]) :
            answers'[d][i].result = "handled" => NextIsHandled(answers'[d][i].req)
      BY <3>7, <3>8
    <3> QED BY <1>1, <1>3, <3>9 DEF HandledIsSaid, IsHandled, NextIsHandled
  <2>2. CASE c \notin open
    <3>1. answers' = answers
      BY <1>3, <2>2 DEF WriteResponse
    <3> QED BY <1>1, <1>2, <1>3, <3>1 DEF HandledIsSaid, IsHandled, NextIsHandled
  <2> QED BY <2>1, <2>2
<1>4. ASSUME NEW c \in Clients, ReplyArrives(c) PROVE HandledIsSaid'
  <2>1. PICK m \in replies :
          replies' = replies \ {m} /\ WriteResponse(c, [req |-> m.req, result |-> "handled"])
    BY <1>4 DEF ReplyArrives, Answer
  <2>2. m.req \in Requests /\ NextIsHandled(m.req)
    BY <1>1 DEF LinesInv, TypeOK, Messages
  <2> DEFINE a == [req |-> m.req, result |-> "handled"]
  <2>3. a \in [req: Ids, result: Results] /\ a.req = m.req /\ WriteResponse(c, a)
    BY <2>1, <2>2 DEF Results, Ids
  <2> HIDE DEF a
  <2> QED BY <1>3, <2>1, <2>2, <2>3
<1>5. ASSUME NEW c \in Clients,
             TimeOut(c) \/ Disconnected(c) \/ QueueIsClosed(c) \/ AnswerUndecodable(c)
      PROVE  HandledIsSaid'
  <2>1. PICK result \in {"timeout", "server_closed", "decode_error"}, r \in Ids :
          WriteResponse(c, [req |-> r, result |-> result])
    <3>1. waiting[c] # 0 => waiting[c] \in Requests
      BY DEF LinesInv, TypeOK
    <3>2. CanRead(c) => NextLine(c) \in Requests
      BY DEF CanRead, NextLine, LinesInv, TypeOK
    <3> QED
      BY <1>5, <3>1, <3>2 DEF TimeOut, Disconnected, QueueIsClosed, AnswerUndecodable, Answer, Ids
  <2> DEFINE a == [req |-> r, result |-> result]
  <2>2. a \in [req: Ids, result: Results] /\ a.result # "handled" /\ WriteResponse(c, a)
    BY <2>1 DEF Results
  <2>3. replies' = replies
    BY <1>5 DEF TimeOut, Disconnected, QueueIsClosed, AnswerUndecodable
  <2> HIDE DEF a
  <2> QED BY <1>3, <2>2, <2>3
<1>6. CASE HandleControlRequest
  <2>1. /\ queue # <<>> /\ handled' = Append(handled, Head(queue).req)
        /\ replies' \subseteq replies \cup {Head(queue)} /\ answers' = answers
    BY <1>6 DEF HandleControlRequest, Reply
  <2>2. queue \in Seq(Messages) /\ handled \in Seq(Requests)
    BY DEF LinesInv, TypeOK
  <2>3. Head(queue) \in Messages
    BY <2>1, <2>2
  <2>4. Head(queue).req \in Requests
    BY <2>3 DEF Messages
  <2>5. /\ Len(handled) + 1 \in DOMAIN handled'
        /\ handled'[Len(handled) + 1] = Head(queue).req
    BY <2>1, <2>2, <2>4
  <2>6. NextIsHandled(Head(queue).req)
    BY <2>5 DEF NextIsHandled
  <2> QED BY <1>1, <1>2, <2>1, <2>6 DEF HandledIsSaid, IsHandled, NextIsHandled
<1>7. CASE UNCHANGED <<replies, answers>>
  BY <1>1, <1>2, <1>7 DEF HandledIsSaid, IsHandled, NextIsHandled
<1>8. \/ UNCHANGED <<replies, answers>>
      \/ HandleControlRequest
      \/ \E c \in Clients : \/ ReplyArrives(c) \/ TimeOut(c) \/ Disconnected(c)
                            \/ QueueIsClosed(c) \/ AnswerUndecodable(c)
  BY DEF Next, ThreadStep, vars, WriteLine, Close, QueueRequest, ReadFails, WatchEvents, LeaveLoop,
         ShellGone
<1> QED BY <1>4, <1>5, <1>6, <1>7, <1>8

ServerInv == LinesInv /\ OrderInv /\ HandledIsSaid

LEMMA InitServer == Init => ServerInv
<1> SUFFICES ASSUME Init PROVE OrderInv /\ HandledIsSaid
  BY InitLines DEF ServerInv
<1>1. /\ \A c \in Clients : Len(asked[c]) = 0 /\ Len(answers[c]) = 0 /\ taken[c] = 0
      /\ Len(queue) = 0 /\ Len(handled) = 0 /\ replies = {}
  BY DEF Init
<1>2. Arrivals = 0
  BY <1>1 DEF Arrivals
<1> QED BY <1>1, <1>2 DEF OrderInv, LinesDiffer, ArrivedOnce, ArrivedWasTaken, TakenHasArrived,
           ArrivedInOrder, HandledIsSaid

LEMMA OrderIsKept == ServerInv => HandledInOrder
<1> SUFFICES ASSUME ServerInv PROVE HandledInOrder
  OBVIOUS
<1>1. /\ \A c \in Clients : answers[c] \in Seq([req: Ids, result: Results])
      /\ \A c \in Clients : asked[c] \in Seq(Requests)
      /\ handled \in Seq(Requests) /\ queue \in Seq(Messages)
  BY DEF ServerInv, LinesInv, TypeOK
<1>2. /\ \A c \in Clients : DOMAIN answers[c] = 1..Len(answers[c])
      /\ \A c \in Clients : DOMAIN asked[c] = 1..Len(asked[c])
      /\ DOMAIN handled = 1..Len(handled) /\ Len(handled) \in Nat /\ Len(queue) \in Nat
  BY <1>1
<1>3. \A k \in 1..Len(handled) : k \in 1..Arrivals /\ Arrived(k) = handled[k]
  BY <1>2 DEF Arrivals, Arrived
\* A request is handled once, so that its position is the only one.
<1>4. ASSUME NEW k \in 1..Len(handled) PROVE Position(handled[k]) = k
  <2>1. \A l \in DOMAIN handled : handled[l] = handled[k] => l = k
    BY <1>2, <1>3 DEF ServerInv, OrderInv, ArrivedOnce
  <2>2. k \in DOMAIN handled
    BY <1>2
  <2> QED BY <2>1, <2>2 DEF Position
<1>5. ASSUME NEW c \in Clients, NEW i \in DOMAIN asked[c], NEW j \in DOMAIN asked[c],
             i < j, IsRequest(asked[c][i]), IsHandled(asked[c][j])
      PROVE  IsHandled(asked[c][i]) /\ Position(asked[c][i]) < Position(asked[c][j])
  <2>1. PICK k \in 1..Len(handled) : handled[k] = asked[c][j]
    BY <1>2, <1>5 DEF IsHandled
  <2>2. PICK l \in 1..(k - 1) : Arrived(l) = asked[c][i]
    BY <1>2, <1>3, <1>5, <2>1 DEF ServerInv, OrderInv, ArrivedInOrder
  <2>3. l \in 1..Len(handled) /\ l < k
    BY <1>2
  <2>4. handled[l] = asked[c][i]
    BY <1>3, <2>2, <2>3
  <2>5. Position(asked[c][i]) = l /\ Position(asked[c][j]) = k
    BY <1>4, <2>1, <2>3, <2>4
  <2> QED BY <1>2, <2>3, <2>4, <2>5 DEF IsHandled
<1> QED BY <1>2, <1>5 DEF HandledInOrder, ServerInv, HandledIsSaid

\* For any number of connections and requests: "handled" is never said of a
\* request that was not, and requests of a connection are handled in the order
\* in which their lines were written, each once, though their thread may long
\* have given up waiting for them.
THEOREM RequestsInOrder == Spec => []HandledInOrder
<1>1. ServerInv /\ [Next]_vars => ServerInv'
  BY LinesStep, OrderStep, SaidStep DEF ServerInv
<1> QED BY <1>1, InitServer, OrderIsKept, PTL DEF Spec
------------------------------------------------------------------------------
(***************************************************************************)
(* The path of the socket.                                                 *)
(***************************************************************************)
\* What a start that nobody disturbs may rely on: what it found at the path is
\* still there when it acts on it.  Only an exit can change the path meanwhile,
\* and an exit leaves a stale file where a live one was.
Undisturbed ==
  ~overlapped =>
    /\ \A i, j \in Instances : pc[i] \in Starting /\ pc[j] \in Starting => i = j
    /\ \A i \in Instances : pc[i] = "remove" => file \in {NoFile, StaleFile}
    /\ \A i \in Instances : pc[i] = "bind" => file = NoFile
    /\ \A i \in Instances : pc[i] = "serving" => file = SocketOf(i)

SocketInv == SocketTypeOK /\ Undisturbed

LEMMA SocketStarts == SocketInit => SocketInv
BY DEF SocketInit, SocketInv, SocketTypeOK, Undisturbed, Starting

\* The path names one thing only.
LEMMA OneName ==
  /\ NoFile # StaleFile
  /\ \A i : SocketOf(i) # NoFile /\ SocketOf(i) # StaleFile
  /\ \A i, j : SocketOf(i) = SocketOf(j) => i = j
<1>1. <<>> # <<{}>> /\ \A i : <<{i}>> # <<>>
  OBVIOUS
<1>2. ASSUME NEW i, <<{i}>> = <<{}>> PROVE FALSE
  <2>1. <<{i}>>[1] = <<{}>>[1]
    BY <1>2
  <2> QED BY <2>1
<1>3. ASSUME NEW i, NEW j, <<{i}>> = <<{j}>> PROVE i = j
  <2>1. <<{i}>>[1] = <<{j}>>[1]
    BY <1>3
  <2> QED BY <2>1
<1> QED BY <1>1, <1>2, <1>3 DEF NoFile, StaleFile, SocketOf

LEMMA SocketStep == SocketInv /\ [SocketNext]_socketVars => SocketInv'
<1> SUFFICES ASSUME SocketTypeOK, Undisturbed, [SocketNext]_socketVars
             PROVE  SocketTypeOK' /\ Undisturbed'
  BY DEF SocketInv
<1> USE OneName DEF Starting, Goto
<1>1. ASSUME NEW i \in Instances, Launch(i) PROVE SocketTypeOK' /\ Undisturbed'
  BY <1>1 DEF Launch, SocketTypeOK, Undisturbed
<1>2. ASSUME NEW i \in Instances, PathExists(i) PROVE SocketTypeOK' /\ Undisturbed'
  BY <1>2 DEF PathExists, SocketTypeOK, Undisturbed
<1>3. ASSUME NEW i \in Instances, TryConnect(i) PROVE SocketTypeOK' /\ Undisturbed'
  BY <1>3 DEF TryConnect, Live, SocketTypeOK, Undisturbed
<1>4. ASSUME NEW i \in Instances, RemoveFile(i) PROVE SocketTypeOK' /\ Undisturbed'
  BY <1>4 DEF RemoveFile, SocketTypeOK, Undisturbed
<1>5. ASSUME NEW i \in Instances, Bind(i) PROVE SocketTypeOK' /\ Undisturbed'
  BY <1>5 DEF Bind, SocketTypeOK, Undisturbed
<1>6. ASSUME NEW i \in Instances, Exit(i) PROVE SocketTypeOK' /\ Undisturbed'
  BY <1>6 DEF Exit, SocketTypeOK, Undisturbed
<1>7. CASE UNCHANGED socketVars
  BY <1>7 DEF socketVars, SocketTypeOK, Undisturbed
<1> QED
  BY <1>1, <1>2, <1>3, <1>4, <1>5, <1>6, <1>7 DEF SocketNext, StartStep

\* Starts that do not overlap leave at most one control server, the one that the
\* path names, however many instances there are.
THEOREM SerialStartsAreSafe == SocketSpec => []SerialStartsExclude
<1>1. SocketInv => SerialStartsExclude
  BY DEF SocketInv, Undisturbed, SerialStartsExclude, Servers
<1> QED BY <1>1, SocketStarts, SocketStep, PTL DEF SocketSpec
------------------------------------------------------------------------------
(***************************************************************************)
(* The loops of ah-use.  What a loop takes for the outcome of its command  *)
(* keeps its number and stays its outcome: blocks are only put on top, and *)
(* a block that is done stays as it is.                                    *)
(***************************************************************************)
IsRecord(x) ==
  x = [open |-> x.open, alive |-> x.alive, at |-> x.at, blocks |-> x.blocks,
       ring |-> x.ring, unread |-> x.unread, typed |-> x.typed, shown |-> x.shown]
IsSession(x) ==
  /\ IsRecord(x)
  /\ \E S : x.blocks \in Seq(S)
  /\ x.at \in Nat
  /\ x.at <= Len(x.blocks)

\* The blocks of x are among those of y, under their numbers.
Keeps(x, y) ==
  /\ Len(x.blocks) <= Len(y.blocks)
  /\ \A id \in 1 .. Len(x.blocks) :
       /\ BlockOf(y, id).of = BlockOf(x, id).of
       /\ BlockOf(x, id).done => BlockOf(y, id).done

\* The sequences of blocks.
LEMMA BlocksParts ==
  ASSUME NEW x, IsSession(x)
  PROVE  /\ Len(x.blocks) \in Nat /\ x.at \in Nat /\ x.at <= Len(x.blocks)
         /\ DOMAIN x.blocks = 1 .. Len(x.blocks)
  <1>1. PICK S : x.blocks \in Seq(S)
    BY DEF IsSession
  <1>2. x.at \in Nat /\ x.at <= Len(x.blocks)
    BY DEF IsSession
  <1> QED  BY <1>1, <1>2

\* A sequence of blocks, with one more among them.
LEMMA BlocksWith ==
  ASSUME NEW x, IsSession(x), NEW b
  PROVE  \E S : x.blocks \in Seq(S) /\ b \in S
  <1>1. PICK S : x.blocks \in Seq(S)
    BY DEF IsSession
  <1> DEFINE T == S \cup {b}
  <1>2. x.blocks \in Seq(T) /\ b \in T
    BY <1>1, SeqMonotonic
  <1> QED  BY <1>2

LEMMA BlocksOfAnother ==
  ASSUME NEW x, IsSession(x), NEW y, IsRecord(y), y.blocks = x.blocks, y.at = x.at
  PROVE  IsSession(y)
  BY DEF IsSession

\* A step that leaves the blocks alone.
LEMMA SameBlocks ==
  ASSUME NEW x, IsSession(x), NEW y, y.blocks = x.blocks
  PROVE  Keeps(x, y)
  BY BlocksParts DEF Keeps, BlockOf

LEMMA KeepsOn ==
  ASSUME NEW x, IsSession(x), NEW y, IsSession(y), NEW z, IsSession(z), Keeps(x, y), Keeps(y, z)
  PROVE  Keeps(x, z)
  <1>1. Len(x.blocks) \in Nat /\ Len(y.blocks) \in Nat /\ Len(z.blocks) \in Nat
    BY BlocksParts
  <1>2. Len(x.blocks) <= Len(z.blocks) /\ \A id \in 1 .. Len(x.blocks) : id \in 1 .. Len(y.blocks)
    BY <1>1 DEF Keeps
  <1> QED  BY <1>2 DEF Keeps

\* A block on top.
OnTop(x, b, y) == y.blocks = <<b>> \o x.blocks

LEMMA OnTopIs ==
  ASSUME NEW x, IsSession(x), NEW b, NEW y, OnTop(x, b, y)
  PROVE  /\ \E S : y.blocks \in Seq(S)
         /\ Len(y.blocks) = Len(x.blocks) + 1
         /\ y.blocks[1] = b /\ Keeps(x, y) /\ y.blocks # x.blocks /\ y.blocks # <<>>
  <1> DEFINE one == <<b>>
             all == one \o x.blocks
             n == Len(x.blocks)
  <1>0. PICK S : x.blocks \in Seq(S) /\ b \in S
    BY BlocksWith
  <1>1. one \in Seq(S) /\ Len(one) = 1 /\ one[1] = b
    BY <1>0
  <1>2. x.blocks \in Seq(S) /\ n \in Nat
    BY <1>0, BlocksParts
  <1> HIDE DEF one
  <1>3. /\ all \in Seq(S) /\ Len(all) = Len(one) + n
        /\ \A i \in 1 .. Len(one) + n : all[i] = IF i <= Len(one) THEN one[i] ELSE x.blocks[i - Len(one)]
    BY <1>1, <1>2, ConcatProperties
  <1>4. y.blocks = all
    BY DEF OnTop, one
  <1> HIDE DEF all
  <1>5. y.blocks \in Seq(S) /\ Len(y.blocks) = n + 1 /\ y.blocks[1] = b
        /\ \A i \in 1 .. n : y.blocks[i + 1] = x.blocks[i]
    <2>1. 1 \in 1 .. Len(one) + n /\ 1 <= Len(one)
      BY <1>1, <1>2
    <2>2. ASSUME NEW i \in 1 .. n PROVE y.blocks[i + 1] = x.blocks[i]
      <3>1. i + 1 \in 1 .. Len(one) + n /\ ~(i + 1 <= Len(one)) /\ (i + 1) - Len(one) = i
        BY <1>1, <1>2
      <3> QED  BY <1>3, <1>4, <3>1
    <2> QED  BY <1>1, <1>2, <1>3, <1>4, <2>1, <2>2
  <1>6. ASSUME NEW id \in 1 .. n PROVE BlockOf(y, id) = BlockOf(x, id)
    <2>1. n + 1 - id \in 1 .. n /\ (n + 1) + 1 - id = (n + 1 - id) + 1
      BY <1>2
    <2> QED  BY <1>5, <2>1 DEF BlockOf
  <1>7. Keeps(x, y)
    BY <1>2, <1>5, <1>6 DEF Keeps
  <1>8. y.blocks # x.blocks /\ y.blocks # <<>>
    <2>1. Len(y.blocks) # Len(x.blocks) /\ Len(y.blocks) # 0
      BY <1>2, <1>5
    <2> QED  BY <2>1
  <1> QED  BY <1>5, <1>7, <1>8

\* The ring says something.
LEMMA NotifiedIs ==
  ASSUME NEW x, IsSession(x), NEW ring, NEW y, y = Notified(x, ring)
  PROVE  /\ IsSession(y) /\ Keeps(x, y) /\ y.blocks = x.blocks /\ y.at = x.at /\ y.ring = ring
         /\ y.alive = x.alive /\ y.open = x.open
  <1>1. y.blocks = x.blocks /\ y.at = x.at /\ y.ring = ring /\ y.alive = x.alive /\ y.open = x.open
        /\ IsSession(y)
    <2>1. IsRecord(x)
      BY DEF IsSession
    <2>2. IsRecord(y) /\ y.blocks = x.blocks /\ y.at = x.at /\ y.ring = ring /\ y.alive = x.alive
          /\ y.open = x.open
      BY <2>1 DEF Notified, IsRecord
    <2> QED  BY <2>2, BlocksOfAnother
  <1> QED  BY <1>1, SameBlocks

\* The running command's block is closed.
LEMMA ClosedIs ==
  ASSUME NEW x, IsSession(x), NEW says \in BOOLEAN, NEW y, y = Closed(x, says)
  PROVE  /\ IsSession(y) /\ Keeps(x, y) /\ y.at = 0 /\ y.ring = x.ring
         /\ Len(y.blocks) = Len(x.blocks)
         /\ x.at # 0 => y.blocks[x.at].done
         /\ \A i \in 1 .. Len(x.blocks) : x.blocks[i].done => y.blocks[i].done
         /\ \A i \in 1 .. Len(x.blocks) : y.blocks[i].of = x.blocks[i].of
  <1> DEFINE n == Len(x.blocks)
  <1>1. n \in Nat /\ x.at \in Nat /\ x.at <= n /\ DOMAIN x.blocks = 1 .. n
    BY BlocksParts
  <1>2. CASE x.at = 0
    <2>1. y = x
      BY <1>2 DEF Closed
    <2> QED  BY <1>1, <1>2, <2>1, SameBlocks
  <1>3. CASE x.at # 0
    <2> DEFINE b == x.blocks[x.at]
               c == Block(b.of, TRUE, says)
               blocks == [x.blocks EXCEPT ![x.at] = c]
    <2>1. x.at \in 1 .. n
      BY <1>1, <1>3
    <2>2. c.done /\ c.of = b.of
      BY DEF Block
    <2>0. PICK S : x.blocks \in Seq(S) /\ c \in S
      BY BlocksWith
    <2>3. y = [x EXCEPT !.blocks[x.at] = Block(x.blocks[x.at].of, TRUE, says), !.at = 0]
      BY <1>3 DEF Closed
    <2>4. y = [x EXCEPT !.blocks[x.at] = c, !.at = 0]
      BY <2>3
    <2> HIDE DEF c
    <2>10. IsRecord(x)
      BY DEF IsSession
    <2>5. y = [x EXCEPT !.blocks = blocks, !.at = 0]
      <3>1. y.blocks = blocks /\ y.at = 0
        BY <2>10, <2>4 DEF IsRecord
      <3> QED  BY <2>10, <2>4, <3>1 DEF IsRecord
    <2>6. /\ blocks \in Seq(S) /\ Len(blocks) = n
          /\ blocks[x.at] = c /\ \A i \in 1 .. n : i # x.at => blocks[i] = x.blocks[i]
      BY <2>0, <2>1, ExceptSeq
    <2> HIDE DEF blocks
    <2>7. IsSession(y) /\ y.blocks = blocks /\ y.at = 0 /\ y.ring = x.ring
      <3>1. IsRecord(y) /\ y.blocks = blocks /\ y.at = 0 /\ y.ring = x.ring
        BY <2>10, <2>5 DEF IsRecord
      <3>2. y.at <= Len(y.blocks)
        BY <1>1, <2>6, <3>1
      <3> QED  BY <2>6, <3>1, <3>2 DEF IsSession
    <2>8. \A i \in 1 .. n : y.blocks[i].of = x.blocks[i].of /\ (x.blocks[i].done => y.blocks[i].done)
      BY <2>1, <2>2, <2>6, <2>7
    <2>9. ASSUME NEW id \in 1 .. n
          PROVE  BlockOf(y, id).of = BlockOf(x, id).of /\ (BlockOf(x, id).done => BlockOf(y, id).done)
      <3>1. n + 1 - id \in 1 .. n /\ Len(y.blocks) = n
        BY <1>1, <2>6, <2>7
      <3> QED  BY <2>8, <3>1 DEF BlockOf
    <2> QED  BY <1>1, <1>3, <2>2, <2>6, <2>7, <2>8, <2>9 DEF Keeps
  <1> QED  BY <1>2, <1>3

\* A block is put on top.
Topped(x, b, at, typed) == [x EXCEPT !.blocks = <<b>> \o x.blocks, !.at = at, !.typed = typed]

LEMMA TopIs ==
  ASSUME NEW x, IsSession(x), NEW b, NEW at \in Nat, at <= Len(x.blocks) + 1,
         NEW typed, NEW y, y = Topped(x, b, at, typed)
  PROVE  /\ IsSession(y) /\ Keeps(x, y) /\ y.at = at /\ y.ring = x.ring /\ y.alive = x.alive
         /\ Len(y.blocks) = Len(x.blocks) + 1 /\ y.blocks[1] = b
         /\ y.blocks # x.blocks /\ y.blocks # <<>>
  <1>0. IsRecord(x)
    BY DEF IsSession
  <1>1. /\ IsRecord(y) /\ y.blocks = <<b>> \o x.blocks
        /\ y.at = at /\ y.ring = x.ring /\ y.alive = x.alive
    BY <1>0 DEF IsRecord, Topped
  <1>2. OnTop(x, b, y)
    BY <1>1 DEF OnTop
  <1>4. /\ \E S : y.blocks \in Seq(S)
        /\ Len(y.blocks) = Len(x.blocks) + 1
        /\ y.blocks[1] = b /\ Keeps(x, y) /\ y.blocks # x.blocks /\ y.blocks # <<>>
    BY <1>2, OnTopIs
  <1>3. IsSession(y)
    <2>1. Len(x.blocks) \in Nat
      BY BlocksParts
    <2> QED  BY <1>1, <1>4, <2>1 DEF IsSession
  <1> QED  BY <1>1, <1>3, <1>4

\* The shell of a session comes or goes.
LEMMA ShellIs ==
  ASSUME NEW x, IsSession(x), NEW alive,
         NEW y, y = [x EXCEPT !.alive = alive, !.typed = {}]
  PROVE  IsSession(y) /\ Keeps(x, y) /\ y.blocks = x.blocks /\ y.at = x.at /\ y.ring = x.ring
  <1>0. IsRecord(x)
    BY DEF IsSession
  <1>1. IsRecord(y) /\ y.blocks = x.blocks /\ y.at = x.at /\ y.ring = x.ring
    BY <1>0 DEF IsRecord
  <1> QED  BY <1>1, SameBlocks, BlocksOfAnother

\* A note in the session, above everything.
LEMMA SystemBlockIs ==
  ASSUME NEW x, IsSession(x), NEW y, y = WithSystemBlock(x)
  PROVE  /\ IsSession(y) /\ Keeps(x, y) /\ y.alive = x.alive
         /\ Len(y.blocks) = Len(x.blocks) + 1
  <1> DEFINE b == Block(Foreign, TRUE, FALSE)
             at == IF x.at = 0 THEN 0 ELSE x.at + 1
  <1>1. x.at \in Nat /\ Len(x.blocks) \in Nat /\ x.at <= Len(x.blocks)
    BY BlocksParts DEF IsSession
  <1>0. IsRecord(x)
    BY DEF IsSession
  <1>2. at \in Nat /\ at <= Len(x.blocks) + 1
    BY <1>1
  <1>3. y = [x EXCEPT !.blocks = <<b>> \o @, !.at = at]
    BY DEF WithSystemBlock
  <1> HIDE DEF b, at
  <1>4. y = Topped(x, b, at, x.typed)
    BY <1>0, <1>3 DEF IsRecord, Topped
  <1> QED  BY <1>1, <1>2, <1>4, TopIs

\* A session with one block more, of everything it had.
Grew(x, y) == IsSession(y) /\ Keeps(x, y) /\ Len(y.blocks) = Len(x.blocks) + 1

LEMMA GrewOn ==
  ASSUME NEW x, IsSession(x), NEW y, Grew(x, y), NEW ring, NEW alive
  PROVE  /\ Grew(x, Notified(y, ring))
         /\ Grew(x, [Notified(y, ring) EXCEPT !.alive = alive, !.typed = {}])
  <1> DEFINE z == Notified(y, ring)
             v == [z EXCEPT !.alive = alive, !.typed = {}]
  <1>1. IsSession(z) /\ Keeps(y, z) /\ z.blocks = y.blocks
    BY NotifiedIs DEF Grew
  <1> HIDE DEF z
  <1>2. IsSession(v) /\ Keeps(z, v) /\ v.blocks = z.blocks
    BY <1>1, ShellIs
  <1> HIDE DEF v
  <1>3. Keeps(x, z) /\ Keeps(x, v)
    BY <1>1, <1>2, KeepsOn DEF Grew
  <1>4. Grew(x, z) /\ Grew(x, v)
    BY <1>1, <1>2, <1>3 DEF Grew
  <1> QED  BY <1>4 DEF z, v

\* interrupt, terminate and restart: the running command is closed, and a note put on top.
LEMMA ClosedAndNoted ==
  ASSUME NEW x, IsSession(x)
  PROVE  Grew(x, WithSystemBlock(x)) /\ Grew(x, WithSystemBlock(Closed(x, FALSE)))
  <1> DEFINE c == Closed(x, FALSE)
             y == WithSystemBlock(c)
  <1>1. IsSession(c) /\ Keeps(x, c) /\ Len(c.blocks) = Len(x.blocks)
    BY ClosedIs
  <1> HIDE DEF c
  <1>2. IsSession(y) /\ Keeps(c, y) /\ Len(y.blocks) = Len(c.blocks) + 1
    BY <1>1, SystemBlockIs
  <1> HIDE DEF y
  <1>3. Keeps(x, y)
    BY <1>1, <1>2, KeepsOn
  <1>4. Grew(x, WithSystemBlock(x))
    BY SystemBlockIs DEF Grew
  <1>5. Grew(x, y)
    BY <1>1, <1>2, <1>3 DEF Grew
  <1> QED  BY <1>4, <1>5 DEF y, c

\* What a handler leaves of a session: its blocks, the running command as it is
\* and the ring at most telling of it, or a block more.
Leaves(x, y) ==
  /\ IsSession(y) /\ Keeps(x, y)
  /\ \/ y.blocks # x.blocks
     \/ y.blocks = x.blocks /\ y.at = x.at /\ y.ring \in {x.ring, "running", "error"}

LEMMA GrewLeaves ==
  ASSUME NEW x, IsSession(x), NEW y, Grew(x, y)
  PROVE  Leaves(x, y)
  <1>1. y.blocks # x.blocks
    <2>1. Len(x.blocks) \in Nat /\ Len(y.blocks) # Len(x.blocks)
      BY BlocksParts DEF Grew
    <2> QED  BY <2>1
  <1> QED  BY <1>1 DEF Grew, Leaves

LEMMA RunLeaves ==
  ASSUME NEW x, IsSession(x), NEW n, NEW fault, NEW a, a = RunCommand(x, n, fault)
  PROVE  /\ Leaves(x, a.then)
         /\ a.ok => /\ a.then.blocks # <<>> /\ a.then.blocks[1].of = n
                    /\ a.then.at = 1 /\ a.then.ring = "running"
  <1>0. x.at \in Nat /\ Len(x.blocks) \in Nat
    BY BlocksParts
  <1>4. IsRecord(x)
    BY DEF IsSession
  <1>1. CASE x.at # 0
    <2>1. a.then = Notified(x, "running") /\ ~a.ok
      BY <1>1 DEF RunCommand, Response
    <2>2. IsSession(a.then) /\ Keeps(x, a.then) /\ a.then.blocks = x.blocks
          /\ a.then.at = x.at /\ a.then.ring = "running"
      BY <2>1, NotifiedIs
    <2> QED  BY <2>1, <2>2 DEF Leaves
  <1>5. CASE x.at = 0 /\ fault = "script"
    <2>1. a.then = Notified(x, "error") /\ ~a.ok
      BY <1>5 DEF RunCommand, Response
    <2>2. IsSession(a.then) /\ Keeps(x, a.then) /\ a.then.blocks = x.blocks
          /\ a.then.at = x.at /\ a.then.ring = "error"
      BY <2>1, NotifiedIs
    <2> QED  BY <2>1, <2>2 DEF Leaves
  <1>2. CASE x.at = 0 /\ fault # "script" /\ Works(x, fault)
    <2> DEFINE b == Block(n, FALSE, FALSE)
               y == Topped(x, b, 1, x.typed \cup {n})
    <2>1. a.then = Notified([x EXCEPT !.blocks = <<b>> \o @, !.at = 1, !.typed = @ \cup {n}], "running")
      BY <1>2 DEF RunCommand, Response, Started
    <2>2. b.of = n
      BY DEF Block
    <2> HIDE DEF b
    <2>3. a.then = Notified(y, "running")
      BY <1>4, <2>1 DEF Topped, IsRecord
    <2>4. IsSession(y) /\ Keeps(x, y) /\ y.at = 1 /\ Len(y.blocks) = Len(x.blocks) + 1
          /\ y.blocks[1] = b /\ y.blocks # <<>>
      BY <1>0, TopIs
    <2> HIDE DEF y
    <2>5. IsSession(a.then) /\ a.then.blocks = y.blocks /\ a.then.at = y.at /\ a.then.ring = "running"
      BY <2>3, <2>4, NotifiedIs
    <2>6. Leaves(x, a.then)
      BY <2>3, <2>4, GrewOn, GrewLeaves DEF Grew
    <2> QED  BY <2>2, <2>4, <2>5, <2>6
  <1>3. CASE x.at = 0 /\ fault # "script" /\ ~Works(x, fault)
    <2> DEFINE b == Block(n, TRUE, FALSE)
               y == Topped(x, b, 0, x.typed)
    <2>1. a.then = Notified([x EXCEPT !.blocks = <<b>> \o @], "error") /\ ~a.ok
      BY <1>3 DEF RunCommand, Response
    <2> HIDE DEF b
    <2>2. a.then = Notified(y, "error")
      BY <1>3, <1>4, <2>1 DEF Topped, IsRecord
    <2>3. Grew(x, y)
      BY <1>0, TopIs DEF Grew
    <2> HIDE DEF y
    <2> QED  BY <2>1, <2>2, <2>3, GrewOn, GrewLeaves
  <1> QED  BY <1>1, <1>2, <1>3, <1>5

LEMMA InputLeaves ==
  ASSUME NEW x, IsSession(x), NEW n, NEW fault, NEW a, a = WriteInput(x, n, fault)
  PROVE  Leaves(x, a.then)
  <1> DEFINE logged == WithSystemBlock(x)
             y == [logged EXCEPT !.typed = @ \cup {n}]
  <1>1. Grew(x, logged)
    BY ClosedAndNoted
  <1>2. CASE Works(x, fault)
    <2>1. a.then = Notified(y, "running")
      BY <1>2 DEF WriteInput, Response
    <2> HIDE DEF logged
    <2>2. IsRecord(y) /\ y.blocks = logged.blocks /\ y.at = logged.at
      <3>1. IsRecord(logged)
        BY <1>1 DEF Grew, IsSession
      <3> QED  BY <3>1 DEF IsRecord
    <2>3. Grew(x, y)
      <3> HIDE DEF y
      <3>1. IsSession(logged) /\ Keeps(x, logged)
        BY <1>1 DEF Grew
      <3>2. IsSession(y) /\ Keeps(logged, y)
        BY <2>2, <3>1, SameBlocks, BlocksOfAnother
      <3> QED  BY <1>1, <2>2, <3>1, <3>2, KeepsOn DEF Grew
    <2> HIDE DEF y
    <2> QED  BY <2>1, <2>3, GrewOn, GrewLeaves
  <1>3. CASE ~Works(x, fault)
    <2>1. a.then = Notified(logged, "error")
      BY <1>3 DEF WriteInput, Response
    <2> HIDE DEF logged
    <2> QED  BY <1>1, <2>1, GrewOn, GrewLeaves
  <1> QED  BY <1>2, <1>3

LEMMA SignalsLeave ==
  ASSUME NEW x, IsSession(x), NEW fault
  PROVE  /\ Leaves(x, Interrupt(x, fault).then) /\ Leaves(x, Terminate(x, fault).then)
         /\ Leaves(x, Resize(x, fault).then) /\ Leaves(x, Restart(x, fault).then)
  <1> DEFINE y == WithSystemBlock(Closed(x, FALSE))
             z == WithSystemBlock(x)
             ok == fault # "terminal"
             ring == IF ok THEN "complete" ELSE "error"
             size == IF Works(x, fault) THEN "complete" ELSE "error"
  <1>1. /\ Interrupt(x, fault).then = Notified(y, "error") \/ Interrupt(x, fault).then = Notified(z, "error")
        /\ \/ Terminate(x, fault).then = Notified(z, "error")
           \/ Terminate(x, fault).then = [Notified(y, "error") EXCEPT !.alive = FALSE, !.typed = {}]
        /\ Resize(x, fault).then = Notified(z, size)
        /\ Restart(x, fault).then = [Notified(y, ring) EXCEPT !.alive = ok, !.typed = {}]
    BY DEF Interrupt, Terminate, Resize, Restart, Response
  <1>2. Grew(x, y) /\ Grew(x, z)
    BY ClosedAndNoted
  <1> HIDE DEF y, z, ring, size, ok
  <1>3. /\ Grew(x, Notified(y, "error")) /\ Grew(x, Notified(z, "error")) /\ Grew(x, Notified(z, size))
        /\ Grew(x, [Notified(y, "error") EXCEPT !.alive = FALSE, !.typed = {}])
        /\ Grew(x, [Notified(y, ring) EXCEPT !.alive = ok, !.typed = {}])
    BY <1>2, GrewOn
  <1> QED  BY <1>1, <1>3, GrewLeaves

LEMMA ForwardLeaves ==
  ASSUME NEW x, IsSession(x), NEW b
  PROVE  Leaves(x, Forwarded(x, b).then)
  <1> DEFINE y == Topped(x, b, x.at, x.typed)
  <1>1. Forwarded(x, b).then = Notified(y, "complete")
    <2>1. IsRecord(x)
      BY DEF IsSession
    <2> QED  BY <2>1 DEF Forwarded, Response, Topped, IsRecord
  <1>2. x.at \in Nat /\ x.at <= Len(x.blocks) + 1
    BY BlocksParts
  <1>3. Grew(x, y)
    BY <1>2, TopIs DEF Grew
  <1> HIDE DEF y
  <1> QED  BY <1>1, <1>3, GrewOn, GrewLeaves

LEMMA QuietLeave ==
  ASSUME NEW x, IsSession(x)
  PROVE  Leaves(x, Ack(x).then) /\ Leaves(x, [x EXCEPT !.open = FALSE])
  <1>1. Ack(x).then = [x EXCEPT !.unread = FALSE]
    BY DEF Ack, Response
  <1>2. IsRecord(x)
    BY DEF IsSession
  <1>3. ASSUME NEW y, y = [x EXCEPT !.unread = FALSE] \/ y = [x EXCEPT !.open = FALSE]
        PROVE  Leaves(x, y)
    <2>1. IsRecord(y) /\ y.blocks = x.blocks /\ y.at = x.at /\ y.ring = x.ring
      BY <1>2, <1>3 DEF IsRecord
    <2> QED  BY <2>1, SameBlocks, BlocksOfAnother DEF Leaves
  <1> QED  BY <1>1, <1>3

\* The handler of a step's request, whatever the request is.
LEMMA EffectLeaves ==
  ASSUME NEW x, IsSession(x), NEW do, NEW fault
  PROVE  Leaves(x, Effect(do, x, fault).then)
  <1>1. Leaves(x, x)
    BY SameBlocks DEF Leaves
  <1>2. Response(x, TRUE).then = x
    BY DEF Response
  <1> DEFINE a == Effect(do, x, fault)
  <1>3. \/ a = RunCommand(x, serial + 1, fault) \/ a = WriteInput(x, RawInput, fault)
        \/ a = Interrupt(x, fault) \/ a = Terminate(x, fault) \/ a = Restart(x, fault)
        \/ a = Resize(x, fault) \/ a = Ack(x) \/ a = Response(x, TRUE)
    BY DEF Effect
  <1> HIDE DEF a
  <1>4. /\ Leaves(x, Interrupt(x, fault).then) /\ Leaves(x, Terminate(x, fault).then)
        /\ Leaves(x, Resize(x, fault).then) /\ Leaves(x, Restart(x, fault).then)
        /\ Leaves(x, Ack(x).then)
    BY SignalsLeave, QuietLeave
  <1>5. a = RunCommand(x, serial + 1, fault) => Leaves(x, a.then)
    BY RunLeaves
  <1>6. a = WriteInput(x, RawInput, fault) => Leaves(x, a.then)
    BY InputLeaves
  <1>7. Leaves(x, a.then)
    BY <1>1, <1>2, <1>3, <1>4, <1>5, <1>6
  <1> QED  BY <1>7 DEF a

LEMMA OthersLeave ==
  ASSUME NEW x, IsSession(x), NEW fault, NEW a \in OthersAsk(x, fault)
  PROVE  Leaves(x, a.then)
  <1> DEFINE b == Block(Foreign, TRUE, FALSE)
             shut == Response([x EXCEPT !.open = FALSE], TRUE)
  <1>1. \/ a = RunCommand(x, Foreign, fault) \/ a = WriteInput(x, Foreign, fault)
        \/ a \in {Interrupt(x, fault), Terminate(x, fault), Resize(x, fault), Restart(x, fault)}
        \/ a = Ack(x) \/ a = Forwarded(x, b) \/ a = shut
    BY DEF OthersAsk
  <1>2. shut.then = [x EXCEPT !.open = FALSE]
    BY DEF Response
  <1> HIDE DEF b, shut
  <1>3. /\ Leaves(x, Interrupt(x, fault).then) /\ Leaves(x, Terminate(x, fault).then)
        /\ Leaves(x, Resize(x, fault).then) /\ Leaves(x, Restart(x, fault).then)
    BY SignalsLeave
  <1>4. Leaves(x, Ack(x).then) /\ Leaves(x, [x EXCEPT !.open = FALSE]) /\ Leaves(x, Forwarded(x, b).then)
    BY QuietLeave, ForwardLeaves
  <1> QED  BY <1>1, <1>2, <1>3, <1>4, RunLeaves, InputLeaves
------------------------------------------------------------------------------
(* The block a wait returns.                                               *)
DoneBy(x, id, n) == id \in DOMAIN x.blocks /\ BlockOf(x, id).of = n /\ BlockOf(x, id).done

LEMMA NewestIs ==
  ASSUME NEW x, IsSession(x), NEW rows \in SUBSET DOMAIN x.blocks, rows # {}
  PROVE  /\ NewestOf(x, rows) \in DOMAIN x.blocks
         /\ \E i \in rows : BlockOf(x, NewestOf(x, rows)) = x.blocks[i] /\ \A j \in rows : i <= j
  <1> DEFINE n == Len(x.blocks)
             m == Min(rows)
  <1>1. n \in Nat /\ DOMAIN x.blocks = 1 .. n
    BY BlocksParts
  <1>2. rows \in SUBSET Nat
    BY <1>1
  <1>3. m \in rows /\ \A j \in rows : m <= j
    BY <1>2, Least DEF Min
  <1>4. NewestOf(x, rows) = n + 1 - m
    BY DEF NewestOf
  <1> HIDE DEF m, n
  <1>5. m \in 1 .. n /\ n + 1 - m \in 1 .. n /\ n + 1 - (n + 1 - m) = m
    BY <1>1, <1>3
  <1>6. BlockOf(x, NewestOf(x, rows)) = x.blocks[m]
    BY <1>4, <1>5 DEF BlockOf, n
  <1> QED  BY <1>1, <1>3, <1>4, <1>5, <1>6

LEMMA NewestWithIs ==
  ASSUME NEW x, IsSession(x), NEW n, NewestWith(x, n) # 0
  PROVE  DoneBy(x, NewestWith(x, n), n)
  <1> DEFINE rows == {i \in DOMAIN x.blocks :
                        x.blocks[i].done /\ x.blocks[i].says /\ x.blocks[i].of = n}
  <1>1. NewestWith(x, n) = NewestOf(x, rows)
    BY DEF NewestWith
  <1>2. rows \in SUBSET DOMAIN x.blocks /\ rows # {}
    BY <1>1 DEF NewestOf
  <1>3. \A i \in rows : x.blocks[i].done /\ x.blocks[i].of = n
    OBVIOUS
  <1> HIDE DEF rows
  <1> QED  BY <1>1, <1>2, <1>3, NewestIs DEF DoneBy

\* The newest block of all, once it is done.
LEMMA NewestDoneIs ==
  ASSUME NEW x, IsSession(x), NEW n, x.blocks # <<>>, x.blocks[1].done, x.blocks[1].of = n
  PROVE  DoneBy(x, NewestDone(x), n)
  <1> DEFINE rows == {i \in DOMAIN x.blocks : x.blocks[i].done}
  <1>1. NewestDone(x) = NewestOf(x, rows)
    BY DEF NewestDone
  <1>2. 1 \in DOMAIN x.blocks /\ DOMAIN x.blocks \in SUBSET Nat
    <2>1. PICK S : x.blocks \in Seq(S)
      BY DEF IsSession
    <2>2. Len(x.blocks) # 0
      BY <2>1
    <2> QED  BY <2>2, BlocksParts
  <1>3. 1 \in rows /\ rows \in SUBSET DOMAIN x.blocks
    BY <1>2
  <1> HIDE DEF rows
  <1>4. PICK i \in rows : BlockOf(x, NewestOf(x, rows)) = x.blocks[i] /\ \A j \in rows : i <= j
    BY <1>3, NewestIs
  <1>5. i \in Nat /\ i >= 1 /\ i <= 1
    <2>1. \A j \in DOMAIN x.blocks : j \in Nat /\ j >= 1
      BY BlocksParts
    <2> QED  BY <1>3, <1>4, <2>1
  <1>6. i = 1
    BY <1>5
  <1> QED  BY <1>1, <1>3, <1>4, <1>6, NewestIs DEF DoneBy

\* A block keeps its number.
LEMMA DoneByKept ==
  ASSUME NEW x, IsSession(x), NEW y, IsSession(y), Keeps(x, y), NEW id, NEW n, DoneBy(x, id, n)
  PROVE  DoneBy(y, id, n)
  <1>1. Len(x.blocks) \in Nat /\ Len(y.blocks) \in Nat /\ DOMAIN x.blocks = 1 .. Len(x.blocks)
        /\ DOMAIN y.blocks = 1 .. Len(y.blocks)
    BY BlocksParts
  <1>2. id \in 1 .. Len(x.blocks) /\ id \in 1 .. Len(y.blocks)
    BY <1>1 DEF DoneBy, Keeps
  <1> QED  BY <1>1, <1>2 DEF DoneBy, Keeps

------------------------------------------------------------------------------
(* A debate waits for the turn of the speaker it has prompted: the newest  *)
(* block is that command's, and a ring that says complete says it of this  *)
(* command, now and when the loop read it.                                 *)
MidTurn(x, n, ring) ==
  /\ x.blocks # <<>> /\ x.blocks[1].of = n
  /\ x.at = 1 \/ (x.at = 0 /\ x.blocks[1].done)
  /\ x.ring = "complete" => x.blocks[1].done
  /\ ring = "complete" => x.blocks[1].done

LEMMA TurnEnds ==
  ASSUME NEW x, IsSession(x), NEW says \in BOOLEAN, NEW y, y.blocks = Closed(x, says).blocks,
         y.at = 0, NEW n, NEW ring, MidTurn(x, n, ring)
  PROVE  MidTurn(y, n, ring)
  <1> DEFINE c == Closed(x, says)
  <1>1. /\ IsSession(c) /\ Len(c.blocks) = Len(x.blocks)
        /\ x.at # 0 => c.blocks[x.at].done
        /\ \A i \in 1 .. Len(x.blocks) : x.blocks[i].done => c.blocks[i].done
        /\ \A i \in 1 .. Len(x.blocks) : c.blocks[i].of = x.blocks[i].of
    BY ClosedIs
  <1>2. y.blocks = c.blocks
    OBVIOUS
  <1> HIDE DEF c
  <1>3. Len(x.blocks) \in Nat /\ Len(x.blocks) # 0
    <2>1. PICK S : x.blocks \in Seq(S)
      BY DEF IsSession
    <2> QED  BY <2>1 DEF MidTurn
  <1>4. c.blocks # <<>>
    BY <1>1, <1>3
  <1>5. c.blocks[1].done /\ c.blocks[1].of = n
    BY <1>1, <1>3 DEF MidTurn
  <1> QED  BY <1>2, <1>4, <1>5 DEF MidTurn

\* A request of somebody else that adds no block.
LEMMA TurnGoesOn ==
  ASSUME NEW x, NEW y, Leaves(x, y), y.blocks = x.blocks, NEW n, NEW ring, MidTurn(x, n, ring)
  PROVE  MidTurn(y, n, ring)
  BY DEF Leaves, MidTurn

\* The command has ended, or the shell has.
LEMMA EndIs ==
  ASSUME NEW x, IsSession(x), NEW says \in BOOLEAN, NEW ring, NEW y, IsRecord(y),
         y.blocks = Notified(Closed(x, says), ring).blocks,
         y.at = Notified(Closed(x, says), ring).at
  PROVE  /\ IsSession(y) /\ Keeps(x, y)
         /\ \A n, read : MidTurn(x, n, read) => MidTurn(y, n, read)
  <1> DEFINE c == Closed(x, says)
             z == Notified(c, ring)
  <1>1. IsSession(c) /\ Keeps(x, c) /\ c.at = 0
    BY ClosedIs
  <1>2. c.blocks = Closed(x, says).blocks
    OBVIOUS
  <1>3. y.blocks = z.blocks /\ y.at = z.at
    OBVIOUS
  <1> HIDE DEF c
  <1>4. IsSession(z) /\ z.blocks = c.blocks /\ z.at = c.at
    BY <1>1, NotifiedIs
  <1>5. IsSession(y) /\ y.blocks = c.blocks /\ y.at = 0
    BY <1>1, <1>3, <1>4, BlocksOfAnother
  <1>6. Keeps(x, y)
    BY <1>1, <1>5, SameBlocks, KeepsOn
  <1> QED  BY <1>2, <1>5, <1>6, TurnEnds

\* The shell prints what was typed.
LEMMA PrintIs ==
  ASSUME NEW x, IsSession(x), NEW y, IsRecord(y), y.blocks = x.blocks, y.at = x.at, y.ring = x.ring
  PROVE  /\ IsSession(y) /\ Keeps(x, y)
         /\ \A n, read : MidTurn(x, n, read) => MidTurn(y, n, read)
  BY SameBlocks, BlocksOfAnother DEF MidTurn
------------------------------------------------------------------------------
(* The inductive invariant of a loop.                                     *)
AreSessions(ses) == ses = [s \in Sessions |-> ses[s]] /\ \A s \in Sessions : IsSession(ses[s])

OwnIn(ses, id, n) == \E s \in Sessions : DoneBy(ses[s], id, n)

AgentOK ==
  /\ script \in Scripts /\ line \in DOMAIN script
  /\ AreSessions(session)
  /\ got # 0 /\ ~intruded => OwnIn(session, got, serial)
  /\ At("turn") /\ ~intruded => MidTurn(Here, serial, seen)

\* No request is left behind when the loop waits for a turn: it has started the
\* turn's command just before, with a request that came after all those.
LeftBehind == queued \in Seq(DOMAIN script) /\ (At("turn") => queued = <<>>)

LEMMA ScriptIs ==
  ASSUME NEW steps \in Scripts
  PROVE  /\ Len(steps) \in Nat /\ Len(steps) # 0 /\ DOMAIN steps = 1 .. Len(steps)
         /\ \A i \in 1 .. Len(steps) : steps[i].on \in Sessions /\ steps[i].to \in Sessions
         /\ \A i \in 1 .. Len(steps) : steps[i].do = "turn"
              => i > 1 /\ steps[i - 1].do = "run" /\ steps[i - 1].on = steps[i].on
  <1> DEFINE Steps == [do: STRING, on: Sessions, to: Sessions]
  <1>1. steps \in Seq(Steps) /\ steps # <<>>
    BY ScriptsAssumption
  <1>2. \A i \in DOMAIN steps : steps[i].do = "turn"
              => i > 1 /\ steps[i - 1].do = "run" /\ steps[i - 1].on = steps[i].on
    BY ScriptsAssumption
  <1>3. \A step \in Steps : step.on \in Sessions /\ step.to \in Sessions
    OBVIOUS
  <1> HIDE DEF Steps
  <1>4. Len(steps) \in Nat /\ Len(steps) # 0 /\ DOMAIN steps = 1 .. Len(steps)
    BY <1>1
  <1>5. \A i \in 1 .. Len(steps) : steps[i] \in Steps
    BY <1>1, ElementOfSeq
  <1> QED  BY <1>2, <1>3, <1>4, <1>5

LEMMA AgentStarts == AgentInit => AgentOK
  <1> SUFFICES ASSUME AgentInit PROVE AgentOK
    OBVIOUS
  <1>1. line = 1 /\ script \in Scripts
    BY DEF AgentInit
  <1>2. line \in DOMAIN script /\ 1 \in 1 .. Len(script)
    BY <1>1, ScriptIs
  <1>3. IsSession(Fresh)
    <2>1. IsRecord(Fresh) /\ Fresh.blocks = <<>> /\ Fresh.at = 0
      BY DEF Fresh, IsRecord
    <2>2. <<>> \in Seq(Nat) /\ Len(<<>>) = 0
      OBVIOUS
    <2> QED  BY <2>1, <2>2 DEF IsSession
  <1>4. AreSessions(session)
    BY <1>3 DEF AgentInit, AreSessions
  <1>5. Now.do # "turn"
    <2>1. ~(1 > 1)
      OBVIOUS
    <2> QED  BY <1>1, <1>2, <2>1, ScriptIs DEF Now
  <1> QED  BY <1>1, <1>2, <1>4, <1>5 DEF AgentInit, AgentOK, At

\* The step that is next, and the one after it.
LEMMA LineFacts ==
  ASSUME AgentOK
  PROVE  /\ Now.on \in Sessions /\ Now.to \in Sessions
         /\ line # Len(script) => line + 1 \in DOMAIN script
         /\ line # Len(script) /\ script[line + 1].do = "turn"
              => Now.do = "run" /\ script[line + 1].on = Now.on
  <1>1. script \in Scripts /\ line \in DOMAIN script
    BY DEF AgentOK
  <1>2. /\ Len(script) \in Nat /\ DOMAIN script = 1 .. Len(script) /\ line \in 1 .. Len(script)
        /\ \A i \in 1 .. Len(script) : script[i].on \in Sessions /\ script[i].to \in Sessions
        /\ \A i \in 1 .. Len(script) : script[i].do = "turn"
              => script[i - 1].do = "run" /\ script[i - 1].on = script[i].on
    BY <1>1, ScriptIs
  <1>3. line # Len(script) => line + 1 \in 1 .. Len(script)
    <2>1. Len(script) \in Nat /\ line \in 1 .. Len(script)
      BY <1>2
    <2> QED  BY <2>1
  <1>4. (line + 1) - 1 = line
    BY <1>2
  <1> QED  BY <1>2, <1>3, <1>4 DEF Now

LEMMA OwnKept ==
  ASSUME NEW ses, AreSessions(ses), NEW then, AreSessions(then),
         \A s \in Sessions : Keeps(ses[s], then[s]), NEW id, NEW n, OwnIn(ses, id, n)
  PROVE  OwnIn(then, id, n)
  <1>1. PICK s \in Sessions : DoneBy(ses[s], id, n)
    BY DEF OwnIn
  <1>2. DoneBy(then[s], id, n)
    BY <1>1, DoneByKept DEF AreSessions
  <1> QED  BY <1>2 DEF OwnIn

\* One session changes.
LEMMA OneChanges ==
  ASSUME AreSessions(session), NEW s \in Sessions, NEW y, IsSession(y), Keeps(session[s], y),
         session' = [session EXCEPT ![s] = y]
  PROVE  /\ AreSessions(session') /\ \A t \in Sessions : Keeps(session[t], session'[t])
         /\ session'[s] = y /\ \A t \in Sessions : t # s => session'[t] = session[t]
  <1>1. session' = [t \in Sessions |-> IF t = s THEN y ELSE session[t]]
    BY DEF AreSessions
  <1>2. \A t \in Sessions : session'[t] = IF t = s THEN y ELSE session[t]
    BY <1>1
  <1>3. \A t \in Sessions : IsSession(session'[t])
    BY <1>2 DEF AreSessions
  <1>4. ASSUME NEW t \in Sessions PROVE Keeps(session[t], session'[t])
    <2>1. CASE t = s
      BY <1>2, <2>1
    <2>2. CASE t # s
      BY <1>2, <2>2, SameBlocks DEF AreSessions
    <2> QED  BY <2>1, <2>2
  <1>5. AreSessions(session')
    BY <1>1, <1>3 DEF AreSessions
  <1> QED  BY <1>2, <1>4, <1>5

\* What the loop knows of the blocks stays so while they are kept.
LEMMA GotKept ==
  ASSUME AgentOK, AreSessions(session'), \A s \in Sessions : Keeps(session[s], session'[s]),
         ~intruded' => ~intruded, serial' = serial,
         got' # 0 /\ ~intruded => OwnIn(session, got', serial)
  PROVE  got' # 0 /\ ~intruded' => OwnIn(session', got', serial')
  <1> SUFFICES ASSUME got' # 0, ~intruded' PROVE OwnIn(session', got', serial')
    OBVIOUS
  <1>1. AreSessions(session) /\ OwnIn(session, got', serial)
    BY DEF AgentOK
  <1>2. OwnIn(session', got', serial)
    BY <1>1, OwnKept
  <1> QED  BY <1>2

LEMMA FailKeeps ==
  ASSUME AgentOK, AreSessions(session'), \A s \in Sessions : Keeps(session[s], session'[s]),
         ~intruded' => ~intruded, Fail
  PROVE  AgentOK'
  <1>1. /\ script' = script /\ line' = line /\ got' = got /\ serial' = serial
        /\ outcome' = "failed"
    BY DEF Fail
  <1>2. got' # 0 /\ ~intruded' => OwnIn(session', got', serial')
    BY <1>1, GotKept DEF AgentOK
  <1> QED  BY <1>1, <1>2 DEF AgentOK, At

\* A step of the loop that starts no command leads to no turn.
LEMMA LoopKeeps ==
  ASSUME AgentOK, Now.do # "run", AreSessions(session'),
         \A s \in Sessions : Keeps(session[s], session'[s]), intruded' = intruded,
         NEW id, id # 0 /\ ~intruded => OwnIn(session, id, serial),
         Advance(serial, id) \/ Fail
  PROVE  AgentOK'
  <1>1. CASE Advance(serial, id)
    <2>1. /\ line' = IF line = Len(script) THEN line ELSE line + 1
          /\ outcome' = IF line = Len(script) THEN "done" ELSE outcome
          /\ serial' = serial /\ got' = id /\ script' = script
      BY <1>1 DEF Advance
    <2>2. got' # 0 /\ ~intruded' => OwnIn(session', got', serial')
      BY <2>1, GotKept
    <2>3. script \in Scripts /\ line \in DOMAIN script
      BY DEF AgentOK
    <2>4. line' \in DOMAIN script
      BY <2>1, <2>3, LineFacts
    <2>5. ~At("turn")'
      BY <2>1, LineFacts DEF At, Now
    <2> QED  BY <2>1, <2>2, <2>3, <2>4, <2>5 DEF AgentOK
  <1> QED  BY <1>1, FailKeeps

\* A step of the shells or of the others.
LEMMA WorldKeeps ==
  ASSUME AgentOK, UNCHANGED loopVars, NEW s \in Sessions, NEW y, IsSession(y), Keeps(session[s], y),
         session' = [session EXCEPT ![s] = y], ~intruded' => ~intruded,
         ~intruded' => \A n, ring : MidTurn(session[s], n, ring) => MidTurn(y, n, ring)
  PROVE  AgentOK'
  <1>1. /\ script' = script /\ line' = line /\ serial' = serial /\ seen' = seen /\ got' = got
        /\ outcome' = outcome
    BY DEF loopVars
  <1>2. AreSessions(session) /\ script \in Scripts /\ line \in DOMAIN script
    BY DEF AgentOK
  <1>3. /\ AreSessions(session') /\ \A t \in Sessions : Keeps(session[t], session'[t])
        /\ session'[s] = y /\ \A t \in Sessions : t # s => session'[t] = session[t]
    BY <1>2, OneChanges
  <1>4. got' # 0 /\ ~intruded' => OwnIn(session', got', serial')
    BY <1>1, <1>3, GotKept DEF AgentOK
  <1>5. ASSUME At("turn")', ~intruded' PROVE MidTurn(Here, serial, seen)'
    <2>1. At("turn") /\ Now' = Now
      BY <1>1, <1>5 DEF At, Now
    <2>2. MidTurn(session[Now.on], serial, seen) /\ Now.on \in Sessions
      BY <1>5, <2>1, LineFacts DEF AgentOK, Here
    <2>3. MidTurn(session'[Now.on], serial, seen)
      BY <1>3, <1>5, <2>2
    <2>4. Here' = session'[Now.on]
      BY <2>1 DEF Here
    <2>5. MidTurn(Here', serial', seen')
      BY <1>1, <2>3, <2>4
    <2> QED  BY <2>5 DEF MidTurn
  <1> QED  BY <1>1, <1>2, <1>3, <1>4, <1>5 DEF AgentOK

\* The sessions stay as they are.
LEMMA SameSessions ==
  ASSUME AgentOK, session' = session
  PROVE  AreSessions(session') /\ \A s \in Sessions : Keeps(session[s], session'[s])
  <1>1. AreSessions(session)
    BY DEF AgentOK
  <1>2. \A s \in Sessions : IsSession(session[s]) /\ session'[s].blocks = session[s].blocks
    BY <1>1 DEF AreSessions
  <1> QED  BY <1>1, <1>2, SameBlocks

\* A request to the session the loop works in.
LEMMA HereChanges ==
  ASSUME AgentOK, NEW y, Leaves(Here, y), session' = [session EXCEPT ![Now.on] = y]
  PROVE  /\ AreSessions(session') /\ \A s \in Sessions : Keeps(session[s], session'[s])
         /\ session'[Now.on] = y
  <1>1. AreSessions(session) /\ Now.on \in Sessions /\ Here = session[Now.on]
    BY LineFacts DEF AgentOK, Here
  <1>2. IsSession(y) /\ Keeps(session[Now.on], y)
    BY <1>1 DEF Leaves
  <1> QED  BY <1>1, <1>2, OneChanges

LEMMA HereIs ==
  ASSUME AgentOK
  PROVE  IsSession(Here) /\ Now.on \in Sessions /\ Here = session[Now.on]
  BY LineFacts DEF AgentOK, AreSessions, Here

LEMMA AskKeeps ==
  ASSUME AgentOK, NEW do, do # "run", NEW expected, Ask(do, expected, serial, got)
  PROVE  AgentOK'
  <1>1. PICK fault \in Faults :
           /\ session' = [session EXCEPT ![Now.on] = Effect(do, Here, fault).then]
           /\ Advance(serial, got) \/ Fail
    BY DEF Ask
  <1>2. Leaves(Here, Effect(do, Here, fault).then)
    BY HereIs, EffectLeaves
  <1>3. AreSessions(session') /\ \A s \in Sessions : Keeps(session[s], session'[s])
    BY <1>1, <1>2, HereChanges
  <1>4. (got # 0 /\ ~intruded => OwnIn(session, got, serial)) /\ intruded' = intruded /\ Now.do # "run"
    BY DEF AgentOK, Ask, At
  <1> QED  BY <1>1, <1>3, <1>4, LoopKeeps

\* The loop starts its command: the turn it waits for next is that command's.
LEMMA RunKeeps ==
  ASSUME AgentOK, RunStep
  PROVE  AgentOK'
  <1> DEFINE n == serial + 1
  <1>0. PICK fault \in Faults :
           LET a == Effect("run", Here, fault)
           IN  /\ session' = [session EXCEPT ![Now.on] = a.then]
               /\ IF a.ok = TRUE THEN Advance(n, 0) ELSE Fail
    BY DEF RunStep, Ask
  <1> DEFINE a == RunCommand(Here, n, fault)
  <1>a. Effect("run", Here, fault) = a
    BY DEF Effect
  <1>1. /\ session' = [session EXCEPT ![Now.on] = a.then] /\ intruded' = intruded
        /\ IF a.ok = TRUE THEN Advance(n, 0) ELSE Fail
    BY <1>0, <1>a DEF RunStep, Ask
  <1>2. /\ Leaves(Here, a.then)
        /\ a.ok => /\ a.then.blocks # <<>> /\ a.then.blocks[1].of = n
                   /\ a.then.at = 1 /\ a.then.ring = "running"
    BY HereIs, RunLeaves
  <1> HIDE DEF a, n
  <1>3. /\ AreSessions(session') /\ \A s \in Sessions : Keeps(session[s], session'[s])
        /\ session'[Now.on] = a.then
    BY <1>1, <1>2, HereChanges
  <1>4. CASE a.ok = TRUE
    <2>1. Advance(n, 0)
      BY <1>1, <1>4
    <2>2. /\ line' = IF line = Len(script) THEN line ELSE line + 1
          /\ outcome' = IF line = Len(script) THEN "done" ELSE outcome
          /\ serial' = n /\ got' = 0 /\ seen' = "" /\ script' = script
      BY <2>1 DEF Advance
    <2>3. script \in Scripts /\ line \in DOMAIN script
      BY DEF AgentOK
    <2>4. line' \in DOMAIN script
      BY <2>2, <2>3, LineFacts
    <2>5. ASSUME At("turn")' PROVE MidTurn(Here, serial, seen)'
      <3>1. line # Len(script) /\ script[line + 1].do = "turn" /\ Now' = script[line + 1]
        BY <2>2, <2>5 DEF At, Now
      <3>2. Here' = a.then
        BY <1>3, <3>1, LineFacts DEF Here
      <3>3. MidTurn(a.then, n, "")
        BY <1>2, <1>4 DEF MidTurn
      <3>4. MidTurn(Here', serial', seen')
        BY <2>2, <3>2, <3>3
      <3> QED  BY <3>4 DEF MidTurn
    <2> QED  BY <1>3, <2>2, <2>3, <2>4, <2>5 DEF AgentOK
  <1>5. CASE a.ok # TRUE
    BY <1>1, <1>3, <1>5, FailKeeps
  <1> QED  BY <1>4, <1>5

LEMMA RequestsKeep ==
  ASSUME AgentOK, \/ InputStep \/ RefusedStep \/ InterruptStep \/ TerminateStep \/ ResizeStep
                  \/ AckStep \/ RestartStep
  PROVE  AgentOK'
  BY AskKeeps DEF InputStep, RefusedStep, InterruptStep, TerminateStep, ResizeStep, AckStep, RestartStep

\* The other session gets a block.
LEMMA ForwardingKeeps ==
  ASSUME AgentOK, NEW step, step.to \in Sessions, session' = Forwarding(step)
  PROVE  AreSessions(session') /\ \A s \in Sessions : Keeps(session[s], session'[s])
  <1> DEFINE x == session[step.to]
             y == Forwarded(x, HandedOver(step)).then
  <1>1. session' = [session EXCEPT ![step.to] = y]
    BY DEF Forwarding
  <1>2. IsSession(x) /\ AreSessions(session)
    BY DEF AgentOK, AreSessions
  <1>3. IsSession(y) /\ Keeps(x, y)
    BY <1>2, ForwardLeaves DEF Leaves
  <1> HIDE DEF y
  <1> QED  BY <1>1, <1>2, <1>3, OneChanges

LEMMA ForwardKeeps ==
  ASSUME AgentOK, ForwardStep
  PROVE  AgentOK'
  <1>1. Now.do # "run" /\ intruded' = intruded
    BY DEF ForwardStep, Forwards, At
  <1>2. (session' = Forwarding(Now) \/ session' = session) /\ (Advance(serial, got) \/ Fail)
    BY DEF ForwardStep
  <1>3. got # 0 /\ ~intruded => OwnIn(session, got, serial)
    BY DEF AgentOK
  <1>4. AreSessions(session') /\ \A s \in Sessions : Keeps(session[s], session'[s])
    BY <1>2, LineFacts, ForwardingKeeps, SameSessions
  <1> QED  BY <1>1, <1>2, <1>3, <1>4, LoopKeeps

\* The steps that only look.
LEMMA LooksKeep ==
  ASSUME AgentOK, UNCHANGED World, Now.do # "run",
         NEW id, id # 0 /\ ~intruded => OwnIn(session, id, serial), Advance(serial, id) \/ Fail
  PROVE  AgentOK'
  <1>1. session' = session /\ intruded' = intruded
    BY DEF World
  <1> QED  BY <1>1, SameSessions, LoopKeeps

LEMMA ChecksKeep ==
  ASSUME AgentOK, CheckUnread \/ CheckComplete \/ CheckListed
  PROVE  AgentOK'
  <1>1. got # 0 /\ ~intruded => OwnIn(session, got, serial)
    BY DEF AgentOK
  <1>2. UNCHANGED World /\ Now.do # "run" /\ (Advance(serial, got) \/ Fail)
    BY DEF CheckUnread, CheckComplete, CheckListed, Check, At
  <1> QED  BY <1>1, <1>2, LooksKeep

\* A block with the marker of the command is the command's.
LEMMA MarkedIsOwn ==
  ASSUME AgentOK, NewestWith(Here, serial) # 0
  PROVE  OwnIn(session, NewestWith(Here, serial), serial)
  <1>1. DoneBy(Here, NewestWith(Here, serial), serial)
    BY HereIs, NewestWithIs
  <1> QED  BY <1>1, HereIs DEF OwnIn

\* The loop reads on: it has read the ring, or the blocks in vain, or will.
LEMMA ReadsKeep ==
  ASSUME AgentOK, UNCHANGED World, UNCHANGED <<script, line, serial, got, outcome>>,
         seen' \in {"", "missing", Here.ring}
  PROVE  AgentOK'
  <1>1. /\ session' = session /\ intruded' = intruded /\ script' = script /\ line' = line
        /\ serial' = serial /\ got' = got /\ outcome' = outcome
    BY DEF World
  <1>2. got' # 0 /\ ~intruded' => OwnIn(session', got', serial')
    BY <1>1 DEF AgentOK
  <1>3. ASSUME At("turn")', ~intruded' PROVE MidTurn(Here, serial, seen)'
    <2>1. At("turn") /\ ~intruded /\ Here' = Here
      BY <1>1, <1>3 DEF At, Now, Here
    <2>2. MidTurn(Here, serial, seen)
      BY <2>1 DEF AgentOK
    <2>3. MidTurn(Here, serial, seen')
      BY <2>1, <2>2 DEF MidTurn
    <2>4. MidTurn(Here', serial', seen')
      BY <1>1, <2>1, <2>3
    <2> QED  BY <2>4 DEF MidTurn
  <1> QED  BY <1>1, <1>2, <1>3 DEF AgentOK

LEMMA AwaitKeeps ==
  ASSUME AgentOK, AwaitBlock \/ AwaitTail
  PROVE  AgentOK'
  <1>1. NewestWith(Here, serial) # 0 => OwnIn(session, NewestWith(Here, serial), serial)
    BY MarkedIsOwn
  <1>2. got # 0 /\ ~intruded => OwnIn(session, got, serial)
    BY DEF AgentOK
  <1>3. ASSUME NEW do, do # "run", NEW found, NEW id, id # 0 /\ ~intruded => OwnIn(session, id, serial),
               Await(do, found, id)
        PROVE  AgentOK'
    <2>1. UNCHANGED World /\ Now.do # "run"
      BY <1>3 DEF Await, At
    <2>2. \/ Advance(serial, id)
          \/ seen' = "missing" /\ UNCHANGED <<script, line, serial, got, outcome>>
      BY <1>3 DEF Await
    <2> QED  BY <1>3, <2>1, <2>2, LooksKeep, ReadsKeep
  <1>4. CASE AwaitBlock
    BY <1>1, <1>3, <1>4 DEF AwaitBlock
  <1>5. CASE AwaitTail
    BY <1>2, <1>3, <1>5 DEF AwaitTail
  <1> QED  BY <1>4, <1>5

LEMMA TurnIsOwn ==
  ASSUME AgentOK, At("turn"), ~intruded, TurnReply # 0
  PROVE  OwnIn(session, TurnReply, serial)
  <1>1. CASE NewestWith(Here, serial) # 0
    BY <1>1, MarkedIsOwn DEF TurnReply
  <1>2. CASE NewestWith(Here, serial) = 0
    <2>1. seen = "complete" /\ TurnReply = NewestDone(Here)
      BY <1>2 DEF TurnReply
    <2>2. Here.blocks # <<>> /\ Here.blocks[1].of = serial /\ Here.blocks[1].done
      BY <2>1 DEF AgentOK, MidTurn
    <2>3. DoneBy(Here, NewestDone(Here), serial)
      BY <2>2, HereIs, NewestDoneIs
    <2> QED  BY <2>1, <2>3, HereIs DEF OwnIn
  <1> QED  BY <1>1, <1>2

LEMMA TurnKeeps ==
  ASSUME AgentOK, ReadRing \/ JudgeTurn \/ JudgeDeadline
  PROVE  AgentOK'
  <1> DEFINE id == TurnReply
  <1>1. CASE ReadRing
    BY <1>1, ReadsKeep DEF ReadRing, World
  <1>2. CASE JudgeTurn
    <2>1. id # 0 /\ ~intruded => OwnIn(session, id, serial)
      BY <1>2, TurnIsOwn DEF JudgeTurn
    <2>2. /\ UNCHANGED World /\ Now.do # "run"
          /\ \/ Advance(serial, id) \/ Fail
             \/ seen' = "missing" /\ UNCHANGED <<script, line, serial, got, outcome>>
      BY <1>2 DEF JudgeTurn, At
    <2> HIDE DEF id
    <2> QED  BY <2>1, <2>2, LooksKeep, ReadsKeep
  <1>3. CASE JudgeDeadline
    <2>1. /\ UNCHANGED World
          /\ Fail \/ (seen' = "" /\ UNCHANGED <<script, line, serial, got, outcome>>)
      BY <1>3 DEF JudgeDeadline
    <2>2. session' = session /\ intruded' = intruded
      BY <2>1 DEF World
    <2> QED  BY <2>1, <2>2, SameSessions, FailKeeps, ReadsKeep
  <1> QED  BY <1>1, <1>2, <1>3

LEMMA LoopStepKeeps ==
  ASSUME AgentOK, LoopStep
  PROVE  AgentOK'
  <1>1. ASSUME Unanswered \/ TimedOut PROVE AgentOK'
    <2>1. /\ session' = session /\ intruded' = intruded
          /\ Fail \/ (Advance(serial, got) /\ Now.do # "run")
      BY <1>1 DEF Unanswered, TimedOut, ErrorComes, World
    <2>2. got # 0 /\ ~intruded => OwnIn(session, got, serial)
      BY DEF AgentOK
    <2> QED  BY <2>1, <2>2, SameSessions, FailKeeps, LoopKeeps
  <1> QED  BY <1>1, RunKeeps, RequestsKeep, ForwardKeeps, ChecksKeep, AwaitKeeps, TurnKeeps DEF LoopStep

\* The shells, and everybody else.
LEMMA ShellsKeep ==
  ASSUME AgentOK, NEW s \in Sessions,
         \/ \E ok \in BOOLEAN, says \in BOOLEAN : CommandEnds(s, ok, says)
         \/ \E says \in BOOLEAN : ShellExits(s, says)
         \/ ShellPrints(s)
  PROVE  AgentOK'
  <1> DEFINE x == session[s]
  <1>0. IsSession(x)
    BY DEF AgentOK, AreSessions
  <1>1. ASSUME NEW ok \in BOOLEAN, NEW says \in BOOLEAN, CommandEnds(s, ok, says) PROVE AgentOK'
    <2> DEFINE ring == IF ok THEN "complete" ELSE "error"
               z == Notified(Closed(x, says), ring)
               y == [z EXCEPT !.typed = {}, !.shown = x.shown \cup x.typed]
    <2>1. session' = [session EXCEPT ![s] = y]
      BY <1>1 DEF CommandEnds
    <2>2. UNCHANGED loopVars /\ intruded' = intruded
      BY <1>1 DEF CommandEnds
    <2>3. IsRecord(z)
      BY <1>0, ClosedIs, NotifiedIs DEF IsSession
    <2>4. IsRecord(y) /\ y.blocks = z.blocks /\ y.at = z.at
      <3>1. y = [z EXCEPT !.typed = {}, !.shown = x.shown \cup x.typed]
        OBVIOUS
      <3> HIDE DEF x, y, z
      <3> QED  BY <2>3, <3>1 DEF IsRecord
    <2> HIDE DEF ring, y
    <2>5. IsSession(y) /\ Keeps(x, y) /\ \A n, read : MidTurn(x, n, read) => MidTurn(y, n, read)
      BY <1>0, <2>4, EndIs
    <2> QED  BY <2>1, <2>2, <2>5, WorldKeeps
  <1>2. ASSUME NEW says \in BOOLEAN, ShellExits(s, says) PROVE AgentOK'
    <2> DEFINE z == Notified(Closed(x, says), "error")
               y == [z EXCEPT !.alive = FALSE, !.typed = {}]
    <2>1. session' = [session EXCEPT ![s] = y] /\ UNCHANGED loopVars /\ intruded' = intruded
      BY <1>2 DEF ShellExits
    <2>2. IsRecord(z)
      BY <1>0, ClosedIs, NotifiedIs DEF IsSession
    <2>3. IsRecord(y) /\ y.blocks = z.blocks /\ y.at = z.at
      <3>1. y = [z EXCEPT !.alive = FALSE, !.typed = {}]
        OBVIOUS
      <3> HIDE DEF y, z
      <3> QED  BY <2>2, <3>1 DEF IsRecord
    <2> HIDE DEF y
    <2>4. IsSession(y) /\ Keeps(x, y) /\ \A n, read : MidTurn(x, n, read) => MidTurn(y, n, read)
      BY <1>0, <2>3, EndIs
    <2> QED  BY <2>1, <2>4, WorldKeeps
  <1>3. ASSUME ShellPrints(s) PROVE AgentOK'
    <2>1. PICK n \in x.typed :
             session' = [session EXCEPT ![s].typed = @ \ {n}, ![s].shown = @ \cup {n}]
      BY <1>3 DEF ShellPrints
    <2> DEFINE y == [x EXCEPT !.typed = x.typed \ {n}, !.shown = x.shown \cup {n}]
    <2>2. IsRecord(x) /\ AreSessions(session)
      BY <1>0 DEF IsSession, AgentOK
    <2>3. session' = [session EXCEPT ![s] = y]
      BY <2>1, <2>2 DEF IsRecord, AreSessions
    <2>4. IsRecord(y) /\ y.blocks = x.blocks /\ y.at = x.at /\ y.ring = x.ring
      <3>1. y = [x EXCEPT !.typed = x.typed \ {n}, !.shown = x.shown \cup {n}]
        OBVIOUS
      <3> HIDE DEF x, y
      <3> QED  BY <2>2, <3>1 DEF IsRecord
    <2> HIDE DEF y
    <2>5. IsSession(y) /\ Keeps(x, y) /\ \A m, read : MidTurn(x, m, read) => MidTurn(y, m, read)
      BY <1>0, <2>4, PrintIs
    <2>6. UNCHANGED loopVars /\ intruded' = intruded
      BY <1>3 DEF ShellPrints
    <2> QED  BY <2>3, <2>5, <2>6, WorldKeeps
  <1> QED  BY <1>1, <1>2, <1>3

LEMMA MeddlesKeep ==
  ASSUME AgentOK, NEW s \in Sessions, Meddle(s)
  PROVE  AgentOK'
  <1>0. PICK fault \in Faults : \E a \in OthersAsk(session[s], fault) :
           /\ session' = [session EXCEPT ![s] = a.then]
           /\ intruded' = (intruded \/ a.then.blocks # session[s].blocks)
    BY DEF Meddle
  <1>1. PICK a \in OthersAsk(session[s], fault) :
           /\ session' = [session EXCEPT ![s] = a.then]
           /\ intruded' = (intruded \/ a.then.blocks # session[s].blocks)
    BY <1>0
  <1> DEFINE x == session[s]
             y == a.then
  <1>2. UNCHANGED loopVars
    BY DEF Meddle
  <1>3. IsSession(x)
    BY DEF AgentOK, AreSessions
  <1>4. Leaves(x, y)
    BY <1>1, <1>3, OthersLeave
  <1>5. ~intruded' => ~intruded /\ y.blocks = x.blocks
    BY <1>1
  <1>6. session' = [session EXCEPT ![s] = y]
    BY <1>1
  <1> HIDE DEF y
  <1>7. IsSession(y) /\ Keeps(x, y)
    BY <1>4 DEF Leaves
  <1>8. ~intruded' => \A n, ring : MidTurn(x, n, ring) => MidTurn(y, n, ring)
    BY <1>4, <1>5, TurnGoesOn
  <1> QED  BY <1>2, <1>5, <1>6, <1>7, <1>8, WorldKeeps

\* A request that timed out is handled in the end.
LEMMA LateKeeps ==
  ASSUME AgentOK, LeftBehind, HandledLate
  PROVE  AgentOK'
  <1>1. /\ script' = script /\ line' = line /\ serial' = serial /\ got' = got
        /\ outcome' = outcome /\ intruded' = intruded /\ queued # <<>>
    BY DEF HandledLate, loopVars
  <1> DEFINE step == script[Head(queued)]
  <1>2. step.on \in Sessions /\ step.to \in Sessions
    <2>1. Head(queued) \in DOMAIN script
      BY <1>1 DEF LeftBehind
    <2> QED  BY <2>1, ScriptIs DEF AgentOK
  <1>3. \/ \E fault \in Faults :
              session' = [session EXCEPT ![step.on] = Effect(step.do, session[step.on], fault).then]
        \/ session' = Forwarding(step) \/ session' = session
    BY DEF HandledLate
  <1> HIDE DEF step
  <1>4. IsSession(session[step.on])
    BY <1>2 DEF AgentOK, AreSessions
  <1>5. \A fault : Leaves(session[step.on], Effect(step.do, session[step.on], fault).then)
    BY <1>4, EffectLeaves
  <1>6. AreSessions(session') /\ \A s \in Sessions : Keeps(session[s], session'[s])
    <2>1. CASE session' = Forwarding(step) \/ session' = session
      BY <1>2, <2>1, ForwardingKeeps, SameSessions
    <2>2. ASSUME NEW fault, session' = [session EXCEPT ![step.on] = Effect(step.do, session[step.on], fault).then]
          PROVE  AreSessions(session') /\ \A s \in Sessions : Keeps(session[s], session'[s])
      <3>1. AreSessions(session)
        BY DEF AgentOK
      <3> QED  BY <1>2, <1>5, <2>2, <3>1, OneChanges DEF Leaves
    <2> QED  BY <1>3, <2>1, <2>2
  <1>7. got' # 0 /\ ~intruded' => OwnIn(session', got', serial')
    BY <1>1, <1>6, GotKept DEF AgentOK
  <1>8. ~At("turn") /\ ~At("turn")'
    BY <1>1 DEF LeftBehind, At, Now
  <1> QED  BY <1>1, <1>6, <1>7, <1>8 DEF AgentOK

\* No turn comes next but after a command was started.
LEMMA NoTurnNext ==
  ASSUME AgentOK, NEW n, NEW id, Fail \/ (Advance(n, id) /\ Now.do # "run")
  PROVE  ~At("turn")' /\ script' = script
  <1>1. CASE Fail
    BY <1>1 DEF Fail, At
  <1>2. CASE Advance(n, id) /\ Now.do # "run"
    <2>1. /\ line' = IF line = Len(script) THEN line ELSE line + 1
          /\ outcome' = IF line = Len(script) THEN "done" ELSE outcome
          /\ script' = script
      BY <1>2 DEF Advance
    <2> QED  BY <1>2, <2>1, LineFacts DEF At, Now
  <1> QED  BY <1>1, <1>2

LEMMA LeftStays ==
  ASSUME AgentOK, LeftBehind, [AgentNext]_agentVars
  PROVE  LeftBehind'
  <1>1. ASSUME TimedOut PROVE LeftBehind'
    <2>1. Fail \/ (Advance(serial, got) /\ Now.do # "run")
      BY <1>1 DEF TimedOut, ErrorComes
    <2>2. queued' = Append(queued, line) /\ line \in DOMAIN script
      BY <1>1 DEF TimedOut, AgentOK
    <2>3. queued' \in Seq(DOMAIN script)
      BY <2>2 DEF LeftBehind
    <2> QED  BY <2>1, <2>3, NoTurnNext DEF LeftBehind
  <1>2. ASSUME Unanswered PROVE LeftBehind'
    <2>1. (Fail \/ (Advance(serial, got) /\ Now.do # "run")) /\ queued' = queued
      BY <1>2 DEF Unanswered, ErrorComes, World
    <2> QED  BY <2>1, NoTurnNext DEF LeftBehind
  <1>3. ASSUME LoopStep, ~TimedOut, ~Unanswered, ~JudgeDeadline PROVE LeftBehind'
    <2>1. queued' = queued /\ queued = <<>>
      BY <1>3 DEF LoopStep, RunStep, InputStep, RefusedStep, InterruptStep, TerminateStep, ResizeStep,
         AckStep, RestartStep, ForwardStep, CheckUnread, CheckComplete, CheckListed, AwaitBlock,
         AwaitTail, ReadRing, JudgeTurn, Ask, Check, Await, Answered, Reached, World
    <2>2. <<>> \in Seq(DOMAIN script')
      OBVIOUS
    <2> QED  BY <2>1, <2>2 DEF LeftBehind
  <1>4. ASSUME NEW s \in Sessions,
               \/ \E ok \in BOOLEAN, says \in BOOLEAN : CommandEnds(s, ok, says)
               \/ \E says \in BOOLEAN : ShellExits(s, says)
               \/ ShellPrints(s) \/ Meddle(s)
        PROVE  queued' = queued /\ UNCHANGED <<script, line, outcome>>
    BY <1>4 DEF CommandEnds, ShellExits, ShellPrints, Meddle, loopVars
  <1>5. ASSUME JudgeDeadline \/ AppQuits \/ TimePasses \/ UNCHANGED agentVars
        PROVE  queued' = queued /\ (Fail \/ UNCHANGED <<script, line, outcome>>)
    BY <1>5 DEF JudgeDeadline, AppQuits, TimePasses, World, agentVars, loopVars
  <1>6. ASSUME queued' = queued, Fail \/ UNCHANGED <<script, line, outcome>> PROVE LeftBehind'
    <2>1. script' = script /\ (At("turn")' => At("turn"))
      BY <1>6 DEF Fail, At, Now
    <2> QED  BY <1>6, <2>1 DEF LeftBehind
  <1>7. ASSUME HandledLate PROVE LeftBehind'
    <2>1. /\ queued # <<>> /\ queued' = Tail(queued) /\ UNCHANGED <<script, line, outcome>>
          /\ queued \in Seq(DOMAIN script)
      BY <1>7 DEF HandledLate, loopVars, LeftBehind
    <2>2. Tail(queued) \in Seq(DOMAIN script)
      BY <2>1
    <2>3. ~At("turn")'
      BY <2>1 DEF LeftBehind, At, Now
    <2> QED  BY <2>1, <2>2, <2>3 DEF LeftBehind
  <1> QED  BY <1>1, <1>2, <1>3, <1>4, <1>5, <1>6, <1>7 DEF AgentNext

LEMMA AgentStays ==
  ASSUME AgentOK, LeftBehind, [AgentNext]_agentVars
  PROVE  AgentOK'
  <1>1. ASSUME UNCHANGED agentVars \/ AppQuits \/ TimePasses
        PROVE  AgentOK'
    <2>1. /\ script' = script /\ line' = line /\ serial' = serial /\ got' = got /\ seen' = seen
          /\ outcome' = outcome /\ session' = session /\ intruded' = intruded
      BY <1>1 DEF agentVars, AppQuits, TimePasses, loopVars, World
    <2>2. At("turn")' = At("turn") /\ Here' = Here
      BY <2>1 DEF At, Now, Here
    <2>3. MidTurn(Here, serial, seen)' = MidTurn(Here, serial, seen)
      BY <2>1, <2>2 DEF MidTurn
    <2> QED  BY <2>1, <2>2, <2>3 DEF AgentOK
  <1> QED  BY <1>1, LoopStepKeeps, LateKeeps, ShellsKeep, MeddlesKeep DEF AgentNext

LEMMA OwnReplies == AgentOK => RepliesAreOwn
  BY DEF AgentOK, RepliesAreOwn, OwnIn, DoneBy

\* What a loop takes for the outcome of its command is the outcome of that
\* command, as long as nobody else puts blocks into the sessions, for any loops
\* and any requests by others (wait_for_debate_turn, wait_for_block_with_timeout).
THEOREM RepliesStayOwn == AgentSpec => []RepliesAreOwn
  <1>1. AgentInit => AgentOK /\ LeftBehind
    <2>1. ASSUME AgentInit PROVE LeftBehind
      <3>1. queued = <<>>
        BY <2>1 DEF AgentInit
      <3>2. \A S : <<>> \in Seq(S)
        OBVIOUS
      <3> QED  BY <3>1, <3>2 DEF LeftBehind
    <2> QED  BY <2>1, AgentStarts
  <1>2. AgentOK /\ LeftBehind /\ [AgentNext]_agentVars => AgentOK' /\ LeftBehind'
    BY AgentStays, LeftStays
  <1> QED  BY <1>1, <1>2, OwnReplies, PTL DEF AgentSpec
==============================================================================
