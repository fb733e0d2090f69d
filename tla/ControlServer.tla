---------------------------- MODULE ControlServer ----------------------------
(***************************************************************************)
(* The control server: the threads of its connections                      *)
(* (handle_connection, handle_line and queue_request of                    *)
(* agenthouse/src/control_server.rs), the queue to the UI thread and       *)
(* drain_control_requests of agenthouse/src/shell.rs at the other end.     *)
(*                                                                         *)
(* A connection's thread reads one line, queues its request together with  *)
(* a reply channel made for it, and waits for the reply up to              *)
(* RESPONSE_TIMEOUT; only then it reads the next line.  A line that is no  *)
(* request is answered by the thread itself; one that cannot be read ends  *)
(* the thread without an answer; one that asks to watch events keeps the   *)
(* thread for good (what it does then is in module EventStream).  The UI   *)
(* thread takes requests off the queue on its own time, also those nobody  *)
(* waits for any more.                                                     *)
(*                                                                         *)
(* A line is a number, in the order in which clients write them, and so is *)
(* its request.  Left out: a connection whose stream cannot be cloned or   *)
(* whose thread cannot be started, and what a watching thread queues.      *)
(***************************************************************************)
EXTENDS Naturals, Sequences

CONSTANTS
  Clients,     \* connections
  MaxRequests, \* lines written by all clients (bound)
  Inputs       \* what clients may write: the kind of each line

Kinds == {"request",      \* a ControlRequest but WatchEvents
          "undecodable",  \* a text that is no ControlRequest
          "watch",        \* WatchEvents
          "unreadable"}   \* bytes that are not UTF-8, or a read that fails

ASSUME RequestsAssumption == MaxRequests \in Nat /\ Inputs \subseteq [1..MaxRequests -> Kinds]

VARIABLES
  up,       \* the shell is there to take requests
  open,     \* clients that have not closed their connection
  kindOf,   \* the kind of each line
  serving,  \* clients whose connection thread still reads lines
  asked,    \* what each client wrote
  taken,    \* how many of these lines the connection's thread took
  waiting,  \* the request that thread waits for, 0 while it waits for none
  queue,    \* requests on their way to the UI thread
  handled,  \* requests the UI thread handled, in order
  replies,  \* messages in reply channels somebody waits on
  answers   \* what was written back to each client

vars == <<up, open, kindOf, serving, asked, taken, waiting, queue, handled, replies, answers>>

Requests == 1..MaxRequests
NoId == 0           \* the id "" of a response to a line that has none
Ids == {NoId} \cup Requests
Results == {"handled", "timeout", "server_closed", "decode_error"}
Answer(r, result) == [req |-> r, result |-> result]
IsRequest(r) == kindOf[r] = "request"

\* The id under which a line is answered.
IdOf(r) == IF kindOf[r] = "undecodable" THEN NoId ELSE r

Written == UNION {{asked[c][i] : i \in DOMAIN asked[c]} : c \in Clients}
------------------------------------------------------------------------------
(***************************************************************************)
(* The clients.                                                            *)
(***************************************************************************)

\* A client may write a line before the last one was answered.
WriteLine(c) ==
  /\ c \in open
  /\ \E r \in Requests \ Written :
       /\ \A q \in Requests \ Written : r <= q
       /\ asked' = [asked EXCEPT ![c] = Append(@, r)]
  /\ UNCHANGED <<up, open, kindOf, serving, taken, waiting, queue, handled, replies, answers>>

Close(c) ==
  /\ c \in open
  /\ open' = open \ {c}
  /\ UNCHANGED <<up, kindOf, serving, asked, taken, waiting, queue, handled, replies, answers>>
------------------------------------------------------------------------------
(***************************************************************************)
(* The thread of a connection.                                             *)
(***************************************************************************)

\* write_response: a write to a client that is gone fails, and the thread ends.
WriteResponse(c, answer) ==
  IF c \in open
  THEN answers' = [answers EXCEPT ![c] = Append(@, answer)] /\ UNCHANGED serving
  ELSE serving' = serving \ {c} /\ UNCHANGED answers

\* The reply channel of a request belongs to that request alone.
ChannelOfConnection(c, r) == c                                              \* mutant
Channel(c, r) == r

NextLine(c) == asked[c][taken[c] + 1]
CanRead(c) == c \in serving /\ waiting[c] = 0 /\ taken[c] < Len(asked[c])

QueueRequest(c) ==
  /\ CanRead(c) /\ IsRequest(NextLine(c)) /\ up
  /\ taken' = [taken EXCEPT ![c] = @ + 1]
  /\ waiting' = [waiting EXCEPT ![c] = NextLine(c)]
  /\ queue' = Append(queue, [req |-> NextLine(c), to |-> Channel(c, NextLine(c))])
  /\ UNCHANGED <<up, open, kindOf, serving, asked, handled, replies, answers>>

QueueIsClosed(c) ==
  /\ CanRead(c) /\ IsRequest(NextLine(c)) /\ ~up
  /\ taken' = [taken EXCEPT ![c] = @ + 1]
  /\ WriteResponse(c, Answer(NextLine(c), "server_closed"))
  /\ UNCHANGED <<up, open, kindOf, asked, waiting, queue, handled, replies>>

\* handle_line: what is no request is answered at once, under no id.
AnswerUndecodable(c) ==
  /\ CanRead(c) /\ kindOf[NextLine(c)] = "undecodable"
  /\ taken' = [taken EXCEPT ![c] = @ + 1]
  /\ WriteResponse(c, Answer(NoId, "decode_error"))
  /\ UNCHANGED <<up, open, kindOf, asked, waiting, queue, handled, replies>>

\* The loop over lines is left, and no line is read after this one.
LeaveLoop(c) ==
  /\ taken' = [taken EXCEPT ![c] = @ + 1]
  /\ serving' = serving \ {c}
  /\ UNCHANGED <<up, open, kindOf, asked, waiting, queue, handled, replies, answers>>

ReadFails(c) == CanRead(c) /\ kindOf[NextLine(c)] = "unreadable" /\ LeaveLoop(c)

\* handle_watch_events sends events from now on, and answers no line.
WatchEvents(c) == CanRead(c) /\ kindOf[NextLine(c)] = "watch" /\ LeaveLoop(c)

StopWaiting(c) == waiting' = [waiting EXCEPT ![c] = 0]

ReplyArrives(c) ==
  /\ waiting[c] # 0
  /\ \E m \in replies :
       /\ m.to = Channel(c, waiting[c])
       /\ replies' = replies \ {m}
       /\ StopWaiting(c)
       /\ WriteResponse(c, Answer(m.req, "handled"))
  /\ UNCHANGED <<up, open, kindOf, asked, taken, queue, handled>>

NoReplyFor(c) == ~\E m \in replies : m.to = Channel(c, waiting[c])

WaitForReply(c) == FALSE /\ UNCHANGED vars                                   \* mutant
TimeOut(c) ==
  /\ waiting[c] # 0
  /\ NoReplyFor(c)
  /\ StopWaiting(c)
  /\ WriteResponse(c, Answer(waiting[c], "timeout"))
  /\ UNCHANGED <<up, open, kindOf, asked, taken, queue, handled, replies>>

\* The sender of the reply was dropped with the queue.
Disconnected(c) ==
  /\ waiting[c] # 0 /\ ~up
  /\ NoReplyFor(c)
  /\ StopWaiting(c)
  /\ WriteResponse(c, Answer(waiting[c], "server_closed"))
  /\ UNCHANGED <<up, open, kindOf, asked, taken, queue, handled, replies>>
------------------------------------------------------------------------------
(***************************************************************************)
(* The UI thread.                                                          *)
(***************************************************************************)
\* The reply goes into the channel of its request; nobody may wait there any
\* more, and then it is lost.
Reply(m) == IF \E c \in Clients : waiting[c] # 0 /\ m.to = Channel(c, waiting[c])
            THEN replies \cup {m} ELSE replies

HandleNewest ==                                                             \* mutant
  /\ up /\ queue # <<>>
  /\ queue' = SubSeq(queue, 1, Len(queue) - 1)
  /\ handled' = Append(handled, queue[Len(queue)].req)
  /\ replies' = Reply(queue[Len(queue)])
  /\ UNCHANGED <<up, open, kindOf, serving, asked, taken, waiting, answers>>
HandleAwaited ==                                                            \* mutant
  /\ up /\ queue # <<>>
  /\ queue' = Tail(queue)
  /\ handled' = IF Reply(Head(queue)) = replies THEN handled
                ELSE Append(handled, Head(queue).req)
  /\ replies' = Reply(Head(queue))
  /\ UNCHANGED <<up, open, kindOf, serving, asked, taken, waiting, answers>>
HandleControlRequest ==
  /\ up /\ queue # <<>>
  /\ queue' = Tail(queue)
  /\ handled' = Append(handled, Head(queue).req)
  /\ replies' = Reply(Head(queue))
  /\ UNCHANGED <<up, open, kindOf, serving, asked, taken, waiting, answers>>

\* The shell is dropped while the threads of the server go on.
ShellGone ==
  /\ up
  /\ up' = FALSE
  /\ queue' = <<>>
  /\ UNCHANGED <<open, kindOf, serving, asked, taken, waiting, handled, replies, answers>>

Init ==
  /\ up = TRUE
  /\ open = Clients
  /\ kindOf \in Inputs
  /\ serving = Clients
  /\ asked = [c \in Clients |-> <<>>]
  /\ taken = [c \in Clients |-> 0]
  /\ waiting = [c \in Clients |-> 0]
  /\ queue = <<>>
  /\ handled = <<>>
  /\ replies = {}
  /\ answers = [c \in Clients |-> <<>>]

ThreadStep(c) == QueueRequest(c) \/ QueueIsClosed(c) \/ ReplyArrives(c) \/ TimeOut(c)
                   \/ Disconnected(c)
                   \/ AnswerUndecodable(c) \/ ReadFails(c) \/ WatchEvents(c)
Next ==
  \/ \E c \in Clients : WriteLine(c) \/ Close(c) \/ ThreadStep(c)
  \/ HandleControlRequest
  \/ ShellGone

Spec == Init /\ [][Next]_vars

\* A connection's thread never waits longer than the timeout.
FairSpec == Spec /\ \A c \in Clients : WF_vars(ThreadStep(c))
------------------------------------------------------------------------------
(***************************************************************************)
(* Properties.                                                             *)
(***************************************************************************)
Position(r) == CHOOSE i \in DOMAIN handled : handled[i] = r
IsHandled(r) == \E i \in DOMAIN handled : handled[i] = r

\* The n-th answer on a connection is the answer to the n-th line, and carries
\* its id if the line has one: a reply that comes after its request timed out is
\* never taken for the next one's.
AnswersMatchLines ==
  \A c \in Clients :
    /\ Len(answers[c]) <= Len(asked[c])
    /\ \A i \in DOMAIN answers[c] : answers[c][i].req = IdOf(asked[c][i])

\* A client that is told "handled" can rely on it, and one that repeats a request
\* after "timeout" repeats it behind the first: of two requests of a connection
\* the later is handled only after the earlier was.
HandledInOrder ==
  /\ \A c \in Clients : \A i \in DOMAIN answers[c] :
       answers[c][i].result = "handled" => IsHandled(answers[c][i].req)
  /\ \A c \in Clients : \A i, j \in DOMAIN asked[c] :
       i < j /\ IsRequest(asked[c][i]) /\ IsHandled(asked[c][j]) =>
         IsHandled(asked[c][i]) /\ Position(asked[c][i]) < Position(asked[c][j])

\* Every line a client writes is answered while the client is there, also when
\* the UI thread is busy or gone, until the client writes what cannot be read or
\* asks to watch events: that line has no answer, nor has any after it.
EveryLineIsAnswered ==
  \A c \in Clients, n \in Requests :
    /\ Len(asked[c]) >= n
    /\ \A i \in 1..n : kindOf[asked[c][i]] \in {"request", "undecodable"}
    ~> (Len(answers[c]) >= n \/ c \notin open)

\* "timeout" is not "not done": what was queued is handled, however late, unless
\* the shell goes away, if the UI thread drains its queue (which it does every
\* 50 ms).
QueuedIsHandled ==
  WF_vars(HandleControlRequest) => \A r \in Requests :
    (\E i \in DOMAIN queue : queue[i].req = r) ~> (IsHandled(r) \/ ~up)
==============================================================================
