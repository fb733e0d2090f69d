----------------------------- MODULE EventStream -----------------------------
(***************************************************************************)
(* The event log of the application, the clients that watch it, and the    *)
(* store that carries it over a restart: push_event, list_events,          *)
(* drain_control_requests and the event part of persist_state and          *)
(* restore_from_store in agenthouse/src/shell.rs, and handle_watch_events  *)
(* in agenthouse/src/control_server.rs.                                    *)
(*                                                                         *)
(* Threads.  The log belongs to the UI thread, which handles one control   *)
(* request, or one action of the user, at a time.  Every watcher is a      *)
(* thread of the control server with a connection of its own; it asks the  *)
(* UI thread for events and writes what it got to the client.              *)
(*                                                                         *)
(* Persistence.  Every control request ends with persist_state before its  *)
(* answer is sent; an action of the user does not.  The control state is   *)
(* one row, written by one statement, so a crash finds the old or the new. *)
(*                                                                         *)
(* Data.  An event is its sequence number and the life (launch) of the     *)
(* application it was pushed in, which is enough to tell two events apart. *)
(***************************************************************************)
EXTENDS Naturals, Sequences

CONSTANTS
  Watchers,   \* connections of watching clients
  MaxEvents,  \* events the log retains
  Limit,      \* events in one answer
  MaxSeq,     \* events the run pushes (bound)
  MaxLives    \* launches of the application (bound)

ASSUME StreamAssumption ==
  /\ MaxEvents \in Nat \ {0}
  /\ Limit \in Nat \ {0}
  /\ MaxSeq \in Nat
  /\ MaxLives \in Nat

VARIABLES
  up,      \* the application runs
  life,    \* how often it was launched
  log,     \* AgentHouseShell.events and next_event_sequence
  saved,   \* the same two in the store's control_state row
  watch,   \* where the thread of each watcher is
  since,   \* its since_sequence, 0 for None
  answer,  \* the events it has still to write
  shown    \* every event that was ever written to a client

vars == <<up, life, log, saved, watch, since, answer, shown>>

EventIds == [seq: Nat \ {0}, life: Nat]
Logs == [events: Seq(EventIds), next: Nat \ {0}]
NoRow == [events |-> <<>>, next |-> 0]
------------------------------------------------------------------------------
\* The last n of a sequence.
Newest(s, n) == IF Len(s) > n THEN SubSeq(s, Len(s) - n + 1, Len(s)) ELSE s

\* push_event
Pushed(l) == [events |-> Newest(Append(l.events, [seq |-> l.next, life |-> life]), MaxEvents),
              next |-> l.next + 1]
CanPush == log.next <= MaxSeq

\* list_events: of the events after the given number, the newest ones.
KeptAfter(events, s) ==
  LET kept[i \in 0..Len(events)] ==
        IF i = 0 THEN <<>>
        ELSE IF events[i].seq > s THEN Append(kept[i - 1], events[i])
        ELSE kept[i - 1]
  IN kept
After(l, s) == KeptAfter(l.events, s)[Len(l.events)]

ListTooLate(l, s) == Newest(After(l, s + 1), Limit)                         \* mutant
ListOne(l, s) == Newest(After(l, s), 1)                                     \* mutant
ListEvents(l, s) == Newest(After(l, s), Limit)

PersistNothing(l) == saved' = saved                                         \* mutant
PersistState(l) == saved' = l
------------------------------------------------------------------------------
(***************************************************************************)
(* The UI thread.                                                          *)
(***************************************************************************)

\* What the user does pushes an event and persists nothing.
UserActs ==
  /\ up /\ CanPush
  /\ log' = Pushed(log)
  /\ UNCHANGED <<up, life, saved, watch, since, answer, shown>>

\* Any control request but a watcher's: it pushes an event or none.
HandleRequest ==
  /\ up
  /\ \/ CanPush /\ log' = Pushed(log)
     \/ UNCHANGED log
  /\ PersistState(log')
  /\ UNCHANGED <<up, life, watch, since, answer, shown>>

\* The request of watcher w is answered.
HandleListEvents(w) ==
  /\ up /\ watch[w] = "asking"
  /\ answer' = [answer EXCEPT ![w] = ListEvents(log, since[w])]
  /\ watch' = [watch EXCEPT ![w] = "writing"]
  /\ PersistState(log)
  /\ UNCHANGED <<up, life, log, since, shown>>
------------------------------------------------------------------------------
(***************************************************************************)
(* handle_watch_events, the thread of watcher w.                           *)
(***************************************************************************)
Connect(w, s) ==
  /\ up /\ watch[w] = "off"
  /\ watch' = [watch EXCEPT ![w] = "asking"]
  /\ since' = [since EXCEPT ![w] = s]
  /\ UNCHANGED <<up, life, log, saved, answer, shown>>

\* The client is gone, the answer did not come in time, or a write failed.
Disconnect(w) ==
  /\ watch[w] # "off"
  /\ watch' = [watch EXCEPT ![w] = "off"]
  /\ answer' = [answer EXCEPT ![w] = <<>>]
  /\ since' = [since EXCEPT ![w] = 0]
  /\ UNCHANGED <<up, life, log, saved, shown>>

WriteEvent(w) ==
  /\ watch[w] = "writing" /\ answer[w] # <<>>
  /\ since' = [since EXCEPT ![w] = Head(answer[w]).seq]
  /\ shown' = shown \cup {Head(answer[w])}
  /\ answer' = [answer EXCEPT ![w] = Tail(@)]
  /\ watch' = [watch EXCEPT ![w] = IF Tail(answer[w]) = <<>> THEN "asking" ELSE @]
  /\ UNCHANGED <<up, life, log, saved>>

\* Nothing new: a heartbeat, half a second of sleep, and the next question.
Heartbeat(w) ==
  /\ watch[w] = "writing" /\ answer[w] = <<>>
  /\ watch' = [watch EXCEPT ![w] = "asking"]
  /\ UNCHANGED <<up, life, log, saved, since, answer, shown>>
------------------------------------------------------------------------------
(***************************************************************************)
(* The life of the application.                                            *)
(***************************************************************************)
Crash ==
  /\ up
  /\ up' = FALSE
  /\ watch' = [w \in Watchers |-> "off"]
  /\ answer' = [w \in Watchers |-> <<>>]
  /\ since' = [w \in Watchers |-> 0]
  /\ UNCHANGED <<life, log, saved, shown>>

\* apply_control_state: the counter is never behind the events.
NextAfter(row) ==
  LET past == {row.events[i].seq + 1 : i \in DOMAIN row.events} \cup {1, row.next}
  IN CHOOSE n \in past : \A m \in past : m <= n
Fresh == [events |-> <<[seq |-> 1, life |-> life']>>, next |-> 2]
Restored == [events |-> saved.events, next |-> NextAfter(saved)]

\* AgentHouseShell::new.  A shell that has workspaces to restore says so in an
\* event, and whatever was restored is persisted.
Launch ==
  /\ ~up /\ life < MaxLives
  /\ up' = TRUE
  /\ life' = life + 1
  /\ \/ saved = NoRow /\ log' = Fresh
     \/ saved # NoRow /\ log' = Restored
     \/ /\ saved # NoRow /\ Restored.next <= MaxSeq
        /\ log' = [events |-> Newest(Append(Restored.events, [seq |-> Restored.next, life |-> life']),
                                     MaxEvents),
                   next |-> Restored.next + 1]
  /\ PersistState(log')
  /\ UNCHANGED <<watch, since, answer, shown>>

Init ==
  /\ up = FALSE
  /\ life = 0
  /\ log = NoRow
  /\ saved = NoRow
  /\ watch = [w \in Watchers |-> "off"]
  /\ since = [w \in Watchers |-> 0]
  /\ answer = [w \in Watchers |-> <<>>]
  /\ shown = {}

\* A client starts at the beginning or after an event that it has seen.
Cursors == {0} \cup {e.seq : e \in shown}

Next ==
  \/ UserActs \/ HandleRequest \/ Crash \/ Launch
  \/ \E w \in Watchers :
       \/ HandleListEvents(w) \/ WriteEvent(w) \/ Heartbeat(w) \/ Disconnect(w)
       \/ \E s \in Cursors : Connect(w, s)

Spec == Init /\ [][Next]_vars

\* The UI thread drains its requests every 50 ms, and a watcher's thread goes
\* on by itself.
Fairness == \A w \in Watchers :
  WF_vars(HandleListEvents(w)) /\ WF_vars(WriteEvent(w)) /\ WF_vars(Heartbeat(w))
FairSpec == Spec /\ Fairness
------------------------------------------------------------------------------
(***************************************************************************)
(* Properties.                                                             *)
(***************************************************************************)

\* A sequence number that a client has seen stands for the same event for ever,
\* over crashes that lose what was not persisted: list_events is answered after
\* persist_state, so whatever a client can see is in the store.
SameNumberSameEvent ==
  \A e \in shown :
    /\ \A f \in shown : f.seq = e.seq => f = e
    /\ \A i \in DOMAIN log.events : up /\ log.events[i].seq = e.seq => log.events[i] = e

\* A watcher misses events only when it was far behind: the answer was full, or
\* the events were no longer retained.
GapsOnlyWhenFarBehind ==
  [][\A w \in Watchers :
       /\ watch[w] = "asking" /\ watch'[w] = "writing"
       /\ log.next > since[w] + 1
       => \/ answer'[w] # <<>> /\ Head(answer'[w]).seq = since[w] + 1
          \/ Len(answer'[w]) = Limit
          \/ \A i \in DOMAIN log.events : log.events[i].seq > since[w] + 1]_vars

\* A watcher that stays connected catches up with every event there is.
CatchesUp ==
  \A w \in Watchers, k \in 1..MaxSeq :
    (watch[w] # "off" /\ log.next > k) ~> (watch[w] = "off" \/ since[w] >= k)
==============================================================================
