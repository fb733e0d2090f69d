-------------------------- MODULE EventStreamProofs --------------------------
(***************************************************************************)
(* What a sequence number stands for, and what a watcher may miss, proved  *)
(* for any log length, answer length and number of watchers and launches.  *)
(*                                                                         *)
(* The log always holds consecutive numbers up to the next one             *)
(* (Consecutive), so the filter of list_events returns its end.  That      *)
(* takes an induction along the log.                                       *)
(***************************************************************************)
EXTENDS EventStream, NaturalInduction, SequenceTheorems

TypeOK ==
  /\ up \in BOOLEAN
  /\ life \in Nat
  /\ log \in Logs \cup {NoRow}
  /\ saved \in Logs \cup {NoRow}
  /\ up => log \in Logs
  /\ watch \in [Watchers -> {"off", "asking", "writing"}]
  /\ since \in [Watchers -> Nat]
  /\ answer \in [Watchers -> Seq(EventIds)]
  /\ shown \in SUBSET EventIds

\* The numbers of the events are consecutive, and the next one follows the last.
Consecutive(l) ==
  \A i \in 1..Len(l.events) : l.events[i].seq = l.next - Len(l.events) + i - 1

\* What was shown, or is about to be.
Sent == shown \cup UNION {{answer[w][i] : i \in 1..Len(answer[w])} : w \in Watchers}

\* The event with the number of e in a log, if there is one, is e.
Agrees(e, l) == \A i \in 1..Len(l.events) : l.events[i].seq = e.seq => l.events[i] = e

\* What was sent is behind what is saved, and what is saved is behind the log.
SentIsSaved ==
  /\ \A e \in Sent : e.seq < saved.next /\ Agrees(e, saved) /\ (up => Agrees(e, log))
  /\ \A e, f \in Sent : e.seq = f.seq => e = f
  /\ up => saved.next <= log.next

IInv ==
  /\ TypeOK
  /\ Consecutive(log) /\ Consecutive(saved)
  /\ SentIsSaved
  /\ \A w \in Watchers : watch[w] # "off" => up
-----------------------------------------------------------------------------
(***************************************************************************)
(* Sequences of events.                                                    *)
(***************************************************************************)
LEMMA NewestIsEnd ==
  ASSUME NEW S, NEW s \in Seq(S), NEW n \in Nat
  PROVE  /\ Newest(s, n) \in Seq(S)
         /\ Len(Newest(s, n)) = IF Len(s) > n THEN n ELSE Len(s)
         /\ \A i \in 1..Len(Newest(s, n)) :
              Newest(s, n)[i] = s[Len(s) - Len(Newest(s, n)) + i]
  <1>1. CASE Len(s) > n
    <2> DEFINE m == Len(s) - n + 1
    <2>1. m \in 1..(Len(s) + 1) /\ Len(s) \in 0..Len(s) /\ Newest(s, n) = SubSeq(s, m, Len(s))
      BY <1>1 DEF Newest
    <2>2. /\ SubSeq(s, m, Len(s)) \in Seq(S)
          /\ Len(SubSeq(s, m, Len(s))) = n
          /\ \A i \in 1..n : SubSeq(s, m, Len(s))[i] = s[m + i - 1]
      BY <2>1, <1>1
    <2> QED  BY <2>1, <2>2, <1>1
  <1>2. CASE ~ (Len(s) > n)
    BY <1>2 DEF Newest
  <1> QED  BY <1>1, <1>2

\* The filter of list_events, step by step.
LEMMA KeptAfterStep ==
  ASSUME NEW es \in Seq(EventIds), NEW s \in Nat
  PROVE  /\ KeptAfter(es, s) \in [0..Len(es) -> Seq(EventIds)]
         /\ KeptAfter(es, s)[0] = <<>>
         /\ \A i \in 1..Len(es) :
              KeptAfter(es, s)[i] = IF es[i].seq > s
                                    THEN Append(KeptAfter(es, s)[i - 1], es[i])
                                    ELSE KeptAfter(es, s)[i - 1]
  <1> DEFINE step == [i \in Nat |-> [kept \in Seq(EventIds) |->
                        IF i \in 1..Len(es) /\ es[i].seq > s THEN Append(kept, es[i]) ELSE kept]]
             Body(f) == [i \in 0..Len(es) |->
                           IF i = 0 THEN <<>>
                           ELSE IF es[i].seq > s THEN Append(f[i - 1], es[i]) ELSE f[i - 1]]
  <1>1. step \in [Nat -> [Seq(EventIds) -> Seq(EventIds)]]
    <2>1. ASSUME NEW i \in Nat, NEW kept \in Seq(EventIds)
          PROVE  (IF i \in 1..Len(es) /\ es[i].seq > s THEN Append(kept, es[i]) ELSE kept)
                   \in Seq(EventIds)
      <3>1. i \in 1..Len(es) => es[i] \in EventIds
        BY ElementOfSeq
      <3> QED  BY <3>1, AppendProperties
    <2> QED  BY <2>1
  <1>2. PICK f \in [0..Len(es) -> Seq(EventIds)] : Follows(f, <<>>, step, Len(es))
    <2> HIDE DEF step
    <2>1. <<>> \in Seq(EventIds) /\ Len(es) \in Nat
      OBVIOUS
    <2> QED  BY <1>1, <2>1, FiniteRecursion
  <1>3. ASSUME NEW i \in 1..Len(es)
        PROVE  f[i] = IF es[i].seq > s THEN Append(f[i - 1], es[i]) ELSE f[i - 1]
    <2>1. f[i] = step[i][f[i - 1]] /\ f[i - 1] \in Seq(EventIds) /\ i \in Nat
      <3> HIDE DEF step
      <3>1. f[i] = step[i][f[i - 1]]
        BY <1>2 DEF Follows
      <3>2. i - 1 \in 0..Len(es)
        OBVIOUS
      <3> QED  BY <3>1, <3>2
    <2> QED  BY <2>1
  <1>4. f = Body(f)
    <2>1. ASSUME NEW i \in 0..Len(es) PROVE f[i] = Body(f)[i]
      <3>1. i = 0 \/ i \in 1..Len(es)
        OBVIOUS
      <3> QED  BY <3>1, <1>2, <1>3 DEF Follows
    <2>2. f = [i \in 0..Len(es) |-> f[i]]
      OBVIOUS
    <2> QED  BY <2>1, <2>2
  <1> DEFINE g == KeptAfter(es, s)
  <1>5. g = Body(g)
    BY <1>4 DEF KeptAfter
  <1>6. \A i \in 0..Len(es) : g[i] = f[i]
    <2> DEFINE T == {i \in 0..Len(es) : g[i] = f[i]}
    <2>1. 0 \in T
      BY <1>4, <1>5
    <2>2. ASSUME NEW i \in 1..Len(es), i - 1 \in T PROVE i \in T
      <3>1. Body(g)[i] = IF es[i].seq > s THEN Append(g[i - 1], es[i]) ELSE g[i - 1]
        <4> HIDE DEF g
        <4>1. i \in 0..Len(es) /\ i # 0
          OBVIOUS
        <4> QED  BY <4>1
      <3>2. g[i - 1] = f[i - 1]
        BY <2>2
      <3>3. g[i] = f[i]
        <4> HIDE DEF g, Body
        <4> QED  BY <3>1, <3>2, <1>5, <1>3
      <3> QED  BY <3>3
    <2>3. 0..Len(es) \subseteq T
      <3>1. Len(es) \in Nat
        OBVIOUS
      <3> HIDE DEF T
      <3> QED  BY <2>1, <2>2, <3>1, BoundedInduction
    <2> QED  BY <2>3
  <1>7. g = f
    <2> HIDE DEF g
    <2>1. g = [i \in 0..Len(es) |-> g[i]]
      BY <1>5
    <2> QED  BY <2>1, <1>6
  <1> QED  BY <1>7, <1>2, <1>3 DEF Follows

\* On consecutive numbers it keeps the end of the log.
LEMMA AfterIsEnd ==
  ASSUME NEW l \in Logs, Consecutive(l), NEW s \in Nat, NEW k \in 0..Len(l.events),
         \A i \in 1..Len(l.events) : l.events[i].seq > s <=> i > k
  PROVE  /\ After(l, s) \in Seq(EventIds)
         /\ Len(After(l, s)) = Len(l.events) - k
         /\ \A i \in 1..Len(After(l, s)) : After(l, s)[i] = l.events[k + i]
  <1> DEFINE es == l.events
             f == KeptAfter(es, s)
             IsEnd(i) == /\ Len(f[i]) = IF i > k THEN i - k ELSE 0
                         /\ \A j \in 1..Len(f[i]) : f[i][j] = es[k + j]
             T == {i \in 0..Len(es) : IsEnd(i)}
  <1>1. es \in Seq(EventIds) /\ Len(es) \in Nat
    BY DEF Logs
  <1> HIDE DEF es
  <1>2. /\ f \in [0..Len(es) -> Seq(EventIds)]
        /\ f[0] = <<>>
        /\ \A i \in 1..Len(es) :
             f[i] = IF es[i].seq > s THEN Append(f[i - 1], es[i]) ELSE f[i - 1]
    BY <1>1, KeptAfterStep
  <1> HIDE DEF f
  <1>3. 0 \in T
    BY <1>1, <1>2
  <1>4. ASSUME NEW i \in 1..Len(es), i - 1 \in T PROVE i \in T
    <2>1. f[i - 1] \in Seq(EventIds) /\ es[i] \in EventIds
      <3>1. i - 1 \in 0..Len(es) /\ i \in 1..Len(es)
        BY <1>1
      <3> QED  BY <3>1, <1>1, <1>2, ElementOfSeq
    <2>2. CASE i > k
      <3>1. f[i] = Append(f[i - 1], es[i])
        BY <1>2, <2>2 DEF es
      <3>2. Len(f[i - 1]) = i - 1 - k
        <4>1. Len(f[i - 1]) = IF i - 1 > k THEN i - 1 - k ELSE 0
          BY <1>4
        <4> QED  BY <4>1, <2>2, <1>1
      <3>3. Len(f[i]) = i - k
        BY <3>1, <3>2, <2>1
      <3>4. ASSUME NEW j \in 1..Len(f[i]) PROVE f[i][j] = es[k + j]
        BY <3>1, <3>2, <3>3, <2>1, <1>4, <1>1
      <3> QED  BY <3>3, <3>4, <2>2
    <2>3. CASE ~ (i > k)
      <3>1. f[i] = f[i - 1]
        BY <1>2, <2>3 DEF es
      <3> QED  BY <3>1, <1>4, <2>3, <1>1
    <2> QED  BY <2>2, <2>3
  <1>5. 0..Len(es) \subseteq T
    <2> HIDE DEF T
    <2> QED  BY <1>1, <1>3, <1>4, BoundedInduction
  <1>6. IsEnd(Len(es))
    BY <1>5, <1>1
  <1> QED  BY <1>6, <1>1, <1>2 DEF After, es, f

\* An answer is made of events of the log, its last one is the newest of all, and
\* it is full unless it starts with the first event that was asked for.
LEMMA AnswerIsEnd ==
  ASSUME NEW l \in Logs, Consecutive(l), NEW s \in Nat
  PROVE  /\ ListEvents(l, s) \in Seq(EventIds)
         /\ \A i \in 1..Len(ListEvents(l, s)) :
              \E j \in 1..Len(l.events) : ListEvents(l, s)[i] = l.events[j]
         /\ l.next > s + 1 =>
              \/ ListEvents(l, s) # <<>> /\ Head(ListEvents(l, s)).seq = s + 1
              \/ Len(ListEvents(l, s)) = Limit
              \/ \A i \in 1..Len(l.events) : l.events[i].seq > s + 1
  <1> DEFINE es == l.events
             n == Len(es)
             base == l.next - n
             k == IF s < base THEN 0 ELSE IF s >= l.next THEN n ELSE s - base + 1
             list == ListEvents(l, s)
  <1>1. es \in Seq(EventIds) /\ n \in Nat /\ l.next \in Nat /\ base \in Int
    BY DEF Logs
  <1>2. k \in 0..n
    BY <1>1
  <1>3. \A i \in 1..n : es[i].seq = base + i - 1
    BY DEF Consecutive
  <1>4. \A i \in 1..n : es[i].seq > s <=> i > k
    <2> SUFFICES ASSUME NEW i \in 1..n PROVE es[i].seq > s <=> i > k
      OBVIOUS
    <2>1. base + i - 1 > s <=> i > k
      BY <1>1
    <2> QED  BY <2>1, <1>3
  <1>5. /\ After(l, s) \in Seq(EventIds)
        /\ Len(After(l, s)) = n - k
        /\ \A i \in 1..Len(After(l, s)) : After(l, s)[i] = es[k + i]
    <2> HIDE DEF k
    <2> QED  BY <1>2, <1>4, AfterIsEnd
  <1>6. /\ list \in Seq(EventIds)
        /\ Len(list) = IF n - k > Limit THEN Limit ELSE n - k
        /\ \A i \in 1..Len(list) : list[i] = After(l, s)[n - k - Len(list) + i]
    BY <1>5, StreamAssumption, NewestIsEnd DEF ListEvents
  <1> HIDE DEF list
  <1>7. \A i \in 1..Len(list) : list[i] = es[n - Len(list) + i]
    <2> HIDE DEF k, n, es
    <2> SUFFICES ASSUME NEW i \in 1..Len(list) PROVE list[i] = es[n - Len(list) + i]
      OBVIOUS
    <2>1. n - k - Len(list) + i \in 1..(n - k)
      BY <1>1, <1>2, <1>6, StreamAssumption
    <2>2. k + (n - k - Len(list) + i) = n - Len(list) + i
      BY <1>1, <1>2, <1>6, StreamAssumption
    <2> QED  BY <2>1, <2>2, <1>5, <1>6
  <1>8. ASSUME NEW i \in 1..Len(list) PROVE n - Len(list) + i \in 1..n
    <2> HIDE DEF k, n, es
    <2> QED  BY <1>1, <1>2, <1>6, StreamAssumption
  <1>9. ASSUME l.next > s + 1, Len(list) # Limit, NEW i \in 1..n, es[i].seq <= s + 1
        PROVE  list # <<>> /\ Head(list).seq = s + 1
    <2>1. base <= s + 1
      BY <1>1, <1>3, <1>9
    <2>2. Len(list) = n - k /\ 0 < n - k
      <3>1. k < n
        BY <2>1, <1>1, <1>9
      <3> HIDE DEF k, n
      <3> QED  BY <3>1, <1>1, <1>2, <1>6, <1>9, StreamAssumption
    <2>3. list[1] = es[k + 1] /\ k + 1 \in 1..n
      <3> HIDE DEF k, n, es
      <3>1. 1 \in 1..Len(list) /\ n - Len(list) + 1 = k + 1 /\ k + 1 \in 1..n
        BY <2>2, <1>1, <1>2
      <3> QED  BY <3>1, <1>7
    <2>4. base + (k + 1) - 1 = s + 1
      BY <2>1, <1>1, <1>9
    <2>5. list # <<>> /\ Head(list) = list[1]
      BY <2>2, <1>6
    <2> QED  BY <2>3, <2>4, <2>5, <1>3
  <1>10. \A i \in 1..n : es[i].seq \in Int
    BY <1>1, <1>3
  <1> QED
    <2>1. \A i \in 1..Len(list) : \E j \in 1..n : list[i] = es[j]
      BY <1>7, <1>8
    <2>2. l.next > s + 1 =>
            \/ list # <<>> /\ Head(list).seq = s + 1
            \/ Len(list) = Limit
            \/ \A i \in 1..n : es[i].seq > s + 1
      <3> HIDE DEF n, es, k
      <3> QED  BY <1>9, <1>10
    <2> QED  BY <2>1, <2>2, <1>6 DEF list
-----------------------------------------------------------------------------
(***************************************************************************)
(* The steps on the log.                                                   *)
(***************************************************************************)
LEMMA PushedLog ==
  ASSUME NEW es \in Seq(EventIds), NEW next \in Nat \ {0},
         Consecutive([events |-> es, next |-> next]), NEW e \in EventIds, e.seq = next,
         NEW l, l = [events |-> Newest(Append(es, e), MaxEvents), next |-> next + 1]
  PROVE  /\ l \in Logs
         /\ Consecutive(l)
         /\ \A i \in 1..Len(l.events) :
              \/ l.events[i] = e
              \/ \E j \in 1..Len(es) : l.events[i] = es[j]
  <1> DEFINE t == Append(es, e)
             m == Newest(t, MaxEvents)
  <1>1. /\ t \in Seq(EventIds) /\ Len(t) = Len(es) + 1
        /\ \A i \in 1..Len(t) : t[i] = IF i <= Len(es) THEN es[i] ELSE e
    OBVIOUS
  <1>2. \A i \in 1..Len(es) : es[i].seq = next - Len(es) + i - 1
    BY DEF Consecutive
  <1>3. \A i \in 1..Len(t) : t[i].seq = next + 1 - Len(t) + i - 1
    BY <1>1, <1>2
  <1> HIDE DEF t
  <1>4. /\ m \in Seq(EventIds)
        /\ Len(m) <= Len(t)
        /\ \A i \in 1..Len(m) : m[i] = t[Len(t) - Len(m) + i]
    <2>1. MaxEvents \in Nat /\ Len(t) \in Nat
      BY <1>1, StreamAssumption
    <2>2. Len(m) = IF Len(t) > MaxEvents THEN MaxEvents ELSE Len(t)
      BY <1>1, <2>1, NewestIsEnd
    <2>3. Len(m) <= Len(t)
      BY <2>1, <2>2
    <2> QED  BY <1>1, <2>1, <2>3, NewestIsEnd
  <1> HIDE DEF m
  <1>5. l.events = m /\ l.next = next + 1 /\ l \in Logs
    <2>1. l = [events |-> m, next |-> next + 1]
      BY DEF m, t
    <2> QED  BY <2>1, <1>4 DEF Logs
  <1>6. ASSUME NEW i \in 1..Len(m) PROVE m[i].seq = next + 1 - Len(m) + i - 1
    <2>1. Len(t) - Len(m) + i \in 1..Len(t)
      BY <1>1, <1>4
    <2>2. m[i].seq = next + 1 - Len(t) + (Len(t) - Len(m) + i) - 1
      BY <2>1, <1>3, <1>4
    <2> QED  BY <2>2, <1>1, <1>4
  <1>7. ASSUME NEW i \in 1..Len(m)
        PROVE  m[i] = e \/ \E j \in 1..Len(es) : m[i] = es[j]
    <2>1. Len(t) - Len(m) + i \in 1..Len(t)
      BY <1>1, <1>4
    <2>2. m[i] = t[Len(t) - Len(m) + i]
      BY <1>4
    <2> QED  BY <2>1, <2>2, <1>1
  <1> QED  BY <1>5, <1>6, <1>7 DEF Consecutive

\* The number restored is the one saved: it is already past every event.
LEMMA NextIsSaved ==
  ASSUME NEW row \in Logs, Consecutive(row)
  PROVE  NextAfter(row) = row.next
  <1> DEFINE past == {row.events[i].seq + 1 : i \in DOMAIN row.events} \cup {1, row.next}
  <1>1. row.events \in Seq(EventIds) /\ row.next \in Nat \ {0}
    BY DEF Logs
  <1>2. DOMAIN row.events = 1..Len(row.events) /\ Len(row.events) \in Nat
    BY <1>1
  <1>3. ASSUME NEW i \in 1..Len(row.events)
        PROVE  row.events[i].seq + 1 \in Nat /\ row.events[i].seq + 1 <= row.next
    <2>1. row.events[i] \in EventIds
      BY <1>1
    <2>2. row.events[i].seq \in Nat
      BY <2>1 DEF EventIds
    <2>3. row.events[i].seq = row.next - Len(row.events) + i - 1
      BY DEF Consecutive
    <2> QED  BY <2>2, <2>3, <1>1, <1>2
  <1>4. past \subseteq Nat /\ row.next \in past /\ \A m \in past : m <= row.next
    BY <1>1, <1>2, <1>3
  <1>5. NextAfter(row) = CHOOSE n \in past : \A m \in past : m <= n
    BY DEF NextAfter
  <1> HIDE DEF past
  <1>6. ASSUME NEW n \in past, \A m \in past : m <= n PROVE n = row.next
    <2>1. row.next <= n /\ n <= row.next /\ n \in Nat /\ row.next \in Nat
      BY <1>1, <1>4, <1>6
    <2> QED  BY <2>1
  <1> QED  BY <1>4, <1>5, <1>6
-----------------------------------------------------------------------------
(***************************************************************************)
(* The invariant.                                                          *)
(***************************************************************************)
LEMMA InitIInv == Init => IInv
  <1> SUFFICES ASSUME Init PROVE IInv
    OBVIOUS
  <1>1. Sent = {}
    BY DEF Init, Sent
  <1>2. Consecutive(NoRow) /\ NoRow.next = 0
    BY DEF Consecutive, NoRow
  <1>3. TypeOK
    <2>1. answer \in [Watchers -> Seq(EventIds)] /\ since \in [Watchers -> Nat]
      BY DEF Init
    <2> QED  BY <2>1 DEF Init, TypeOK
  <1> QED  BY <1>1, <1>2, <1>3 DEF Init, IInv, SentIsSaved

\* What a pushed event does to the log.
LEMMA PushStep ==
  ASSUME IInv, log \in Logs, NEW l, l = Pushed(log)
  PROVE  /\ l \in Logs /\ Consecutive(l) /\ l.next = log.next + 1
         /\ \A i \in 1..Len(l.events) :
              \/ l.events[i].seq = log.next
              \/ \E j \in 1..Len(log.events) : l.events[i] = log.events[j]
  <1> DEFINE e == [seq |-> log.next, life |-> life]
  <1>1. log.events \in Seq(EventIds) /\ log.next \in Nat \ {0}
    BY DEF Logs
  <1>2. e \in EventIds /\ e.seq = log.next
    <2>1. life \in Nat
      BY DEF IInv, TypeOK
    <2> QED  BY <1>1, <2>1 DEF EventIds
  <1>3. Consecutive([events |-> log.events, next |-> log.next])
    BY DEF IInv, Consecutive
  <1>4. l = [events |-> Newest(Append(log.events, e), MaxEvents), next |-> log.next + 1]
    BY DEF Pushed
  <1>5. l.next = log.next + 1
    BY <1>4
  <1> HIDE DEF e
  <1> QED  BY <1>1, <1>2, <1>3, <1>4, <1>5, PushedLog

LEMMA SentHasNumbers == ASSUME TypeOK PROVE \A e \in Sent : e \in EventIds /\ e.seq \in Nat
  <1>1. \A w \in Watchers : \A i \in 1..Len(answer[w]) : answer[w][i] \in EventIds
    BY ElementOfSeq DEF TypeOK
  <1>2. \A e \in EventIds : e.seq \in Nat
    BY DEF EventIds
  <1>3. \A e \in Sent : e \in EventIds
    BY <1>1 DEF TypeOK, Sent
  <1> QED  BY <1>2, <1>3

\* The log grows, or stays, while nothing is sent: what was sent agrees with it.
LEMMA GrownLogAgrees ==
  ASSUME IInv, NEW e \in Sent, NEW l, NEW old,
         old.next \in Nat, Agrees(e, old), e.seq < old.next,
         \A i \in 1..Len(l.events) :
           \/ l.events[i].seq = old.next
           \/ \E j \in 1..Len(old.events) : l.events[i] = old.events[j]
  PROVE  Agrees(e, l)
  BY DEF Agrees

\* A step of the UI thread that sends nothing: the log grew by an event, or not,
\* and was saved, or not.
LEMMA LogStep ==
  ASSUME IInv, up, up', log' = log \/ log' = Pushed(log),
         saved' = saved \/ saved' = log',
         UNCHANGED <<life, watch, since, answer, shown>>
  PROVE  IInv'
  <1>1. log \in Logs /\ Sent' = Sent
    BY DEF IInv, TypeOK, Sent
  <1>2. log.next \in Nat /\ saved.next \in Nat /\ saved.next <= log.next
    BY <1>1 DEF IInv, TypeOK, SentIsSaved, Logs, NoRow
  <1>3. /\ log' \in Logs /\ Consecutive(log')
        /\ log'.next \in Nat /\ log.next <= log'.next
    <2>1. CASE log' = log
      BY <2>1, <1>1, <1>2 DEF IInv
    <2>2. CASE log' = Pushed(log)
      <3>1. log' \in Logs /\ Consecutive(log') /\ log'.next = log.next + 1
        BY <2>2, <1>1, PushStep
      <3> QED  BY <3>1, <1>2
    <2> QED  BY <2>1, <2>2
  <1>4. ASSUME NEW e \in Sent
        PROVE  e.seq < log'.next /\ Agrees(e, log') /\ e.seq < saved.next /\ Agrees(e, saved)
    <2>1. /\ Agrees(e, log) /\ Agrees(e, saved) /\ e.seq < saved.next
          /\ e.seq \in Nat
      BY SentHasNumbers DEF IInv, SentIsSaved
    <2>2. e.seq < log.next /\ e.seq < log'.next
      BY <2>1, <1>2, <1>3
    <2>3. Agrees(e, log')
      <3>1. CASE log' = log
        BY <3>1, <2>1
      <3>2. CASE log' = Pushed(log)
        <4>1. \A i \in 1..Len(log'.events) :
                \/ log'.events[i].seq = log.next
                \/ \E j \in 1..Len(log.events) : log'.events[i] = log.events[j]
          BY <3>2, <1>1, PushStep
        <4> QED  BY <4>1, <2>1, <2>2, <1>2, GrownLogAgrees
      <3> QED  BY <3>1, <3>2
    <2> QED  BY <2>1, <2>2, <2>3
  <1>5. saved' \in Logs \cup {NoRow} /\ Consecutive(saved') /\ saved'.next <= log'.next
    <2>1. CASE saved' = saved
      BY <2>1, <1>2, <1>3 DEF IInv, TypeOK
    <2>2. CASE saved' = log'
      BY <2>2, <1>3
    <2> QED  BY <2>1, <2>2
  <1>6. TypeOK'
    BY <1>3, <1>5 DEF IInv, TypeOK
  <1>7. SentIsSaved'
    <2>1. \A e \in Sent' : e.seq < saved'.next /\ Agrees(e, saved') /\ Agrees(e, log')
      BY <1>1, <1>4
    <2>2. \A e, f \in Sent' : e.seq = f.seq => e = f
      BY <1>1 DEF IInv, SentIsSaved
    <2> QED  BY <2>1, <2>2, <1>5 DEF SentIsSaved, Agrees
  <1> QED  BY <1>3, <1>5, <1>6, <1>7 DEF IInv, Consecutive

\* A step of the watchers that sends nothing new.
LEMMA WatchersStep ==
  ASSUME IInv, Sent' \subseteq Sent, UNCHANGED <<life, log, saved>>, TypeOK',
         up' = up \/ ~up', \A w \in Watchers : watch'[w] # "off" => up'
  PROVE  IInv'
  <1>1. /\ Consecutive(log)' /\ Consecutive(saved)'
    BY DEF IInv, Consecutive
  <1>2. SentIsSaved'
    BY DEF IInv, SentIsSaved, Agrees
  <1> QED  BY <1>1, <1>2 DEF IInv

LEMMA WatcherIInv ==
  ASSUME IInv, NEW w \in Watchers,
         \/ \E s \in Cursors : Connect(w, s)
         \/ Disconnect(w) \/ WriteEvent(w) \/ Heartbeat(w)
  PROVE  IInv'
  <1>1. TypeOK
    BY DEF IInv
  <1>2. CASE \E s \in Cursors : Connect(w, s)
    <2>1. PICK s \in Cursors : Connect(w, s)
      BY <1>2
    <2>2. s \in Nat
      BY <1>1 DEF TypeOK, Cursors, EventIds
    <2>3. TypeOK'
      BY <2>1, <2>2, <1>1 DEF TypeOK, Connect
    <2>4. Sent' = Sent
      BY <2>1 DEF Connect, Sent
    <2> QED  BY <2>1, <2>3, <2>4, <1>1, WatchersStep DEF Connect, IInv, TypeOK
  <1>3. CASE Disconnect(w)
    <2>1. TypeOK'
      BY <1>1, <1>3 DEF TypeOK, Disconnect
    <2>2. \A v \in Watchers : answer'[v] = answer[v] \/ Len(answer'[v]) = 0
      BY <1>1, <1>3 DEF TypeOK, Disconnect
    <2>3. Sent' \subseteq Sent
      BY <2>2, <1>3 DEF Disconnect, Sent
    <2> QED  BY <1>3, <2>1, <2>3, <1>1, WatchersStep DEF Disconnect, IInv, TypeOK
  <1>4. CASE WriteEvent(w)
    <2> DEFINE a == answer[w]
    <2>1. a \in Seq(EventIds) /\ a # <<>>
      BY <1>1, <1>4 DEF TypeOK, WriteEvent
    <2>2. /\ 1 \in 1..Len(a) /\ Head(a) = a[1] /\ Head(a) \in EventIds
          /\ Tail(a) \in Seq(EventIds)
          /\ \A i \in 1..Len(Tail(a)) : i + 1 \in 1..Len(a) /\ Tail(a)[i] = a[i + 1]
      BY <2>1
    <2>3. Head(a).seq \in Nat
      BY <2>2 DEF EventIds
    <2>4. TypeOK'
      BY <2>2, <2>3, <1>1, <1>4 DEF TypeOK, WriteEvent
    <2>5. Head(a) \in Sent
      BY <2>2 DEF Sent
    <2>6. ASSUME NEW v \in Watchers, NEW i \in 1..Len(answer'[v]) PROVE answer'[v][i] \in Sent
      <3>1. CASE v = w
        BY <3>1, <2>2, <2>6, <1>1, <1>4 DEF TypeOK, WriteEvent, Sent
      <3>2. CASE v # w
        BY <3>2, <2>6, <1>1, <1>4 DEF TypeOK, WriteEvent, Sent
      <3> QED  BY <3>1, <3>2
    <2>7. shown' \subseteq Sent
      BY <2>5, <1>4 DEF WriteEvent, Sent
    <2>8. Sent' \subseteq Sent
      BY <2>6, <2>7 DEF Sent
    <2> QED  BY <1>4, <2>4, <2>8, <1>1, WatchersStep DEF WriteEvent, IInv, TypeOK
  <1>5. CASE Heartbeat(w)
    <2>1. TypeOK' /\ Sent' = Sent
      BY <1>1, <1>5 DEF TypeOK, Heartbeat, Sent
    <2> QED  BY <1>5, <2>1, <1>1, WatchersStep DEF Heartbeat, IInv, TypeOK
  <1> QED  BY <1>2, <1>3, <1>4, <1>5

\* An answer is made of events of the log, and the log is saved with it.
LEMMA AnswerIInv ==
  ASSUME IInv, NEW w \in Watchers, HandleListEvents(w)
  PROVE  IInv'
  <1> DEFINE list == ListEvents(log, since[w])
  <1>1. /\ TypeOK /\ log \in Logs /\ Consecutive(log) /\ since[w] \in Nat
        /\ log.next \in Nat
    BY DEF IInv, TypeOK, HandleListEvents, Logs
  <1>2. /\ list \in Seq(EventIds)
        /\ \A i \in 1..Len(list) : \E j \in 1..Len(log.events) : list[i] = log.events[j]
    BY <1>1, AnswerIsEnd
  <1> HIDE DEF list
  <1>3. /\ answer' = [answer EXCEPT ![w] = list]
        /\ watch' = [watch EXCEPT ![w] = "writing"]
        /\ saved' = log
        /\ UNCHANGED <<up, life, log, since, shown>> /\ up
    BY DEF HandleListEvents, PersistState, list
  <1>4. TypeOK'
    BY <1>1, <1>2, <1>3 DEF TypeOK
  <1> DEFINE Logged == {log.events[j] : j \in 1..Len(log.events)}
  <1>5. Sent' \subseteq Sent \cup Logged
    <2>1. ASSUME NEW v \in Watchers, NEW i \in 1..Len(answer'[v])
          PROVE  answer'[v][i] \in Sent \cup Logged
      <3>1. CASE v = w
        BY <3>1, <1>1, <1>2, <1>3 DEF TypeOK
      <3>2. CASE v # w
        BY <3>2, <1>1, <1>3 DEF TypeOK, Sent
      <3> QED  BY <3>1, <3>2
    <2> HIDE DEF Logged
    <2> QED  BY <2>1, <1>3 DEF Sent
  <1>6. ASSUME NEW e \in Logged PROVE e.seq < log.next /\ Agrees(e, log)
    <2>1. PICK j \in 1..Len(log.events) : e = log.events[j]
      OBVIOUS
    <2>2. Len(log.events) \in Nat
      BY <1>1 DEF Logs
    <2>3. \A i \in 1..Len(log.events) : log.events[i].seq = log.next - Len(log.events) + i - 1
      BY <1>1 DEF Consecutive
    <2>4. e.seq < log.next
      BY <2>1, <2>2, <2>3, <1>1
    <2>5. ASSUME NEW i \in 1..Len(log.events), log.events[i].seq = e.seq PROVE i = j
      BY <2>1, <2>2, <2>3, <2>5, <1>1
    <2> QED  BY <2>1, <2>4, <2>5 DEF Agrees
  <1>7. ASSUME NEW e \in Sent PROVE e.seq < log.next /\ Agrees(e, log)
    <2>1. /\ e.seq < saved.next /\ saved.next <= log.next /\ Agrees(e, log)
          /\ e.seq \in Nat /\ saved.next \in Nat
      BY <1>1, <1>3, SentHasNumbers DEF IInv, SentIsSaved, TypeOK, Logs, NoRow
    <2> QED  BY <2>1, <1>1
  <1>8. ASSUME NEW e \in Sent', NEW f \in Sent', e.seq = f.seq PROVE e = f
    <2>1. CASE e \in Logged
      BY <2>1, <1>5, <1>6, <1>7, <1>8 DEF Agrees
    <2>2. CASE f \in Logged
      BY <2>2, <1>5, <1>6, <1>7, <1>8 DEF Agrees
    <2>3. CASE e \in Sent /\ f \in Sent
      BY <2>3, <1>8 DEF IInv, SentIsSaved
    <2> QED  BY <2>1, <2>2, <2>3, <1>5
  <1>9. SentIsSaved'
    <2>1. \A e \in Sent' : e.seq < log.next /\ Agrees(e, log)
      BY <1>5, <1>6, <1>7
    <2>2. (saved.next <= log.next)'
      BY <1>1, <1>3
    <2> HIDE DEF Logged
    <2> QED  BY <2>1, <2>2, <1>3, <1>8 DEF SentIsSaved, Agrees
  <1>10. Consecutive(log)' /\ Consecutive(saved)'
    BY <1>1, <1>3 DEF Consecutive
  <1>11. \A v \in Watchers : watch'[v] # "off" => up'
    BY <1>3
  <1> QED  BY <1>4, <1>9, <1>10, <1>11 DEF IInv

LEMMA CrashIInv == ASSUME IInv, Crash PROVE IInv'
  <1>1. TypeOK'
    <2>1. answer' \in [Watchers -> Seq(EventIds)] /\ since' \in [Watchers -> Nat]
      BY DEF Crash
    <2> QED  BY <2>1 DEF IInv, TypeOK, Crash
  <1>2. \A v \in Watchers : Len(answer'[v]) = 0
    BY DEF Crash
  <1>3. Sent' \subseteq Sent
    BY <1>2 DEF Crash, Sent
  <1> QED  BY <1>1, <1>3, WatchersStep DEF Crash

\* The log that a launch starts with.
LEMMA LaunchedLog ==
  ASSUME IInv, Launch
  PROVE  /\ log' \in Logs /\ Consecutive(log')
         /\ \A e \in Sent : e.seq < log'.next /\ Agrees(e, log')
  <1>1. /\ TypeOK /\ life \in Nat /\ life' = life + 1 /\ life' \in Nat
        /\ Consecutive(saved)
        /\ \A e \in Sent : e.seq < saved.next /\ Agrees(e, saved) /\ e.seq \in Nat
    BY SentHasNumbers DEF IInv, TypeOK, SentIsSaved, Launch
  <1>2. CASE saved = NoRow /\ log' = Fresh
    <2>1. Sent = {}
      BY <1>1, <1>2 DEF NoRow
    <2> DEFINE e == [seq |-> 1, life |-> life']
    <2>2. e \in EventIds /\ e.seq = 1
      BY <1>1 DEF EventIds
    <2>3. log' = [events |-> <<e>>, next |-> 2]
      BY <1>2 DEF Fresh
    <2> HIDE DEF e
    <2>4. /\ <<e>> \in Seq(EventIds) /\ Len(<<e>>) = 1
          /\ \A i \in 1..1 : <<e>>[i].seq = 2 - 1 + i - 1
      BY <2>2
    <2>5. log' \in Logs /\ Consecutive(log')
      BY <2>3, <2>4 DEF Logs, Consecutive
    <2> QED  BY <2>1, <2>5
  <1>3. ASSUME saved # NoRow
        PROVE  saved \in Logs /\ Restored = [events |-> saved.events, next |-> saved.next]
    <2>1. saved \in Logs
      BY <1>1, <1>3 DEF TypeOK
    <2> QED  BY <2>1, <1>1, NextIsSaved DEF Restored
  <1>4. CASE saved # NoRow /\ log' = Restored
    <2>1. saved \in Logs /\ log' = saved
      BY <1>3, <1>4 DEF Logs
    <2> QED  BY <2>1, <1>1
  <1>5. CASE /\ saved # NoRow
             /\ log' = [events |-> Newest(Append(Restored.events,
                                                [seq |-> Restored.next, life |-> life']),
                                         MaxEvents),
                        next |-> Restored.next + 1]
    <2> DEFINE e == [seq |-> saved.next, life |-> life']
    <2>1. saved.events \in Seq(EventIds) /\ saved.next \in Nat \ {0}
      BY <1>3, <1>5 DEF Logs
    <2>2. e \in EventIds /\ e.seq = saved.next
      BY <2>1, <1>1 DEF EventIds
    <2>3. log' = [events |-> Newest(Append(saved.events, e), MaxEvents),
                  next |-> saved.next + 1]
      BY <1>3, <1>5
    <2> HIDE DEF e
    <2>4. Consecutive([events |-> saved.events, next |-> saved.next])
      BY <1>1 DEF Consecutive
    <2>5. /\ log' \in Logs
          /\ Consecutive(log')
          /\ \A i \in 1..Len(log'.events) :
               \/ log'.events[i].seq = saved.next
               \/ \E j \in 1..Len(saved.events) : log'.events[i] = saved.events[j]
      BY <2>1, <2>2, <2>3, <2>4, PushedLog
    <2>6. log'.next = saved.next + 1
      BY <2>3
    <2>7. \A f \in Sent : f.seq < log'.next /\ Agrees(f, log')
      BY <2>1, <2>5, <2>6, <1>1, GrownLogAgrees
    <2> QED  BY <2>5, <2>7
  <1> QED  BY <1>2, <1>4, <1>5 DEF Launch

LEMMA LaunchIInv == ASSUME IInv, Launch PROVE IInv'
  <1>1. /\ log' \in Logs /\ Consecutive(log')
        /\ \A e \in Sent : e.seq < log'.next /\ Agrees(e, log')
    BY LaunchedLog
  <1>2. saved' = log' /\ Sent' = Sent /\ log'.next \in Nat
    BY <1>1 DEF Launch, PersistState, Sent, Logs
  <1>3. TypeOK'
    BY <1>1, <1>2 DEF IInv, TypeOK, Launch
  <1>4. SentIsSaved'
    <2>1. \A e, f \in Sent' : e.seq = f.seq => e = f
      BY <1>2 DEF IInv, SentIsSaved
    <2>2. (saved.next <= log.next)'
      BY <1>2
    <2> QED  BY <1>1, <1>2, <2>1, <2>2 DEF SentIsSaved, Agrees
  <1> QED  BY <1>1, <1>2, <1>3, <1>4 DEF IInv, Consecutive, Launch

LEMMA NextIInv == ASSUME IInv, [Next]_vars PROVE IInv'
  <1>1. CASE UserActs
    BY <1>1, LogStep DEF UserActs
  <1>2. CASE HandleRequest
    BY <1>2, LogStep DEF HandleRequest, PersistState
  <1>3. CASE Crash
    BY <1>3, CrashIInv
  <1>4. CASE Launch
    BY <1>4, LaunchIInv
  <1>5. ASSUME NEW w \in Watchers, HandleListEvents(w)
        PROVE  IInv'
    BY <1>5, AnswerIInv
  <1>6. ASSUME NEW w \in Watchers,
               \/ \E s \in Cursors : Connect(w, s)
               \/ Disconnect(w) \/ WriteEvent(w) \/ Heartbeat(w)
        PROVE  IInv'
    BY <1>6, WatcherIInv
  <1>7. CASE UNCHANGED vars
    <2>1. Sent' = Sent
      BY <1>7 DEF vars, Sent
    <2> QED  BY <1>7, <2>1 DEF vars, IInv, TypeOK, Consecutive, SentIsSaved, Agrees
  <1> QED  BY <1>1, <1>2, <1>3, <1>4, <1>5, <1>6, <1>7 DEF Next

THEOREM SentAgreesWithTheLog == Spec => []IInv
  BY InitIInv, NextIInv, PTL DEF Spec

\* A sequence number a client has seen never stands for another event, however the
\* application crashes and is launched again.
THEOREM NumbersAreKept == Spec => []SameNumberSameEvent
  <1>1. IInv => SameNumberSameEvent
    <2> SUFFICES ASSUME IInv, NEW e \in shown
                 PROVE  /\ \A f \in shown : f.seq = e.seq => f = e
                        /\ \A i \in DOMAIN log.events :
                             up /\ log.events[i].seq = e.seq => log.events[i] = e
      BY DEF SameNumberSameEvent
    <2>1. e \in Sent /\ shown \subseteq Sent
      BY DEF Sent
    <2>2. up => DOMAIN log.events = 1..Len(log.events)
      BY DEF IInv, TypeOK, Logs
    <2> QED  BY <2>1, <2>2 DEF IInv, SentIsSaved, Agrees
  <1> QED  BY <1>1, SentAgreesWithTheLog, PTL

-----------------------------------------------------------------------------
\* A watcher misses events only when its answer is full, or when the event it waits
\* for is no longer retained.
THEOREM NoGapsWhileClose == Spec => GapsOnlyWhenFarBehind
  <1> DEFINE Gap(w) ==
        /\ watch[w] = "asking" /\ watch'[w] = "writing"
        /\ log.next > since[w] + 1
        => \/ answer'[w] # <<>> /\ Head(answer'[w]).seq = since[w] + 1
           \/ Len(answer'[w]) = Limit
           \/ \A i \in DOMAIN log.events : log.events[i].seq > since[w] + 1
  <1>1. IInv /\ [Next]_vars => [\A w \in Watchers : Gap(w)]_vars
    <2> SUFFICES ASSUME IInv, [Next]_vars, NEW w \in Watchers,
                        watch[w] = "asking", watch'[w] = "writing", log.next > since[w] + 1
                 PROVE  \/ answer'[w] # <<>> /\ Head(answer'[w]).seq = since[w] + 1
                        \/ Len(answer'[w]) = Limit
                        \/ \A i \in DOMAIN log.events : log.events[i].seq > since[w] + 1
      OBVIOUS
    <2>1. TypeOK /\ up /\ log \in Logs /\ Consecutive(log) /\ since[w] \in Nat
      BY DEF IInv, TypeOK
    <2>2. HandleListEvents(w)
      BY <2>1 DEF TypeOK, Next, vars, UserActs, HandleRequest, HandleListEvents, Connect,
                  Disconnect, WriteEvent, Heartbeat, Crash, Launch
    <2>3. answer'[w] = ListEvents(log, since[w])
      BY <2>1, <2>2 DEF TypeOK, HandleListEvents
    <2>4. DOMAIN log.events = 1..Len(log.events)
      BY <2>1 DEF Logs
    <2> QED  BY <2>1, <2>3, <2>4, AnswerIsEnd
  <1> QED  BY <1>1, SentAgreesWithTheLog, PTL DEF Spec, GapsOnlyWhenFarBehind
=============================================================================
