--------------------------- MODULE EventLogProofs ---------------------------
(* The ring of the audit log and its fan-out, for every size of ring and      *)
(* buffer, and any number of events, producers and streams.                   *)
EXTENDS EventLog, SequenceTheorems, TLAPS

-----------------------------------------------------------------------------
(* Arithmetic of the ring.                                                  *)

\* A number less than twice the size wraps at most once.
LEMMA Wraps ==
  ASSUME NEW a \in 0..(2 * Size - 1)
  PROVE  a % Size = IF a < Size THEN a ELSE a - Size
<1>1. Size \in Nat /\ Size > 0 /\ a \in Nat
  BY EventLogAssumption
<1>2. CASE a < Size
  BY <1>1, <1>2
<1>3. CASE a >= Size
  <2>1. a - Size \in 0..(Size - 1)
    BY <1>1, <1>3
  <2>2. a = (a - Size) + Size * 1
    BY <1>1
  <2> QED
    BY <1>1, <1>3, <2>1, <2>2
<1> QED
  BY <1>1, <1>2, <1>3

\* The slot Recent counts i back to is in the ring, is never the next one but for the
\* oldest of a full ring, and moves one further from the next slot when that advances.
LEMMA RingIndexes ==
  ASSUME next \in 0..(Size - 1), NEW i \in 1..Size, next' = (next + 1) % Size
  PROVE  /\ next' \in 0..(Size - 1)
         /\ RecentIndex(i) \in 0..(Size - 1)
         /\ i < Size => RecentIndex(i) # next
         /\ RecentIndex(1)' = next
         /\ i > 1 => RecentIndex(i)' = RecentIndex(i - 1)
<1> DEFINE Back(n, k) == IF n + Size - k < Size THEN n + Size - k ELSE n - k
<1>1. Size \in Nat /\ Size > 0
  BY EventLogAssumption
<1>2. \A n \in 0..(Size - 1), k \in 1..Size : (n + Size - k) % Size = Back(n, k)
  <2> TAKE n \in 0..(Size - 1), k \in 1..Size
  <2>1. n + Size - k \in 0..(2 * Size - 1)
    BY <1>1
  <2> QED
    BY <1>1, <2>1, Wraps
<1>3. next' = IF next + 1 < Size THEN next + 1 ELSE 0
  <2>1. next + 1 \in 0..(2 * Size - 1)
    BY <1>1
  <2> QED
    BY <1>1, <2>1, Wraps
<1>4. next' \in 0..(Size - 1)
  BY <1>1, <1>3
<1>5. RecentIndex(i) = Back(next, i)
  BY <1>2 DEF RecentIndex
<1>6. RecentIndex(i)' = Back(next', i) /\ RecentIndex(1)' = Back(next', 1)
  <2>1. 1 \in 1..Size
    BY <1>1
  <2>2. RecentIndex(i)' = (next' + Size - i) % Size /\ RecentIndex(1)' = (next' + Size - 1) % Size
    BY DEF RecentIndex
  <2> HIDE DEF Back
  <2> QED
    BY <1>2, <1>4, <2>1, <2>2
<1>7. i > 1 => RecentIndex(i - 1) = Back(next, i - 1)
  BY <1>1, <1>2 DEF RecentIndex
<1> QED
  BY <1>1, <1>3, <1>4, <1>5, <1>6, <1>7

-----------------------------------------------------------------------------
(* The invariant: next and full say how many events there have been, and    *)
(* counting back from next one meets the newest, newest first.              *)

RingType ==
  /\ seq \in Nat
  /\ events \in [0..(Size - 1) -> Nat]
  /\ next \in 0..(Size - 1)
  /\ full \in BOOLEAN

FullTellsCount == IF full THEN seq >= Size ELSE seq = next

NewestFirst == \A i \in 1..Size : i <= seq => events[RecentIndex(i)] = seq + 1 - i

RingInv == RingType /\ FullTellsCount /\ NewestFirst

LEMMA RingInit == Init => RingInv
<1> SUFFICES ASSUME Init
             PROVE  RingInv
  OBVIOUS
<1>1. Size \in Nat /\ Size > 0 /\ seq = 0 /\ next = 0 /\ full = FALSE
  BY EventLogAssumption DEF Init
<1>2. events \in [0..(Size - 1) -> Nat]
  BY DEF Init
<1>3. RingType
  <2>1. full \in BOOLEAN
    BY DEF Init
  <2> QED
    BY <1>1, <1>2, <2>1 DEF RingType
<1>4. FullTellsCount
  BY <1>1 DEF FullTellsCount
<1>5. NewestFirst
  BY <1>1 DEF NewestFirst
<1> QED
  BY <1>3, <1>4, <1>5 DEF RingInv

\* Add keeps the invariant.
LEMMA AddKeepsRing ==
  ASSUME RingInv, NEW p \in Producer, Add(p)
  PROVE  RingInv'
<1>1. /\ Size \in Nat /\ Size > 0
      /\ seq \in Nat /\ seq' = seq + 1
      /\ events \in [0..(Size - 1) -> Nat] /\ events' = [events EXCEPT ![next] = seq + 1]
      /\ next \in 0..(Size - 1) /\ next' = (next + 1) % Size
      /\ full \in BOOLEAN /\ full' = (full \/ next' = 0)
  BY EventLogAssumption DEF RingInv, RingType, Add
<1>2. next' = IF next + 1 < Size THEN next + 1 ELSE 0
  <2>1. next + 1 \in 0..(2 * Size - 1)
    BY <1>1
  <2> QED
    BY <1>1, <2>1, Wraps
<1>3. RingType'
  BY <1>1, <1>2 DEF RingType
<1>4. FullTellsCount'
  <2>1. CASE full
    <3>1. full'
      BY <1>1, <2>1, Zenon
    <3> QED
      BY <1>1, <2>1, <3>1 DEF RingInv, FullTellsCount
  <2>2. CASE ~full /\ next + 1 < Size
    <3>1. next' # 0
      BY <1>1, <1>2, <2>2
    <3>2. ~full'
      BY <1>1, <2>2, <3>1, Zenon
    <3> QED
      BY <1>1, <1>2, <2>2, <3>2 DEF RingInv, FullTellsCount
  <2>3. CASE ~full /\ next + 1 >= Size
    <3>1. next' = 0
      BY <1>1, <1>2, <2>3
    <3>2. full'
      BY <1>1, <3>1, Zenon
    <3> QED
      BY <1>1, <2>3, <3>2 DEF RingInv, FullTellsCount
  <2> QED
    BY <1>1, <2>1, <2>2, <2>3
<1>5. NewestFirst'
  <2> SUFFICES ASSUME NEW i \in 1..Size, i <= seq + 1
               PROVE  events'[RecentIndex(i)'] = seq + 2 - i
    BY <1>1 DEF NewestFirst
  <2>1. CASE i = 1
    <3>1. RecentIndex(i)' = next
      BY <1>1, <2>1, RingIndexes
    <3> QED
      BY <1>1, <2>1, <3>1
  <2>2. CASE i > 1
    <3>1. i - 1 \in 1..Size /\ i - 1 < Size /\ i - 1 <= seq
      BY <1>1, <2>2
    <3>2. RecentIndex(i)' = RecentIndex(i - 1)
      BY <1>1, <2>2, RingIndexes
    <3>3. RecentIndex(i - 1) # next /\ RecentIndex(i - 1) \in 0..(Size - 1)
      BY <1>1, <3>1, RingIndexes
    <3>4. events[RecentIndex(i - 1)] = seq + 1 - (i - 1)
      BY <3>1 DEF RingInv, NewestFirst
    <3> QED
      BY <1>1, <3>2, <3>3, <3>4
  <2> QED
    BY <1>1, <2>1, <2>2
<1> QED
  BY <1>3, <1>4, <1>5 DEF RingInv

\* Nothing else touches the ring.
LEMMA RingStep == RingInv /\ [Next]_vars => RingInv'
<1> SUFFICES ASSUME RingInv, [Next]_vars
             PROVE  RingInv'
  OBVIOUS
<1>1. ASSUME NEW p \in Producer, Add(p)
      PROVE  RingInv'
  BY <1>1, AddKeepsRing
<1>2. ASSUME UNCHANGED log
      PROVE  RingInv'
  BY <1>2 DEF log, RingInv, RingType, FullTellsCount, NewestFirst, RecentIndex
<1>3. ASSUME NEW p \in Producer, Send(p) \/ SendToClosed(p)
      PROVE  UNCHANGED log
  BY <1>3 DEF Send, SendToClosed
<1>4. ASSUME NEW s \in Subscriber,
             Subscribe(s) \/ Receive(s) \/ Leave(s) \/ Unsubscribe(s) \/ Close(s)
      PROVE  UNCHANGED log
  BY <1>4 DEF Subscribe, Receive, Leave, Unsubscribe, Close
<1> QED
  BY <1>1, <1>2, <1>3, <1>4 DEF Next, vars

\* The invariant is what Recent needs.
LEMMA RingShowsNewest == RingInv => RecentIsNewest
<1> SUFFICES ASSUME RingInv, NEW limit \in 0..(Size + 1)
             PROVE  Recent(limit) =
                      [i \in 1..(IF limit \in 1..Held THEN limit ELSE Held) |-> seq + 1 - i]
  BY DEF RecentIsNewest
<1>1. Size \in Nat /\ Size > 0 /\ seq \in Nat /\ next \in 0..(Size - 1) /\ full \in BOOLEAN
  BY EventLogAssumption DEF RingInv, RingType
<1>2. Count = Held /\ Held \in 0..Size /\ Held <= seq
  BY <1>1 DEF RingInv, FullTellsCount, Count, Held
<1> DEFINE shown == IF limit \in 1..Held THEN limit ELSE Held
<1>3. \A i \in 1..shown : events[RecentIndex(i)] = seq + 1 - i
  BY <1>1, <1>2 DEF RingInv, NewestFirst
<1>4. Recent(limit) = [i \in 1..shown |-> events[RecentIndex(i)]]
  BY <1>2 DEF Recent
<1> QED
  BY <1>3, <1>4

\* events.go:65-123: for a ring of any size, after any number of events, whatever the
\* goroutines and streams that share it do, Recent shows the newest, newest first.
THEOREM RecentIsAlwaysNewest == Spec => []RecentIsNewest
<1>1. Spec => []RingInv
  BY RingInit, RingStep, PTL DEF Spec
<1> QED
  BY <1>1, RingShowsNewest, PTL

-----------------------------------------------------------------------------
(* The fan-out.                                                             *)

\* The subscribers are the streams between Subscribe and the release.
Streams == \A s \in Subscriber : s \in subscribers <=> stream[s] \in {"open", "leaving"}

\* Nothing is on its way to a stream before it has subscribed.
Fresh ==
  \A s \in Subscriber : stream[s] = "new" =>
    /\ received[s] = <<>> /\ channel[s] = <<>> /\ lost[s] = {}
    /\ \A p \in Producer : s \notin adding[p].to

\* The event a producer still hands round is the newest of its own.
InFlight ==
  \A p \in Producer : adding[p].to # {} =>
    /\ adding[p].seq \in 1..seq
    /\ author[adding[p].seq] = p
    /\ \A n \in (adding[p].seq + 1)..seq : author[n] # p

\* No event is delivered twice, or delivered and lost, or either and still to come.
Apart ==
  \A s \in Subscriber :
    /\ IsInjective(Delivered(s))
    /\ Range(Delivered(s)) \cap (Pending(s) \cup lost[s]) = {}
    /\ Pending(s) \cap lost[s] = {}

\* Every event since a stream came is delivered, lost or still to come.
Accounted ==
  \A s \in subscribers :
    (since[s] + 1)..seq = Range(Delivered(s)) \cup Pending(s) \cup lost[s]

FanInv ==
  TypeOK /\ Streams /\ Fresh /\ InFlight /\ Apart /\ Accounted /\ AuthorsKeepOrder

-----------------------------------------------------------------------------
(* Sequences of events.                                                     *)

\* d has the events of each author in the order of their numbers.
InOrder(d, by) ==
  \A i, j \in DOMAIN d : i < j /\ by[d[i]] = by[d[j]] => d[i] < d[j]

\* A sequence that gets one more event, and what it keeps.
LEMMA OneMore ==
  ASSUME NEW d \in Seq(Nat), NEW x \in Nat, NEW by
  PROVE  /\ Range(Append(d, x)) = Range(d) \cup {x}
         /\ IsInjective(d) /\ x \notin Range(d) => IsInjective(Append(d, x))
         /\ InOrder(d, by) /\ (\A y \in Range(d) : by[y] = by[x] => y < x)
              => InOrder(Append(d, x), by)
<1> DEFINE e == Append(d, x)
<1>1. /\ DOMAIN d = 1..Len(d) /\ Len(d) \in Nat
      /\ DOMAIN e = 1..(Len(d) + 1)
      /\ \A i \in 1..Len(d) : e[i] = d[i]
      /\ e[Len(d) + 1] = x
  BY AppendProperties
<1> HIDE DEF e
<1>2. Range(e) = Range(d) \cup {x}
  <2>1. Range(e) \subseteq Range(d) \cup {x}
    BY <1>1 DEF Range
  <2>2. Range(d) \subseteq Range(e)
    BY <1>1 DEF Range
  <2>3. x \in Range(e)
    BY <1>1 DEF Range
  <2> QED
    BY <2>1, <2>2, <2>3
<1>3. IsInjective(d) /\ x \notin Range(d) => IsInjective(e)
  BY <1>1 DEF IsInjective, Range
<1>4. InOrder(d, by) /\ (\A y \in Range(d) : by[y] = by[x] => y < x) => InOrder(e, by)
  BY <1>1 DEF InOrder, Range
<1> QED
  BY <1>2, <1>3, <1>4 DEF e

\* What the end of a sequence inherits from it.
LEMMA Ends ==
  ASSUME NEW a \in Seq(Nat), NEW b \in Seq(Nat), NEW by
  PROVE  /\ Range(b) \subseteq Range(a \o b)
         /\ IsInjective(a \o b) => IsInjective(b)
         /\ InOrder(a \o b, by) => InOrder(b, by)
<1> DEFINE c == a \o b
<1>1. /\ DOMAIN b = 1..Len(b) /\ Len(b) \in Nat /\ Len(a) \in Nat
      /\ DOMAIN c = 1..(Len(a) + Len(b))
      /\ \A i \in 1..Len(b) : c[Len(a) + i] = b[i]
  BY ConcatProperties
<1> HIDE DEF c
<1>2. \A i \in 1..Len(b) : Len(a) + i \in DOMAIN c
  BY <1>1
<1>3. Range(b) \subseteq Range(c)
  BY <1>1, <1>2 DEF Range
<1>4. IsInjective(c) => IsInjective(b)
  <2> SUFFICES ASSUME IsInjective(c), NEW i \in 1..Len(b), NEW j \in 1..Len(b), b[i] = b[j]
               PROVE  i = j
    BY <1>1 DEF IsInjective
  <2>1. Len(a) + i = Len(a) + j
    BY <1>1, <1>2 DEF IsInjective
  <2> QED
    BY <1>1, <2>1
<1>5. InOrder(c, by) => InOrder(b, by)
  <2> SUFFICES ASSUME InOrder(c, by), NEW i \in 1..Len(b), NEW j \in 1..Len(b),
                      i < j, by[b[i]] = by[b[j]]
               PROVE  b[i] < b[j]
    BY <1>1 DEF InOrder
  <2>1. Len(a) + i < Len(a) + j
    BY <1>1
  <2>2. c[Len(a) + i] = b[i] /\ c[Len(a) + j] = b[j]
    BY <1>1
  <2> QED
    BY <1>2, <2>1, <2>2 DEF InOrder
<1> QED
  BY <1>3, <1>4, <1>5 DEF c

\* The event at the head of b passes to the end of a, or a new one comes to the end.
LEMMA PassOn ==
  ASSUME NEW a \in Seq(Nat), NEW b \in Seq(Nat)
  PROVE  /\ b # <<>> => Append(a, Head(b)) \o Tail(b) = a \o b
         /\ \A x \in Nat : a \o Append(b, x) = Append(a \o b, x)
<1>1. ASSUME b # <<>> PROVE Append(a, Head(b)) \o Tail(b) = a \o b
  <2>1. Head(b) \in Nat /\ Tail(b) \in Seq(Nat) /\ <<Head(b)>> \in Seq(Nat)
    BY <1>1, HeadTailProperties
  <2>2. Append(a, Head(b)) = a \o <<Head(b)>>
    BY <2>1, AppendIsConcat
  <2>3. <<Head(b)>> \o Tail(b) = b
    BY <1>1, <2>1, SMTT(30)
  <2>4. (a \o <<Head(b)>>) \o Tail(b) = a \o (<<Head(b)>> \o Tail(b))
    BY <2>1, ConcatAssociative
  <2> QED
    BY <2>2, <2>3, <2>4
<1>2. ASSUME NEW x \in Nat PROVE a \o Append(b, x) = Append(a \o b, x)
  <2>1. <<x>> \in Seq(Nat) /\ a \o b \in Seq(Nat)
    BY ConcatProperties
  <2>2. Append(b, x) = b \o <<x>> /\ Append(a \o b, x) = (a \o b) \o <<x>>
    BY <2>1, AppendIsConcat
  <2> QED
    BY <2>1, <2>2, ConcatAssociative
<1> QED
  BY <1>1, <1>2

-----------------------------------------------------------------------------
(* The invariant of the fan-out is inductive.                               *)

\* What is delivered, lost or to come is a number given out.
LEMMA DeliveredType ==
  ASSUME TypeOK, NEW s \in Subscriber
  PROVE  /\ seq \in Nat
         /\ received[s] \in Seq(1..seq) /\ channel[s] \in Seq(1..seq)
         /\ received[s] \in Seq(Nat) /\ channel[s] \in Seq(Nat)
         /\ Delivered(s) \in Seq(1..seq) /\ Delivered(s) \in Seq(Nat)
         /\ Range(Delivered(s)) \subseteq 1..seq
         /\ lost[s] \subseteq 1..seq
<1>1. seq \in Nat /\ received[s] \in Seq(1..seq) /\ channel[s] \in Seq(1..seq)
      /\ lost[s] \subseteq 1..seq
  BY EventLogAssumption DEF TypeOK
<1>2. 1..seq \subseteq Nat
  BY <1>1
<1>3. received[s] \in Seq(Nat) /\ channel[s] \in Seq(Nat)
  BY <1>1, <1>2, SeqMonotonic
<1>4. Delivered(s) \in Seq(1..seq)
  BY <1>1, ConcatProperties DEF Delivered
<1>5. Delivered(s) \in Seq(Nat)
  BY <1>2, <1>4, SeqMonotonic
<1>6. Range(Delivered(s)) \subseteq 1..seq
  <2>1. DOMAIN Delivered(s) = 1..Len(Delivered(s))
    BY <1>4, LenProperties
  <2>2. \A i \in 1..Len(Delivered(s)) : Delivered(s)[i] \in 1..seq
    BY <1>4, ElementOfSeq
  <2> QED
    BY <2>1, <2>2 DEF Range
<1> QED
  BY <1>1, <1>3, <1>4, <1>5, <1>6

LEMMA PendingType ==
  ASSUME TypeOK, InFlight, NEW s \in Subscriber
  PROVE  Pending(s) \subseteq 1..seq
  BY DEF Pending, InFlight

\* No two producers hand round the same event.
LEMMA InFlightApart ==
  ASSUME TypeOK, InFlight, NEW p \in Producer, NEW q \in Producer,
         adding[p].to # {}, adding[q].to # {}, adding[p].seq = adding[q].seq
  PROVE  p = q
  BY DEF InFlight

LEMMA InitFanInv == Init => FanInv
<1> SUFFICES ASSUME Init PROVE FanInv
  OBVIOUS
<1> USE EventLogAssumption
<1>1. \A s \in Subscriber : received[s] = <<>> /\ channel[s] = <<>> /\ lost[s] = {}
                            /\ stream[s] = "new"
  BY DEF Init
<1>2. \A p \in Producer : adding[p] = Nothing /\ adding[p].to = {}
  BY DEF Init, Nothing
<1>3. \A s \in Subscriber : Delivered(s) = <<>>
  BY <1>1 DEF Delivered
<1>4. TypeOK
  <2>1. channel \in [Subscriber -> Seq(1..seq)] /\ received \in [Subscriber -> Seq(1..seq)]
    BY DEF Init
  <2>2. adding \in [Producer -> [seq : 0..seq, to : SUBSET Subscriber]]
    BY DEF Init, Nothing
  <2>3. events \in [0..(Size - 1) -> 0..seq] /\ next \in 0..(Size - 1) /\ seq \in 0..MaxSeq
    BY DEF Init
  <2>4. since \in [Subscriber -> 0..seq] /\ lost \in [Subscriber -> SUBSET (1..seq)]
    BY DEF Init
  <2>5. author \in Seq(Producer) /\ Len(author) = seq
    BY DEF Init
  <2>6. \A s \in Subscriber : Len(channel[s]) <= Buffer
    BY <1>1
  <2>7. /\ full \in BOOLEAN /\ panicked \in BOOLEAN /\ subscribers \subseteq Subscriber
        /\ stream \in [Subscriber -> {"new", "open", "leaving", "unsubscribed", "closed"}]
    BY DEF Init
  <2> QED
    BY <2>1, <2>2, <2>3, <2>4, <2>5, <2>6, <2>7 DEF TypeOK
<1>5. Streams /\ Fresh /\ InFlight
  BY <1>1, <1>2 DEF Streams, Fresh, InFlight, Init
<1>6. \A s \in Subscriber : Pending(s) = {}
  BY <1>2 DEF Pending
<1>7. Apart /\ Accounted /\ AuthorsKeepOrder
  BY <1>1, <1>3, <1>6 DEF Apart, Accounted, AuthorsKeepOrder, Init, Range, IsInjective
<1> QED
  BY <1>4, <1>5, <1>7 DEF FanInv

\* A step that delivers nothing, loses nothing and adds nothing.
LEMMA SameDeliveries ==
  ASSUME FanInv, UNCHANGED <<seq, author, adding, lost>>,
         \A s \in Subscriber : Delivered(s)' = Delivered(s)
  PROVE  /\ InFlight' /\ Apart' /\ AuthorsKeepOrder'
         /\ \A s \in Subscriber : Pending(s)' = Pending(s)
<1>1. \A s \in Subscriber : Pending(s)' = Pending(s)
  BY DEF Pending
<1>2. InFlight'
  BY DEF FanInv, InFlight
<1>3. Apart'
  <2> SUFFICES ASSUME NEW s \in Subscriber
               PROVE  /\ IsInjective(Delivered(s)')
                      /\ Range(Delivered(s)') \cap (Pending(s)' \cup lost'[s]) = {}
                      /\ Pending(s)' \cap lost'[s] = {}
    BY DEF Apart
  <2>1. Delivered(s)' = Delivered(s) /\ Pending(s)' = Pending(s) /\ lost' = lost
    BY <1>1
  <2>2. /\ IsInjective(Delivered(s))
        /\ Range(Delivered(s)) \cap (Pending(s) \cup lost[s]) = {}
        /\ Pending(s) \cap lost[s] = {}
    BY DEF FanInv, Apart
  <2> QED
    BY <2>1, <2>2
<1>4. AuthorsKeepOrder'
  <2> SUFFICES ASSUME NEW s \in Subscriber
               PROVE  InOrder(Delivered(s)', author')
    BY DEF AuthorsKeepOrder, InOrder
  <2>1. InOrder(Delivered(s), author)
    BY DEF FanInv, AuthorsKeepOrder, InOrder
  <2> QED
    BY <2>1
<1> QED
  BY <1>1, <1>2, <1>3, <1>4

\* Nor is anything new to account for, as long as the same are subscribed.
LEMMA SameAccounts ==
  ASSUME FanInv, UNCHANGED <<seq, author, adding, lost, since, subscribers>>,
         \A s \in Subscriber : Delivered(s)' = Delivered(s)
  PROVE  Accounted'
<1> SUFFICES ASSUME NEW s \in subscribers
             PROVE  (since'[s] + 1)..seq' = Range(Delivered(s)') \cup Pending(s)' \cup lost'[s]
  BY DEF Accounted
<1>1. s \in Subscriber
  BY DEF FanInv, TypeOK
<1>2. Delivered(s)' = Delivered(s) /\ Pending(s)' = Pending(s)
  BY <1>1, SameDeliveries
<1>3. (since[s] + 1)..seq = Range(Delivered(s)) \cup Pending(s) \cup lost[s]
  BY DEF FanInv, Accounted
<1> QED
  BY <1>2, <1>3

\* What nobody is sent and nobody reads stays as it is.
LEMMA NothingMoves ==
  ASSUME FanInv, TypeOK', Streams', Fresh',
         UNCHANGED <<seq, author, adding, channel, received, lost, since, subscribers>>
  PROVE  FanInv'
<1>1. \A s \in Subscriber : Delivered(s)' = Delivered(s)
  BY DEF Delivered
<1> QED
  BY <1>1, SameDeliveries, SameAccounts DEF FanInv

LEMMA LeaveKeepsFan ==
  ASSUME FanInv, NEW s \in Subscriber, Leave(s) \/ Close(s)
  PROVE  FanInv'
<1> USE DEF Leave, Close, log, history
<1>1. TypeOK'
  BY DEF FanInv, TypeOK
<1>2. Streams' /\ Fresh'
  BY DEF FanInv, Streams, Fresh, TypeOK
<1> QED
  BY <1>1, <1>2, NothingMoves

LEMMA SendToClosedKeepsFan ==
  ASSUME FanInv, NEW p \in Producer, SendToClosed(p)
  PROVE  FanInv'
<1> USE DEF SendToClosed, log, history
<1>1. TypeOK'
  BY DEF FanInv, TypeOK
<1>2. Streams' /\ Fresh'
  BY DEF FanInv, Streams, Fresh
<1> QED
  BY <1>1, <1>2, NothingMoves

\* A stream that subscribes has no past.
LEMMA SubscribeKeepsFan ==
  ASSUME FanInv, NEW s \in Subscriber, Subscribe(s)
  PROVE  FanInv'
<1> USE DEF Subscribe, log
<1>0. TypeOK
  BY DEF FanInv
<1>1. TypeOK'
  BY DEF FanInv, TypeOK
<1>2. Streams' /\ Fresh'
  BY DEF FanInv, Streams, Fresh, TypeOK
<1>3. \A t \in Subscriber : Delivered(t)' = Delivered(t)
  BY DEF Delivered
<1>4. /\ InFlight' /\ Apart' /\ AuthorsKeepOrder'
      /\ \A t \in Subscriber : Pending(t)' = Pending(t)
  BY <1>3, SameDeliveries
<1>5. Accounted'
  <2>1. s \notin subscribers /\ seq \in Nat /\ since'[s] = seq
    <3>1. s \notin subscribers
      BY DEF FanInv, Streams
    <3> QED
      BY <1>0, <3>1, EventLogAssumption DEF TypeOK
  <2>2. received[s] = <<>> /\ channel[s] = <<>> /\ lost[s] = {} /\ Pending(s) = {}
    BY DEF FanInv, Fresh, Pending
  <2>3. Range(Delivered(s)) = {}
    BY <2>2 DEF Delivered, Range
  <2>4. \A t \in subscribers : since'[t] = since[t]
    BY <2>1 DEF FanInv, TypeOK
  <2> SUFFICES ASSUME NEW t \in subscribers \cup {s}
               PROVE  (since'[t] + 1)..seq = Range(Delivered(t)') \cup Pending(t)' \cup lost[t]
    BY DEF Accounted
  <2>5. Delivered(t)' = Delivered(t) /\ Pending(t)' = Pending(t)
    BY <1>0, <1>3, <1>4 DEF TypeOK
  <2>6. CASE t = s
    <3>1. (seq + 1)..seq = {}
      BY <2>1
    <3> QED
      BY <2>1, <2>2, <2>3, <2>5, <2>6, <3>1
  <2>7. CASE t \in subscribers
    <3>1. (since[t] + 1)..seq = Range(Delivered(t)) \cup Pending(t) \cup lost[t]
      BY <2>7 DEF FanInv, Accounted
    <3> QED
      BY <2>4, <2>5, <2>7, <3>1
  <2> QED
    BY <2>6, <2>7
<1> QED
  BY <1>1, <1>2, <1>4, <1>5 DEF FanInv

\* An event that passes from the channel to the stream has been delivered all along.
LEMMA ReceiveKeepsFan ==
  ASSUME FanInv, NEW s \in Subscriber, Receive(s)
  PROVE  FanInv'
<1> USE DEF Receive, log
<1>0. TypeOK
  BY DEF FanInv
<1>1. /\ received[s] \in Seq(1..seq) /\ channel[s] \in Seq(1..seq)
      /\ received[s] \in Seq(Nat) /\ channel[s] \in Seq(Nat) /\ seq \in Nat
  BY <1>0, DeliveredType
<1>2. Head(channel[s]) \in 1..seq /\ Tail(channel[s]) \in Seq(1..seq)
      /\ Len(Tail(channel[s])) = Len(channel[s]) - 1
  BY <1>1, HeadTailProperties
<1>3. Append(received[s], Head(channel[s])) \in Seq(1..seq)
  BY <1>1, <1>2, AppendProperties
<1>4. TypeOK'
  <2>1. channel' \in [Subscriber -> Seq(1..seq)] /\ received' \in [Subscriber -> Seq(1..seq)]
    BY <1>0, <1>2, <1>3 DEF TypeOK
  <2>2. \A t \in Subscriber : Len(channel'[t]) <= Buffer
    BY <1>0, <1>1, <1>2, EventLogAssumption DEF TypeOK
  <2>3. stream' \in [Subscriber -> {"new", "open", "leaving", "unsubscribed", "closed"}]
    BY <1>0 DEF TypeOK
  <2> QED
    BY <1>0, <2>1, <2>2, <2>3 DEF TypeOK
<1>5. \A t \in Subscriber : Delivered(t)' = Delivered(t)
  <2>1. Append(received[s], Head(channel[s])) \o Tail(channel[s]) = received[s] \o channel[s]
    BY <1>1, PassOn
  <2>2. received'[s] = Append(received[s], Head(channel[s])) /\ channel'[s] = Tail(channel[s])
    BY <1>0 DEF TypeOK
  <2>3. \A t \in Subscriber \ {s} : received'[t] = received[t] /\ channel'[t] = channel[t]
    BY <1>0 DEF TypeOK
  <2>4. Delivered(s)' = Delivered(s)
    BY <2>1, <2>2 DEF Delivered
  <2>5. \A t \in Subscriber \ {s} : Delivered(t)' = Delivered(t)
    BY <2>3 DEF Delivered
  <2> QED
    BY <2>4, <2>5
<1>6. Streams' /\ Fresh'
  BY <1>0 DEF FanInv, Streams, Fresh, TypeOK
<1> QED
  BY <1>4, <1>5, <1>6, SameDeliveries, SameAccounts DEF FanInv

\* A stream that is released forgets; what is still in its channel was in order.
LEMMA UnsubscribeKeepsFan ==
  ASSUME FanInv, NEW s \in Subscriber, Unsubscribe(s)
  PROVE  FanInv'
<1> USE DEF Unsubscribe, log
<1>0. TypeOK
  BY DEF FanInv
<1>1. TypeOK'
  <2>1. received' \in [Subscriber -> Seq(1..seq)] /\ since' \in [Subscriber -> 0..seq]
    BY <1>0, EventLogAssumption DEF TypeOK
  <2> QED
    BY <1>0, <2>1 DEF TypeOK
<1>2. Streams' /\ Fresh'
  BY <1>0 DEF FanInv, Streams, Fresh, TypeOK
<1>3. \A t \in Subscriber \ {s} :
        Delivered(t)' = Delivered(t) /\ lost'[t] = lost[t] /\ since'[t] = since[t]
  BY <1>0 DEF TypeOK, Delivered
<1>4. \A t \in Subscriber : Pending(t)' = Pending(t)
  BY DEF Pending
<1>5. Delivered(s)' = channel[s] /\ lost'[s] = {}
  BY <1>0, DeliveredType, ConcatEmptySeq DEF TypeOK, Delivered
<1>6. received[s] \in Seq(Nat) /\ channel[s] \in Seq(Nat)
  BY <1>0, DeliveredType
<1>7. Apart'
  <2>1. Range(channel[s]) \subseteq Range(Delivered(s)) /\ IsInjective(channel[s])
    BY <1>6, Ends DEF FanInv, Apart, Delivered
  <2> QED
    BY <1>3, <1>4, <1>5, <2>1 DEF FanInv, Apart
<1>8. AuthorsKeepOrder'
  <2>1. \A t \in Subscriber : InOrder(Delivered(t), author)
    BY DEF FanInv, AuthorsKeepOrder, InOrder
  <2>2. InOrder(channel[s], author)
    BY <1>6, <2>1, Ends DEF Delivered
  <2> QED
    BY <1>3, <1>5, <2>1, <2>2 DEF AuthorsKeepOrder, InOrder
<1>9. InFlight' /\ Accounted'
  BY <1>3, <1>4 DEF FanInv, InFlight, Accounted, TypeOK
<1> QED
  BY <1>1, <1>2, <1>7, <1>8, <1>9 DEF FanInv

\* The event that is offered is in nobody else's hands, and newer than any of its
\* author's that was delivered.
LEMMA SendKeepsFan ==
  ASSUME FanInv, NEW p \in Producer, Send(p)
  PROVE  FanInv'
<1>0. TypeOK
  BY DEF FanInv
<1>1. PICK s \in adding[p].to :
        /\ stream[s] # "closed"
        /\ IF HasRoom(s) THEN channel' = [channel EXCEPT ![s] = Append(@, Carried(p))]
                         ELSE UNCHANGED channel
        /\ lost' = IF Len(channel[s]) = Buffer
                     THEN [lost EXCEPT ![s] = @ \cup {Carried(p)}] ELSE lost
        /\ adding' = [adding EXCEPT ![p] = Without(@, s)]
  BY DEF Send
<1>2. UNCHANGED <<log, subscribers, stream, panicked, since, received, author>>
  BY DEF Send
<1> DEFINE x == Carried(p)
<1>3. s \in Subscriber /\ x \in 1..seq /\ seq \in Nat /\ x \in Nat
  BY <1>0, EventLogAssumption DEF FanInv, TypeOK, InFlight, Carried
<1>4. /\ Len(channel[s]) \in Nat /\ Len(channel[s]) <= Buffer
      /\ channel[s] \in Seq(1..seq) /\ channel[s] \in Seq(Nat) /\ received[s] \in Seq(Nat)
      /\ Delivered(s) \in Seq(Nat)
  BY <1>0, <1>3, DeliveredType DEF TypeOK
<1>5. /\ adding'[p].to = adding[p].to \ {s}
      /\ adding'[p].to # {} => adding'[p].seq = adding[p].seq
      /\ adding'[p] \in [seq : 0..seq, to : SUBSET Subscriber]
      /\ \A q \in Producer \ {p} : adding'[q] = adding[q]
  <2>1. adding'[p] = Without(adding[p], s) /\ adding[p] \in [seq : 0..seq, to : SUBSET Subscriber]
    BY <1>0, <1>1 DEF TypeOK
  <2>2. \A q \in Producer \ {p} : adding'[q] = adding[q]
    BY <1>0, <1>1 DEF TypeOK
  <2>3. CASE adding[p].to = {s}
    BY <1>3, <2>1, <2>2, <2>3 DEF Without, Nothing
  <2>4. CASE adding[p].to # {s}
    <3>1. Without(adding[p], s) = [adding[p] EXCEPT !.to = @ \ {s}]
      BY <2>4 DEF Without
    <3> QED
      BY <2>1, <2>2, <3>1
  <2> QED
    BY <2>3, <2>4
<1>6. \A t \in Subscriber \ {s} : /\ Delivered(t)' = Delivered(t)
                                  /\ lost'[t] = lost[t]
                                  /\ Pending(t)' = Pending(t)
  <2> SUFFICES ASSUME NEW t \in Subscriber \ {s}
               PROVE  /\ channel'[t] = channel[t] /\ received'[t] = received[t]
                      /\ lost'[t] = lost[t]
                      /\ Pending(t)' = Pending(t)
    BY DEF Delivered
  <2>1. channel'[t] = channel[t] /\ received'[t] = received[t] /\ lost'[t] = lost[t]
    BY <1>0, <1>1, <1>2 DEF TypeOK
  <2>2. \A q \in Producer : t \in adding'[q].to <=> t \in adding[q].to
    BY <1>5
  <2>3. \A q \in Producer : t \in adding[q].to => adding'[q].seq = adding[q].seq
    BY <1>5, <2>2
  <2>4. Pending(t)' = Pending(t)
    BY <2>2, <2>3 DEF Pending
  <2> QED
    BY <2>1, <2>4
<1>7. Pending(s)' = Pending(s) \ {x} /\ x \in Pending(s)
  <2>1. \A q \in Producer : s \in adding'[q].to <=> q # p /\ s \in adding[q].to
    BY <1>5
  <2>2. \A q \in Producer \ {p} : s \in adding[q].to => adding[q].seq # x
    BY <1>0, <1>1, InFlightApart DEF FanInv, Carried
  <2>3. x \in Pending(s)
    BY <1>1 DEF Pending, Carried
  <2>4. Pending(s)' \subseteq Pending(s) \ {x}
    BY <1>5, <2>1, <2>2 DEF Pending
  <2>5. Pending(s) \ {x} \subseteq Pending(s)'
    BY <1>5, <2>1 DEF Pending, Carried
  <2> QED
    BY <2>3, <2>4, <2>5
<1>8. x \notin Range(Delivered(s)) /\ x \notin lost[s]
  BY <1>3, <1>7 DEF FanInv, Apart
<1>9. \A y \in Range(Delivered(s)) : author[y] = author[x] => y < x
  <2> SUFFICES ASSUME NEW y \in Range(Delivered(s)), author[y] = author[x], ~(y < x)
               PROVE  FALSE
    OBVIOUS
  <2>1. y \in 1..seq
    BY <1>0, <1>3, DeliveredType
  <2>2. y \in (x + 1)..seq
    BY <1>3, <1>8, <2>1
  <2>3. author[x] = p /\ \A n \in (x + 1)..seq : author[n] # p
    BY <1>1 DEF FanInv, InFlight, Carried
  <2> QED
    BY <2>2, <2>3
<1>10. \/ /\ Delivered(s)' = Append(Delivered(s), x) /\ lost'[s] = lost[s]
          /\ channel' = [channel EXCEPT ![s] = Append(channel[s], x)]
          /\ Len(channel[s]) < Buffer
       \/ /\ Delivered(s)' = Delivered(s) /\ lost'[s] = lost[s] \cup {x}
          /\ UNCHANGED channel
  <2>1. CASE HasRoom(s)
    <3>1. /\ channel' = [channel EXCEPT ![s] = Append(channel[s], x)]
          /\ Len(channel[s]) < Buffer /\ lost'[s] = lost[s]
      BY <1>1, <1>4, <2>1, EventLogAssumption DEF HasRoom
    <3>2. channel'[s] = Append(channel[s], x) /\ received'[s] = received[s]
      BY <1>0, <1>2, <1>3, <3>1 DEF TypeOK
    <3>3. Delivered(s)' = Append(Delivered(s), x)
      <4>1. received[s] \o Append(channel[s], x) = Append(received[s] \o channel[s], x)
        BY <1>3, <1>4, PassOn
      <4> QED
        BY <3>2, <4>1 DEF Delivered
    <3> QED
      BY <3>1, <3>3
  <2>2. CASE ~HasRoom(s)
    <3>1. Len(channel[s]) = Buffer /\ UNCHANGED channel
      BY <1>1, <1>4, <2>2, EventLogAssumption DEF HasRoom
    <3>2. lost'[s] = lost[s] \cup {x}
      BY <1>0, <1>1, <1>3, <3>1 DEF TypeOK
    <3> QED
      BY <1>2, <3>1, <3>2 DEF Delivered
  <2> QED
    BY <2>1, <2>2
<1>11. lost'[s] \subseteq 1..seq
  BY <1>0, <1>3, <1>10, DeliveredType
<1> HIDE DEF x
<1>12. TypeOK'
  <2>1. channel' \in [Subscriber -> Seq(1..seq)]
        /\ \A t \in Subscriber : Len(channel'[t]) <= Buffer
    <3>1. Append(channel[s], x) \in Seq(1..seq)
          /\ Len(Append(channel[s], x)) = Len(channel[s]) + 1
      BY <1>3, <1>4, AppendProperties
    <3>2. CASE channel' = [channel EXCEPT ![s] = Append(channel[s], x)]
               /\ Len(channel[s]) < Buffer
      <4>1. channel'[s] = Append(channel[s], x) /\ Len(channel'[s]) <= Buffer
        BY <1>0, <1>3, <1>4, <3>1, <3>2, EventLogAssumption DEF TypeOK
      <4>2. \A t \in Subscriber \ {s} : channel'[t] = channel[t]
        BY <1>0, <3>2 DEF TypeOK
      <4>3. channel' \in [Subscriber -> Seq(1..seq)]
        BY <1>0, <3>1, <3>2 DEF TypeOK
      <4> QED
        BY <1>0, <4>1, <4>2, <4>3 DEF TypeOK
    <3>3. CASE UNCHANGED channel
      BY <1>0, <3>3 DEF TypeOK
    <3> QED
      BY <1>10, <3>2, <3>3
  <2>2. lost' \in [Subscriber -> SUBSET (1..seq)]
    BY <1>0, <1>1, <1>3 DEF TypeOK, x
  <2>3. adding' \in [Producer -> [seq : 0..seq, to : SUBSET Subscriber]]
    BY <1>0, <1>1, <1>5 DEF TypeOK
  <2> QED
    BY <1>0, <1>2, <2>1, <2>2, <2>3 DEF TypeOK, log
<1>13. Streams'
  BY <1>2 DEF FanInv, Streams
<1>14. Fresh'
  <2>1. stream[s] # "new"
    BY <1>1, <1>3 DEF FanInv, Fresh
  <2>2. \A t \in Subscriber \ {s} :
          channel'[t] = channel[t] /\ received'[t] = received[t] /\ lost'[t] = lost[t]
    BY <1>0, <1>1, <1>2 DEF TypeOK
  <2>3. \A q \in Producer : adding'[q].to \subseteq adding[q].to
    BY <1>5
  <2> QED
    BY <1>2, <2>1, <2>2, <2>3 DEF FanInv, Fresh
<1>15. InFlight'
  <2>1. \A q \in Producer : adding'[q].to # {} =>
          adding[q].to # {} /\ adding'[q].seq = adding[q].seq
    BY <1>5
  <2> QED
    BY <1>2, <2>1 DEF FanInv, InFlight, log
<1>16. Apart'
  <2>1. /\ IsInjective(Delivered(s)')
        /\ Range(Delivered(s)') \cap (Pending(s)' \cup lost'[s]) = {}
        /\ Pending(s)' \cap lost'[s] = {}
    <3>1. /\ IsInjective(Delivered(s)) /\ Pending(s) \cap lost[s] = {}
          /\ Range(Delivered(s)) \cap (Pending(s) \cup lost[s]) = {}
      BY <1>3 DEF FanInv, Apart
    <3>2. CASE Delivered(s)' = Append(Delivered(s), x) /\ lost'[s] = lost[s]
      <4>1. /\ Range(Delivered(s)') = Range(Delivered(s)) \cup {x}
            /\ IsInjective(Delivered(s)')
        BY <1>3, <1>4, <1>8, <3>1, <3>2, OneMore
      <4> QED
        BY <1>7, <1>8, <3>1, <3>2, <4>1
    <3>3. CASE Delivered(s)' = Delivered(s) /\ lost'[s] = lost[s] \cup {x}
      BY <1>7, <1>8, <3>1, <3>3
    <3> QED
      BY <1>10, <3>2, <3>3
  <2>2. \A t \in Subscriber \ {s} :
          /\ IsInjective(Delivered(t)')
          /\ Range(Delivered(t)') \cap (Pending(t)' \cup lost'[t]) = {}
          /\ Pending(t)' \cap lost'[t] = {}
    BY <1>6 DEF FanInv, Apart
  <2> QED
    BY <2>1, <2>2 DEF Apart
<1>17. Accounted'
  <2>1. Range(Delivered(s)') \cup Pending(s)' \cup lost'[s]
          = Range(Delivered(s)) \cup Pending(s) \cup lost[s]
    <3>1. CASE Delivered(s)' = Append(Delivered(s), x) /\ lost'[s] = lost[s]
      <4>1. Range(Delivered(s)') = Range(Delivered(s)) \cup {x}
        BY <1>3, <1>4, <3>1, OneMore
      <4> QED
        BY <1>7, <3>1, <4>1
    <3>2. CASE Delivered(s)' = Delivered(s) /\ lost'[s] = lost[s] \cup {x}
      BY <1>7, <3>2
    <3> QED
      BY <1>10, <3>1, <3>2
  <2>2. \A t \in subscribers : Range(Delivered(t)') \cup Pending(t)' \cup lost'[t]
          = Range(Delivered(t)) \cup Pending(t) \cup lost[t]
    BY <1>0, <1>6, <2>1 DEF TypeOK
  <2> QED
    BY <1>2, <2>2 DEF FanInv, Accounted, log
<1>18. AuthorsKeepOrder'
  <2>1. \A t \in Subscriber : InOrder(Delivered(t), author)
    BY DEF FanInv, AuthorsKeepOrder, InOrder
  <2>2. InOrder(Delivered(s)', author)
    BY <1>3, <1>4, <1>9, <1>10, <2>1, OneMore
  <2>3. \A t \in Subscriber : InOrder(Delivered(t)', author)
    BY <1>6, <2>1, <2>2
  <2> QED
    BY <1>2, <2>3 DEF AuthorsKeepOrder, InOrder
<1> QED
  BY <1>12, <1>13, <1>14, <1>15, <1>16, <1>17, <1>18 DEF FanInv

\* The new event is nowhere yet, and goes to everyone who is subscribed.
LEMMA AddKeepsFan ==
  ASSUME FanInv, NEW p \in Producer, Add(p)
  PROVE  FanInv'
<1>0. TypeOK
  BY DEF FanInv
<1> DEFINE a == IF subscribers = {} THEN Nothing ELSE [seq |-> seq + 1, to |-> subscribers]
<1>1. /\ seq \in Nat /\ seq' = seq + 1 /\ seq + 1 \in 0..MaxSeq
      /\ adding[p] = Nothing /\ adding[p].to = {}
      /\ adding' = [adding EXCEPT ![p] = a]
      /\ author' = Append(author, p) /\ Len(author) = seq /\ author \in Seq(Producer)
      /\ UNCHANGED <<subscribers, channel, stream, panicked, since, received, lost>>
  BY <1>0, EventLogAssumption DEF Add, TypeOK, Nothing
<1>2. /\ adding'[p] = a
      /\ \A q \in Producer \ {p} : adding'[q] = adding[q]
  BY <1>0, <1>1 DEF TypeOK
<1>3. /\ a.to = subscribers
      /\ subscribers # {} => a.seq = seq + 1
      /\ a \in [seq : 0..(seq + 1), to : SUBSET Subscriber]
  BY <1>0, <1>1 DEF Nothing, TypeOK
<1> HIDE DEF a
<1>4. author' \in Seq(Producer) /\ Len(author') = seq + 1
      /\ author'[seq + 1] = p
      /\ \A n \in 1..seq : author'[n] = author[n]
  BY <1>1, AppendProperties
<1>5. \A s \in Subscriber : /\ Delivered(s)' = Delivered(s)
                            /\ Pending(s)' = Pending(s) \cup (IF s \in subscribers THEN {seq + 1} ELSE {})
  <2> TAKE s \in Subscriber
  <2>1. Delivered(s)' = Delivered(s)
    BY <1>1 DEF Delivered
  <2>2. CASE s \in subscribers
    <3>1. \A q \in Producer : s \in adding'[q].to <=> q = p \/ s \in adding[q].to
      BY <1>2, <1>3, <2>2
    <3>2. a.seq = seq + 1
      BY <1>3, <2>2
    <3> QED
      BY <1>1, <1>2, <2>1, <2>2, <3>1, <3>2 DEF Pending
  <2>3. CASE s \notin subscribers
    <3>1. \A q \in Producer : s \in adding'[q].to <=> s \in adding[q].to
      BY <1>1, <1>2, <1>3, <2>3
    <3> QED
      BY <1>1, <1>2, <2>1, <2>3, <3>1 DEF Pending
  <2> QED
    BY <2>2, <2>3
<1>6. \A s \in Subscriber : /\ Range(Delivered(s)) \subseteq 1..seq
                            /\ lost[s] \subseteq 1..seq /\ Pending(s) \subseteq 1..seq
  BY <1>0, DeliveredType, PendingType DEF FanInv
<1>7. TypeOK'
  <2>1. 1..seq \subseteq 1..(seq + 1) /\ 0..seq \subseteq 0..(seq + 1)
    BY <1>1
  <2>2. channel \in [Subscriber -> Seq(1..(seq + 1))] /\ received \in [Subscriber -> Seq(1..(seq + 1))]
    <3>1. \A s \in Subscriber : channel[s] \in Seq(1..(seq + 1)) /\ received[s] \in Seq(1..(seq + 1))
      BY <1>0, <2>1, DeliveredType, SeqMonotonic
    <3> QED
      BY <1>0, <3>1 DEF TypeOK
  <2>3. events' \in [0..(Size - 1) -> 0..(seq + 1)]
    BY <1>0, <1>1, <2>1 DEF Add, TypeOK
  <2>4. next' \in 0..(Size - 1)
    <3>1. Size \in Nat /\ Size > 0 /\ next \in 0..(Size - 1) /\ next' = (next + 1) % Size
      BY <1>0, EventLogAssumption DEF Add, TypeOK
    <3>2. next + 1 \in 0..(2 * Size - 1)
      BY <3>1
    <3> QED
      BY <3>1, <3>2, Wraps
  <2>5. full' \in BOOLEAN
    <3>1. full \in BOOLEAN /\ full' = (full \/ next' = 0)
      BY <1>0 DEF Add, TypeOK
    <3> QED
      BY <3>1, Zenon
  <2>6. adding' \in [Producer -> [seq : 0..(seq + 1), to : SUBSET Subscriber]]
    <3>1. \A q \in Producer : adding'[q] \in [seq : 0..(seq + 1), to : SUBSET Subscriber]
      <4>1. \A q \in Producer : adding[q] \in [seq : 0..(seq + 1), to : SUBSET Subscriber]
        BY <1>0, <2>1 DEF TypeOK
      <4> QED
        BY <1>2, <1>3, <4>1
    <3> QED
      BY <1>0, <1>1, <3>1 DEF TypeOK
  <2>7. since \in [Subscriber -> 0..(seq + 1)] /\ lost \in [Subscriber -> SUBSET (1..(seq + 1))]
    BY <1>0, <2>1 DEF TypeOK
  <2> QED
    BY <1>0, <1>1, <1>4, <2>2, <2>3, <2>4, <2>5, <2>6, <2>7 DEF TypeOK
<1>8. Streams'
  BY <1>1 DEF FanInv, Streams
<1>9. Fresh'
  <2>1. \A s \in Subscriber : stream[s] = "new" => s \notin a.to
    BY <1>3 DEF FanInv, Streams
  <2> QED
    BY <1>1, <1>2, <2>1 DEF FanInv, Fresh
<1>10. InFlight'
  <2> SUFFICES ASSUME NEW q \in Producer, adding'[q].to # {}
               PROVE  /\ adding'[q].seq \in 1..(seq + 1)
                      /\ author'[adding'[q].seq] = q
                      /\ \A n \in (adding'[q].seq + 1)..(seq + 1) : author'[n] # q
    BY <1>1 DEF InFlight
  <2>1. CASE q = p
    <3>1. adding'[q].seq = seq + 1
      BY <1>2, <1>3, <2>1
    <3> QED
      BY <1>1, <1>4, <2>1, <3>1
  <2>2. CASE q # p
    <3>1. adding'[q] = adding[q] /\ adding[q].to # {}
      BY <1>2, <2>2
    <3>2. /\ adding[q].seq \in 1..seq /\ author[adding[q].seq] = q
          /\ \A n \in (adding[q].seq + 1)..seq : author[n] # q
      BY <3>1 DEF FanInv, InFlight
    <3>3. ASSUME NEW n \in (adding[q].seq + 1)..(seq + 1) PROVE author'[n] # q
      <4>1. CASE n = seq + 1
        BY <1>4, <2>2, <4>1
      <4>2. CASE n # seq + 1
        <5>1. n \in (adding[q].seq + 1)..seq /\ n \in 1..seq
          BY <1>1, <3>2, <4>2
        <5> QED
          BY <1>4, <3>2, <5>1
      <4> QED
        BY <4>1, <4>2
    <3> QED
      BY <1>1, <1>4, <3>1, <3>2, <3>3
  <2> QED
    BY <2>1, <2>2
<1>11. Apart'
  BY <1>1, <1>5, <1>6 DEF FanInv, Apart
<1>12. Accounted'
  <2> SUFFICES ASSUME NEW s \in subscribers
               PROVE  (since[s] + 1)..(seq + 1)
                        = Range(Delivered(s)) \cup (Pending(s) \cup {seq + 1}) \cup lost[s]
    BY <1>0, <1>1, <1>5 DEF Accounted, TypeOK
  <2>1. since[s] \in 0..seq
    BY <1>0 DEF TypeOK
  <2>2. (since[s] + 1)..(seq + 1) = ((since[s] + 1)..seq) \cup {seq + 1}
    BY <1>1, <2>1
  <2> QED
    BY <2>2 DEF FanInv, Accounted
<1>13. AuthorsKeepOrder'
  <2> SUFFICES ASSUME NEW s \in Subscriber,
                      NEW i \in DOMAIN Delivered(s), NEW j \in DOMAIN Delivered(s),
                      i < j, author'[Delivered(s)[i]] = author'[Delivered(s)[j]]
               PROVE  Delivered(s)[i] < Delivered(s)[j]
    BY <1>5 DEF AuthorsKeepOrder
  <2>1. Delivered(s)[i] \in 1..seq /\ Delivered(s)[j] \in 1..seq
    BY <1>6 DEF Range
  <2> QED
    BY <1>4, <2>1 DEF FanInv, AuthorsKeepOrder
<1> QED
  BY <1>7, <1>8, <1>9, <1>10, <1>11, <1>12, <1>13 DEF FanInv

LEMMA NextFanInv == FanInv /\ [Next]_vars => FanInv'
<1> SUFFICES ASSUME FanInv, [Next]_vars PROVE FanInv'
  OBVIOUS
<1>1. CASE UNCHANGED vars
  <2>1. TypeOK' /\ Streams' /\ Fresh'
    BY <1>1 DEF FanInv, TypeOK, Streams, Fresh, vars, log, history
  <2> QED
    BY <1>1, <2>1, NothingMoves DEF vars, log, history
<1> QED
  BY <1>1, AddKeepsFan, SendKeepsFan, SendToClosedKeepsFan, SubscribeKeepsFan,
     ReceiveKeepsFan, LeaveKeepsFan, UnsubscribeKeepsFan DEF Next

LEMMA AlwaysFanInv == Spec => []FanInv
  BY InitFanInv, NextFanInv, PTL DEF Spec

\* events.go:86-88: a stream misses nothing that is added while it is subscribed, but
\* what its full channel cost it, and nothing comes twice, however many producers, streams
\* and events there are.
THEOREM StreamsMissOnlyOverflow == Spec => []MissesOnlyOverflow
<1>1. FanInv => MissesOnlyOverflow
  BY DEF FanInv, MissesOnlyOverflow, Apart, Accounted, TypeOK
<1> QED
  BY <1>1, AlwaysFanInv, PTL

\* events.go:61-62, 82-84: the events of one goroutine reach a stream in the order it
\* added them, whatever those of others do.
THEOREM AuthorsAlwaysKeepOrder == Spec => []AuthorsKeepOrder
<1>1. FanInv => AuthorsKeepOrder
  BY DEF FanInv
<1> QED
  BY <1>1, AlwaysFanInv, PTL
=============================================================================
