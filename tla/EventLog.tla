------------------------------ MODULE EventLog ------------------------------
(***************************************************************************)
(* The audit log of internal/stats/events.go: a ring of the newest events, *)
(* and their fan-out to the streams of internal/server/sse.go.             *)
(*                                                                         *)
(* Add records an event under the lock and hands it to the subscribers it  *)
(* has copied after the lock is released, so that other calls of Add, new  *)
(* subscriptions and releases come between.  An event is its sequence      *)
(* number; a subscriber is one subscription, with a channel of its own.    *)
(***************************************************************************)
EXTENDS Naturals, Sequences, FiniteSets, Functions

CONSTANTS
  Producer,    \* goroutines that add events
  Subscriber,  \* streams
  Size,        \* eventLogSize
  Buffer,      \* eventBuffer
  MaxSeq       \* bound: events added in all

ASSUME EventLogAssumption ==
  /\ Size \in Nat \ {0}
  /\ Buffer \in Nat \ {0}
  /\ MaxSeq \in Nat

VARIABLES
  seq,          \* l.seq
  events,       \* l.events; 0 is an empty slot
  next,         \* l.next
  full,         \* l.full
  subscribers,  \* l.subscribers
  channel,      \* what each subscriber's channel holds
  stream,       \* of each handler: new, open, leaving, unsubscribed or closed
  adding,       \* the event each producer adds, and to whom it is still to go
  panicked,     \* the process is down
  since,        \* history: the newest event when each subscriber came; history of
                \* a stream ends with it
  received,     \* history: what each stream has written
  lost,         \* history: what each subscriber lost to a full channel
  author        \* history: who added each event

log == <<seq, events, next, full>>
history == <<since, received, lost, author>>
vars == <<log, subscribers, channel, stream, adding, panicked, history>>

-----------------------------------------------------------------------------

Nothing == [seq |-> 0, to |-> {}]

Init ==
  /\ seq = 0
  /\ events = [i \in 0..(Size - 1) |-> 0]
  /\ next = 0
  /\ full = FALSE
  /\ subscribers = {}
  /\ channel = [s \in Subscriber |-> <<>>]
  /\ stream = [s \in Subscriber |-> "new"]
  /\ adding = [p \in Producer |-> Nothing]
  /\ panicked = FALSE
  /\ since = [s \in Subscriber |-> 0]
  /\ received = [s \in Subscriber |-> <<>>]
  /\ lost = [s \in Subscriber |-> {}]
  /\ author = <<>>

-----------------------------------------------------------------------------

\* Mutant: one step behind.
IndexBehind(i) == (next + Size - i + 1) % Size

\* Where Recent finds its i-th event, counted from 1.
RecentIndex(i) == (next + Size - i) % Size

\* How many events the ring holds.
Count == IF full THEN Size ELSE next

\* Recent; the limit of handleEvents is any number.
Recent(limit) ==
  [i \in 1..(IF limit \in 1..Count THEN limit ELSE Count) |-> events[RecentIndex(i)]]

\* Add, up to the unlock.
Add(p) ==
  /\ ~panicked
  /\ adding[p] = Nothing
  /\ seq < MaxSeq
  /\ seq' = seq + 1
  /\ events' = [events EXCEPT ![next] = seq + 1]
  /\ next' = (next + 1) % Size
  /\ full' = (full \/ next' = 0)
  /\ adding' = [adding EXCEPT ![p] =
       IF subscribers = {} THEN Nothing ELSE [seq |-> seq + 1, to |-> subscribers]]
  /\ author' = Append(author, p)
  /\ UNCHANGED <<subscribers, channel, stream, panicked, since, received, lost>>

\* The last of the copied subscribers ends the call.
Without(a, s) == IF a.to = {s} THEN Nothing ELSE [a EXCEPT !.to = @ \ {s}]

\* Mutant: whichever is newest by now.
Newest(p) == seq

\* The event p adds, which it keeps a copy of.
Carried(p) == adding[p].seq

\* Mutant: as long as another will fit.
HasRoomForTwo(s) == Len(channel[s]) + 1 < Buffer

HasRoom(s) == Len(channel[s]) < Buffer

\* Mutant: Add waits for the subscriber.
WaitsForRoom(s) == HasRoom(s)

\* The default case: Add goes on whatever the channel holds.
NeedNotWait(s) == TRUE

\* Add offers the event to the next of them.
Send(p) ==
  /\ ~panicked
  /\ \E s \in adding[p].to :
       /\ stream[s] # "closed"
       /\ NeedNotWait(s)
       /\ IF HasRoom(s) THEN channel' = [channel EXCEPT ![s] = Append(@, Carried(p))]
                        ELSE UNCHANGED channel
       /\ lost' = IF Len(channel[s]) = Buffer
                    THEN [lost EXCEPT ![s] = @ \cup {Carried(p)}] ELSE lost
       /\ adding' = [adding EXCEPT ![p] = Without(@, s)]
  /\ UNCHANGED <<log, subscribers, stream, panicked, since, received, author>>

\* A send on a closed channel panics, select or not, and nobody recovers.
SendToClosed(p) ==
  /\ ~panicked
  /\ \E s \in adding[p].to : stream[s] = "closed"
  /\ panicked' = TRUE
  /\ UNCHANGED <<log, subscribers, channel, stream, adding, history>>

Subscribe(s) ==
  /\ ~panicked
  /\ stream[s] = "new"
  /\ stream' = [stream EXCEPT ![s] = "open"]
  /\ subscribers' = subscribers \cup {s}
  /\ since' = [since EXCEPT ![s] = seq]
  /\ UNCHANGED <<log, channel, adding, panicked, received, lost, author>>

\* handleStream writes the next event; when the client is gone it returns.
Receive(s) ==
  /\ ~panicked
  /\ stream[s] = "open"
  /\ channel[s] # <<>>
  /\ channel' = [channel EXCEPT ![s] = Tail(@)]
  /\ received' = [received EXCEPT ![s] = Append(@, Head(channel[s]))]
  /\ \E written \in BOOLEAN :
       stream' = [stream EXCEPT ![s] = IF written THEN "open" ELSE "leaving"]
  /\ UNCHANGED <<log, subscribers, adding, panicked, since, lost, author>>

\* The request is over, or a snapshot cannot be written.
Leave(s) ==
  /\ ~panicked
  /\ stream[s] = "open"
  /\ stream' = [stream EXCEPT ![s] = "leaving"]
  /\ UNCHANGED <<log, subscribers, channel, adding, panicked, history>>

\* The deferred release, under the lock.  Nothing is read from the channel any more.
Unsubscribe(s) ==
  /\ ~panicked
  /\ stream[s] = "leaving"
  /\ stream' = [stream EXCEPT ![s] = "unsubscribed"]
  /\ subscribers' = subscribers \ {s}
  /\ since' = [since EXCEPT ![s] = 0]
  /\ received' = [received EXCEPT ![s] = <<>>]
  /\ lost' = [lost EXCEPT ![s] = {}]
  /\ UNCHANGED <<log, channel, adding, panicked, author>>

\* The rest of it.
Close(s) ==
  /\ ~panicked
  /\ stream[s] = "unsubscribed"
  /\ stream' = [stream EXCEPT ![s] = "closed"]
  /\ UNCHANGED <<log, subscribers, channel, adding, panicked, history>>

-----------------------------------------------------------------------------

Next ==
  \/ \E p \in Producer : Add(p) \/ Send(p) \/ SendToClosed(p)
  \/ \E s \in Subscriber :
       Subscribe(s) \/ Receive(s) \/ Leave(s) \/ Unsubscribe(s) \/ Close(s)

\* A producer's goroutine runs on; nothing is assumed of a stream.
Fairness == \A p \in Producer : WF_vars(Send(p) \/ SendToClosed(p))

Spec == Init /\ [][Next]_vars

FairSpec == Spec /\ Fairness

-----------------------------------------------------------------------------

TypeOK ==
  /\ seq \in 0..MaxSeq
  /\ events \in [0..(Size - 1) -> 0..seq]
  /\ next \in 0..(Size - 1)
  /\ full \in BOOLEAN
  /\ subscribers \subseteq Subscriber
  /\ channel \in [Subscriber -> Seq(1..seq)]
  /\ \A s \in Subscriber : Len(channel[s]) <= Buffer
  /\ stream \in [Subscriber -> {"new", "open", "leaving", "unsubscribed", "closed"}]
  /\ adding \in [Producer -> [seq : 0..seq, to : SUBSET Subscriber]]
  /\ panicked \in BOOLEAN
  /\ since \in [Subscriber -> 0..seq]
  /\ received \in [Subscriber -> Seq(1..seq)]
  /\ lost \in [Subscriber -> SUBSET (1..seq)]
  /\ author \in Seq(Producer) /\ Len(author) = seq

\* How many events there are to show: those added, or as many as fit.
Held == IF seq < Size THEN seq ELSE Size

\* events.go:103, stats_test.go:136-180: whatever the limit, Recent returns the newest
\* events, newest first, no empty slot and none twice, however often the ring has wrapped.
RecentIsNewest ==
  \A limit \in 0..(Size + 1) :
    Recent(limit) =
      [i \in 1..(IF limit \in 1..Held THEN limit ELSE Held) |-> seq + 1 - i]

\* What s was sent, in the order it gets it.
Delivered(s) == received[s] \o channel[s]

Pending(s) == {adding[p].seq : p \in {q \in Producer : s \in adding[q].to}}

\* events.go:86-88: a stream misses nothing that is added while it is subscribed, but what
\* its full channel cost it; and nothing comes twice.
MissesOnlyOverflow ==
  /\ TypeOK
  /\ \A s \in subscribers :
       /\ (since[s] + 1)..seq = Range(Delivered(s)) \cup Pending(s) \cup lost[s]
       /\ IsInjective(Delivered(s))
       /\ Range(Delivered(s)) \cap (Pending(s) \cup lost[s]) = {}

\* events.go:61-62, 82-84: the events of one goroutine reach a stream in the order it added them,
\* whatever those of others do.
AuthorsKeepOrder ==
  \A s \in Subscriber :
    \A i, j \in DOMAIN Delivered(s) :
      i < j /\ author[Delivered(s)[i]] = author[Delivered(s)[j]]
        => Delivered(s)[i] < Delivered(s)[j]

\* docs/api.md:323-324, sse.go:14-15: a stalled stream never keeps a producer waiting.
NeverWaits == \A p \in Producer : adding[p] # Nothing ~> adding[p] = Nothing \/ panicked

\* docs/api.md:323-324: a stream that comes to its end does not take the pool with it.
NeverPanics == ~panicked

=============================================================================
