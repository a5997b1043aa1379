----------------------------- MODULE GatewayProofs -----------------------------
(***************************************************************************)
(* For every backlog, every number of states and every number of hellos    *)
(* that fail half way: what a subscription delivers reaches the client in  *)
(* order, a second subscription is the work of such a hello, and the       *)
(* coalition of a connection is that of the latest state.                  *)
(***************************************************************************)
EXTENDS Gateway, TLAPS

Entries == [sub : Nat, state : Nat]

\* What a queue holds of subscription i rises, from above lo up to hi.
Rising(q, i, lo, hi) ==
    \A k \in 1..Len(q) : q[k].sub = i =>
        /\ lo < q[k].state /\ q[k].state <= hi
        /\ \A j \in 1..Len(q) : j < k /\ q[j].sub = i => q[j].state < q[k].state

\* How far subscription i has delivered, whether or not it is alive.
Delivered(i) == IF i \in DOMAIN feeds THEN said - Len(feeds[i]) ELSE said

GTypes ==
    /\ said \in Nat /\ subs \in Nat /\ refused \in Nat
    /\ got \in [Subs -> Nat] /\ out \in Seq(Entries)
    /\ DOMAIN feeds \subseteq 1..subs
    /\ \A i \in DOMAIN feeds : feeds[i] \in Seq(Nat)

\* Whoever is about to subscribe again was refused before.
Hellos ==
    /\ subs <= 1 + refused /\ subs <= MaxSubs
    /\ phase = "none" => reader = "none" /\ subs = 0
    /\ reader = "entering" => subs = 0
    /\ reader = "joining" \/ (reader \in {"reading", "pushing"} /\ ~joined)
          => subs <= refused /\ subs < MaxSubs

\* A subscription holds what was published after what it delivered, in order.
FeedIsSuffix ==
    \A i \in DOMAIN feeds :
        /\ Len(feeds[i]) <= said
        /\ \A k \in 1..Len(feeds[i]) : feeds[i][k] = said - Len(feeds[i]) + k

\* What waits in c.send comes from a subscription that was made.
OutIsKnown == \A k \in 1..Len(out) : out[k].sub <= subs

OutRises ==
    \A i \in Subs : got[i] <= Delivered(i) /\ Rising(out, i, got[i], Delivered(i))

InHand == writer = "writing" => out # <<>>

GInv == GTypes /\ Hellos /\ FeedIsSuffix /\ OutIsKnown /\ OutRises /\ InHand /\ LeadIsFresh

------------------------------------------------------------------------------
\* Queues.

LEMMA EntriesOf ==
    ASSUME NEW q \in Seq(Entries)
    PROVE  \A k \in 1..Len(q) : q[k].sub \in Nat /\ q[k].state \in Nat
<1>1. \A k \in 1..Len(q) : q[k] \in Entries
  OBVIOUS
<1> QED
  BY <1>1 DEF Entries

LEMMA RisingAppend ==
    ASSUME NEW q \in Seq(Entries), NEW i \in Nat, NEW lo \in Nat, NEW hi \in Nat, NEW top \in Nat,
           NEW x \in Entries,
           Rising(q, i, lo, hi), lo <= hi, hi <= top,
           x.sub = i => hi < x.state /\ x.state <= top
    PROVE  Append(q, x) \in Seq(Entries) /\ Rising(Append(q, x), i, lo, top)
<1> DEFINE r == Append(q, x)
<1>1. r \in Seq(Entries) /\ Len(r) = Len(q) + 1 /\ r[Len(q) + 1] = x /\ Len(q) \in Nat
      /\ \A k \in 1..Len(q) : r[k] = q[k]
  OBVIOUS
<1>2. \A k \in 1..Len(q) : q[k].state \in Nat
  BY EntriesOf
<1>3. \A k \in 1..Len(q) : q[k].sub = i => r[k].state \in Nat /\ r[k].state <= hi
  BY <1>1, <1>2 DEF Rising
<1>4. x.state \in Nat
  BY DEF Entries
<1> HIDE DEF r
<1>5. ASSUME NEW k \in 1..Len(r), r[k].sub = i
      PROVE  lo < r[k].state /\ r[k].state <= top
  <2>1. CASE k \in 1..Len(q)
    <3>1. lo < q[k].state /\ q[k].state <= hi /\ r[k] = q[k] /\ q[k].state \in Nat
      BY <1>1, <1>2, <1>5, <2>1 DEF Rising
    <3> QED
      BY <3>1
  <2>2. CASE k = Len(q) + 1
    BY <1>1, <1>4, <1>5, <2>2
  <2> QED
    BY <1>1, <2>1, <2>2
<1>6. ASSUME NEW k \in 1..Len(r), r[k].sub = i, NEW j \in 1..Len(r), j < k, r[j].sub = i
      PROVE  r[j].state < r[k].state
  <2>1. j \in 1..Len(q)
    BY <1>1, <1>6
  <2>2. CASE k \in 1..Len(q)
    BY <1>1, <1>6, <2>1, <2>2 DEF Rising
  <2>3. CASE k = Len(q) + 1
    <3>1. q[j].sub = i /\ r[k] = x
      BY <1>1, <1>6, <2>1, <2>3
    <3>2. r[j].state <= hi /\ r[j].state \in Nat
      BY <1>3, <2>1, <3>1
    <3> QED
      BY <1>4, <1>6, <3>1, <3>2
  <2> QED
    BY <1>1, <2>2, <2>3
<1> QED
  BY <1>1, <1>5, <1>6 DEF Rising, r

LEMMA RisingWiden ==
    ASSUME NEW q \in Seq(Entries), NEW i \in Nat, NEW lo \in Nat, NEW hi \in Nat, NEW top \in Nat,
           Rising(q, i, lo, hi), hi <= top
    PROVE  Rising(q, i, lo, top)
<1>1. \A k \in 1..Len(q) : q[k].state \in Nat
  BY EntriesOf
<1> QED
  BY <1>1 DEF Rising

\* What is left of a queue is above its head, and above what the head was above.
LEMMA RisingTail ==
    ASSUME NEW q \in Seq(Entries), NEW i \in Nat, NEW lo \in Nat, NEW hi \in Nat,
           Rising(q, i, lo, hi), q # <<>>
    PROVE  /\ Head(q) \in Entries /\ Head(q) = q[1] /\ 1 \in 1..Len(q) /\ Tail(q) \in Seq(Entries)
           /\ Len(Tail(q)) = Len(q) - 1 /\ \A k \in 1..Len(Tail(q)) : Tail(q)[k] = q[k + 1]
           /\ Head(q).sub = i => /\ lo < Head(q).state /\ Head(q).state <= hi
                                 /\ Rising(Tail(q), i, Head(q).state, hi)
           /\ Rising(Tail(q), i, lo, hi)
<1> DEFINE r == Tail(q)
<1>1. r \in Seq(Entries) /\ Len(q) > 0 /\ Len(r) = Len(q) - 1 /\ Head(q) = q[1]
      /\ \A k \in 1..Len(r) : r[k] = q[k + 1]
  OBVIOUS
<1>2. Head(q) \in Entries /\ 1 \in 1..Len(q)
  BY <1>1
<1> HIDE DEF r
<1>3. ASSUME NEW k \in 1..Len(r), r[k].sub = i
      PROVE  /\ lo < r[k].state /\ r[k].state <= hi
             /\ q[1].sub = i => q[1].state < r[k].state
             /\ \A j \in 1..Len(r) : j < k /\ r[j].sub = i => r[j].state < r[k].state
  <2>1. k + 1 \in 1..Len(q) /\ 1 < k + 1 /\ q[k + 1] = r[k] /\ q[k + 1].sub = i
    BY <1>1, <1>3
  <2>2. lo < r[k].state /\ r[k].state <= hi /\ (q[1].sub = i => q[1].state < r[k].state)
    BY <1>2, <2>1 DEF Rising
  <2>3. ASSUME NEW j \in 1..Len(r), j < k, r[j].sub = i PROVE r[j].state < r[k].state
    <3>1. j + 1 \in 1..Len(q) /\ j + 1 < k + 1 /\ q[j + 1] = r[j]
      BY <1>1, <2>3
    <3> QED
      BY <2>1, <2>3, <3>1 DEF Rising
  <2> QED
    BY <2>2, <2>3
<1>4. Head(q).sub = i => lo < Head(q).state /\ Head(q).state <= hi
  BY <1>1, <1>2 DEF Rising
<1>5. Rising(r, i, lo, hi) /\ (Head(q).sub = i => Rising(r, i, Head(q).state, hi))
  BY <1>1, <1>3 DEF Rising
<1> QED
  BY <1>1, <1>2, <1>4, <1>5 DEF r

------------------------------------------------------------------------------
\* The invariant.

LEMMA DeliveredNat ==
    ASSUME GInv, NEW i \in Subs
    PROVE  /\ i \in Nat /\ said \in Nat /\ got[i] \in Nat /\ out \in Seq(Entries)
           /\ Delivered(i) \in Nat /\ Delivered(i) <= said
           /\ got[i] <= Delivered(i) /\ Rising(out, i, got[i], Delivered(i))
           /\ i \in DOMAIN feeds => Delivered(i) = said - Len(feeds[i])
           /\ i \notin DOMAIN feeds => Delivered(i) = said
<1>1. i \in Nat
  BY GatewayAssumption DEF Subs
<1>2. i \in DOMAIN feeds => Len(feeds[i]) \in Nat /\ Len(feeds[i]) <= said
  BY DEF GInv, GTypes, FeedIsSuffix
<1>3. said \in Nat /\ got[i] \in Nat /\ out \in Seq(Entries)
  BY DEF GInv, GTypes
<1> QED
  BY <1>1, <1>2, <1>3 DEF GInv, OutRises, Delivered

\* Steps that send nothing: subscriptions are kept, dropped or made, and one
\* that is made has nothing to deliver.
LEMMA FeedsKept ==
    ASSUME GInv, UNCHANGED <<said, got, out>>, subs' \in Nat, subs <= subs',
           refused' \in Nat,
           DOMAIN feeds' \subseteq 1..subs',
           \A i \in DOMAIN feeds' : feeds'[i] = IF i \in DOMAIN feeds THEN feeds[i] ELSE <<>>
    PROVE  GTypes' /\ FeedIsSuffix' /\ OutIsKnown' /\ OutRises'
<1>1. ASSUME NEW i \in DOMAIN feeds'
      PROVE  feeds'[i] \in Seq(Nat) /\ (i \notin DOMAIN feeds => Len(feeds'[i]) = 0)
  <2>1. <<>> \in Seq(Nat) /\ Len(<<>>) = 0
    OBVIOUS
  <2>2. feeds'[i] = IF i \in DOMAIN feeds THEN feeds[i] ELSE <<>>
    OBVIOUS
  <2> QED
    BY <2>1, <2>2 DEF GInv, GTypes
<1>2. GTypes'
  BY <1>1 DEF GInv, GTypes
<1>3. FeedIsSuffix'
  <2>1. ASSUME NEW i \in DOMAIN feeds'
        PROVE  /\ Len(feeds'[i]) <= said
               /\ \A k \in 1..Len(feeds'[i]) : feeds'[i][k] = said - Len(feeds'[i]) + k
    <3>1. CASE i \in DOMAIN feeds
      BY <3>1 DEF GInv, FeedIsSuffix
    <3>2. CASE i \notin DOMAIN feeds
      <4>1. Len(feeds'[i]) = 0 /\ said \in Nat
        BY <1>1, <3>2 DEF GInv, GTypes
      <4> QED
        BY <4>1
    <3> QED
      BY <3>1, <3>2
  <2> QED
    BY <2>1 DEF FeedIsSuffix
<1>4. OutIsKnown'
  <2>1. out \in Seq(Entries) /\ subs \in Nat
    BY DEF GInv, GTypes
  <2>2. \A k \in 1..Len(out) : out[k].sub \in Nat
    BY <2>1, EntriesOf
  <2> QED
    BY <2>1, <2>2 DEF GInv, OutIsKnown
<1>5. ASSUME NEW i \in Subs
      PROVE  got'[i] <= Delivered(i)' /\ Rising(out', i, got'[i], Delivered(i)')
  <2>1. /\ i \in Nat /\ said \in Nat /\ got[i] \in Nat /\ out \in Seq(Entries)
        /\ Delivered(i) \in Nat /\ Delivered(i) <= said
        /\ got[i] <= Delivered(i) /\ Rising(out, i, got[i], Delivered(i))
        /\ i \notin DOMAIN feeds => Delivered(i) = said
    BY DeliveredNat
  <2>2. Delivered(i)' = Delivered(i) \/ Delivered(i)' = said
    <3>1. Delivered(i)' = IF i \in DOMAIN feeds' THEN said - Len(feeds'[i]) ELSE said
      BY DEF Delivered
    <3>2. CASE i \notin DOMAIN feeds'
      BY <3>1, <3>2
    <3>3. CASE i \in DOMAIN feeds' /\ i \in DOMAIN feeds
      BY <3>1, <3>3 DEF Delivered
    <3>4. CASE i \in DOMAIN feeds' /\ i \notin DOMAIN feeds
      <4>1. Len(feeds'[i]) = 0
        BY <1>1, <3>4
      <4> QED
        BY <2>1, <3>1, <3>4, <4>1
    <3> QED
      BY <3>2, <3>3, <3>4
  <2>3. Rising(out, i, got[i], said)
    BY <2>1, RisingWiden
  <2> QED
    BY <2>1, <2>2, <2>3
<1> QED
  BY <1>2, <1>3, <1>4, <1>5 DEF OutRises

LEMMA GInvInit == GInit => GInv
<1> SUFFICES ASSUME GInit PROVE GInv
  OBVIOUS
<1>1. DOMAIN feeds = {}
  BY DEF GInit
<1>2. got \in [Subs -> Nat] /\ \A i \in Subs : got[i] = 0
  BY DEF GInit
<1>3. out \in Seq(Entries) /\ Len(out) = 0
  BY DEF GInit
<1>4. GTypes
  BY <1>1, <1>2, <1>3 DEF GInit, GTypes
<1>5. Hellos
  BY GatewayAssumption DEF GInit, Hellos
<1>6. FeedIsSuffix /\ OutIsKnown /\ LeadIsFresh
  BY <1>1, <1>3 DEF FeedIsSuffix, OutIsKnown, LeadIsFresh
<1>8. InHand
  BY DEF GInit, InHand
<1>7. OutRises
  <2>1. said = 0
    BY DEF GInit
  <2> QED
    BY <1>1, <1>2, <1>3, <2>1 DEF OutRises, Delivered, Rising
<1> QED
  BY <1>4, <1>5, <1>6, <1>7, <1>8 DEF GInv

------------------------------------------------------------------------------
\* The steps that send nothing.

Quiet ==
    \/ \E m \in BOOLEAN : Upgrade(m)
    \/ Subscribe \/ SubscribeEvents \/ SubscribeChat
    \/ EnteringFails \/ StatesRefused \/ EventsRefused \/ ChatRefused
    \/ Hello \/ Request \/ Goodbye \/ ReadFails
    \/ Take \/ WriterStops \/ Shutdown \/ Reindex \/ ClientLeaves

LEMMA QuietInbox ==
    ASSUME GInv, Quiet
    PROVE  GTypes' /\ FeedIsSuffix' /\ OutIsKnown' /\ OutRises'
<1> USE DEF Quiet, life, binding, inbox, sight, outbox
<1>1. subs \in Nat /\ refused \in Nat /\ DOMAIN feeds \subseteq 1..subs
  BY DEF GInv, GTypes
<1>2. CASE Subscribe
  <2>1. /\ UNCHANGED <<said, got, out>> /\ subs' = subs + 1 /\ refused' = refused
        /\ DOMAIN feeds' = DOMAIN feeds \cup {subs + 1}
        /\ \A i \in DOMAIN feeds' : feeds'[i] = IF i = subs + 1 THEN <<>> ELSE feeds[i]
    BY <1>2 DEF Subscribe
  <2>2. subs + 1 \notin DOMAIN feeds /\ DOMAIN feeds' \subseteq 1..subs' /\ subs <= subs'
    BY <1>1, <2>1
  <2> QED
    BY <1>1, <2>1, <2>2, FeedsKept
<1>3. CASE ~ Subscribe
  <2>1. /\ UNCHANGED <<said, got, out>> /\ subs' = subs /\ refused' \in {refused, refused + 1}
    BY <1>3 DEF Upgrade, SubscribeEvents, SubscribeChat, EnteringFails, StatesRefused,
                EventsRefused, ChatRefused, Hello, Request, Goodbye, ReadFails, ReaderLeaves, Close,
                Take, WriterStops, Shutdown, Reindex, ClientLeaves
  <2>2. \/ feeds' = feeds \/ feeds' = <<>>
        \/ feeds' = Only(Unlisted) \/ feeds' = Only(Subs \ Unlisted) \/ feeds' = Only(Subs \ {subs})
    BY <1>3 DEF Upgrade, SubscribeEvents, SubscribeChat, EnteringFails, StatesRefused,
                EventsRefused, ChatRefused, Hello, Request, Goodbye, ReadFails, ReaderLeaves, Close,
                Take, WriterStops, Shutdown, Reindex, ClientLeaves
  <2>3. DOMAIN feeds' \subseteq DOMAIN feeds /\ \A i \in DOMAIN feeds' : feeds'[i] = feeds[i]
    <3>1. CASE feeds' = feeds
      BY <3>1
    <3>2. CASE feeds' = <<>>
      BY <3>2
    <3>3. ASSUME NEW S, feeds' = Only(S)
          PROVE  DOMAIN feeds' \subseteq DOMAIN feeds /\ \A i \in DOMAIN feeds' : feeds'[i] = feeds[i]
      BY <3>3 DEF Only
    <3> QED
      BY <2>2, <3>1, <3>2, <3>3
  <2> QED
    BY <1>1, <2>1, <2>3, FeedsKept
<1> QED
  BY <1>2, <1>3

LEMMA QuietHellos ==
    ASSUME GInv, Quiet
    PROVE  Hellos'
<1> USE DEF Quiet, life, binding, inbox, sight, outbox
<1>1. Hellos /\ subs \in Nat /\ refused \in Nat /\ MaxSubs \in Nat \ {0}
  BY GatewayAssumption DEF GInv, GTypes
<1>2. ASSUME NEW m \in BOOLEAN, Upgrade(m) PROVE Hellos'
  BY <1>1, <1>2 DEF Hellos, Upgrade
<1>3. CASE Subscribe
  <2>1. /\ reader \in {"entering", "joining"} /\ UNCHANGED <<phase, joined, refused>> /\ subs' = subs + 1
        /\ reader' \in {"entering events", "joining events"}
    BY <1>3 DEF Subscribe, LookUpSlot
  <2>2. subs <= refused /\ subs < MaxSubs /\ phase # "none"
    <3>1. CASE reader = "entering"
      <4>1. subs = 0 /\ phase # "none"
        BY <1>1, <3>1 DEF Hellos
      <4> QED
        BY <1>1, <4>1
    <3>2. CASE reader = "joining"
      BY <1>1, <3>2 DEF Hellos
    <3> QED
      BY <2>1, <3>1, <3>2
  <2>3. subs' <= 1 + refused' /\ subs' <= MaxSubs
    <3>1. refused' = refused /\ subs' = subs + 1 /\ MaxSubs \in Nat
      BY <1>1, <2>1
    <3> QED
      BY <1>1, <2>2, <3>1
  <2> QED
    BY <2>1, <2>2, <2>3 DEF Hellos
<1>4. CASE SubscribeEvents
  BY <1>1, <1>4 DEF Hellos, SubscribeEvents
<1>5. CASE SubscribeChat
  BY <1>1, <1>5 DEF Hellos, SubscribeChat
<1>6. CASE EnteringFails
  BY <1>1, <1>6 DEF Hellos, EnteringFails
<1>7. CASE StatesRefused
  BY <1>1, <1>7 DEF Hellos, StatesRefused
<1>8. CASE EventsRefused
  <2>1. /\ UNCHANGED <<phase, joined, subs>> /\ refused' = refused + 1 /\ subs < MaxSubs
        /\ reader \notin {"none", "entering", "joining"} /\ reader' = "pushing"
    BY <1>8 DEF EventsRefused
  <2>2. subs' <= refused' /\ subs' <= 1 + refused' /\ subs' <= MaxSubs /\ subs' < MaxSubs
    BY <1>1, <2>1 DEF Hellos
  <2>3. phase' # "none"
    BY <1>1, <2>1 DEF Hellos
  <2> QED
    BY <2>1, <2>2, <2>3 DEF Hellos
<1>9. CASE ChatRefused
  <2>1. /\ UNCHANGED <<phase, joined, subs>> /\ refused' = refused + 1 /\ subs < MaxSubs
        /\ reader \notin {"none", "entering", "joining"} /\ reader' = "pushing"
    BY <1>9 DEF ChatRefused
  <2>2. subs' <= refused' /\ subs' <= 1 + refused' /\ subs' <= MaxSubs /\ subs' < MaxSubs
    BY <1>1, <2>1 DEF Hellos
  <2>3. phase' # "none"
    BY <1>1, <2>1 DEF Hellos
  <2> QED
    BY <2>1, <2>2, <2>3 DEF Hellos
<1>10. CASE Hello
  BY <1>1, <1>10 DEF Hellos, Hello
<1>11. CASE Request
  BY <1>1, <1>11 DEF Hellos, Request
<1>12. CASE Goodbye \/ ReadFails
  BY <1>1, <1>12 DEF Hellos, Goodbye, ReadFails, ReaderLeaves, Close
<1>13. CASE Take \/ WriterStops \/ Reindex \/ ClientLeaves
  BY <1>1, <1>13 DEF Hellos, Take, WriterStops, Reindex, ClientLeaves
<1>14. CASE Shutdown
  BY <1>1, <1>14 DEF Hellos, Shutdown, Close
<1> QED
  BY <1>2, <1>3, <1>4, <1>5, <1>6, <1>7, <1>8, <1>9, <1>10, <1>11, <1>12, <1>13, <1>14

LEMMA QuietSight ==
    ASSUME GInv, Quiet
    PROVE  LeadIsFresh'
<1> USE DEF Quiet, life, binding, inbox, sight, outbox
<1>1. LeadIsFresh
  BY DEF GInv
<1>2. ASSUME NEW m \in BOOLEAN, Upgrade(m) PROVE LeadIsFresh'
  <2>1. DOMAIN feeds = {} /\ feeds' = feeds
    <3>1. subs = 0 /\ feeds' = feeds
      BY <1>2 DEF GInv, Hellos, Upgrade
    <3>2. DOMAIN feeds \subseteq 1..0
      BY <3>1 DEF GInv, GTypes
    <3>3. 1..0 = {}
      OBVIOUS
    <3> QED
      BY <3>1, <3>2, <3>3, Zenon
  <2> QED
    BY <2>1 DEF LeadIsFresh
<1>3. CASE Subscribe
  <2>1. /\ UNCHANGED <<phase, said, peeked>>
        /\ missed' = IF DOMAIN feeds = {} THEN said ELSE missed
        /\ DOMAIN feeds \subseteq DOMAIN feeds'
        /\ \A i \in DOMAIN feeds' : i # subs + 1 => feeds'[i] = feeds[i]
    BY <1>3 DEF Subscribe
  <2>2. subs + 1 \notin DOMAIN feeds
    BY DEF GInv, GTypes
  <2> QED
    BY <1>1, <2>1, <2>2 DEF LeadIsFresh
<1>4. CASE EnteringFails \/ Goodbye \/ ReadFails \/ Shutdown
  <2>1. phase' = "closed"
    BY <1>4 DEF EnteringFails, Goodbye, ReadFails, ReaderLeaves, Shutdown, Close
  <2> QED
    BY <2>1 DEF LeadIsFresh
<1>5. CASE EventsRefused
  <2>1. /\ UNCHANGED <<phase, said, peeked>>
        /\ missed' = IF feeds[subs] # <<>> THEN said ELSE missed
        /\ feeds' = Only(Subs \ {subs})
    BY <1>5 DEF EventsRefused
  <2>2. CASE feeds[subs] # <<>>
    BY <2>1, <2>2 DEF LeadIsFresh
  <2>3. CASE feeds[subs] = <<>>
    <3>1. /\ DOMAIN feeds' = DOMAIN feeds \cap (Subs \ {subs})
          /\ \A i \in DOMAIN feeds' : feeds'[i] = feeds[i]
      BY <2>1 DEF Only
    <3>2. DOMAIN feeds \subseteq Subs
      BY GatewayAssumption DEF GInv, GTypes, Hellos, Subs
    <3>3. (\A i \in DOMAIN feeds' : feeds'[i] = <<>>) => \A i \in DOMAIN feeds : feeds[i] = <<>>
      BY <2>3, <3>1, <3>2
    <3>4. DOMAIN feeds' # {} => DOMAIN feeds # {}
      BY <3>1
    <3> QED
      BY <1>1, <2>1, <2>3, <3>3, <3>4 DEF LeadIsFresh
  <2> QED
    BY <2>2, <2>3
<1>6. CASE \/ SubscribeEvents \/ SubscribeChat \/ StatesRefused \/ ChatRefused \/ Hello \/ Request
           \/ Take \/ WriterStops \/ Reindex \/ ClientLeaves
  <2>1. UNCHANGED <<phase, feeds, said, peeked, missed>>
    BY <1>6 DEF SubscribeEvents, SubscribeChat, StatesRefused, ChatRefused, Hello, Request,
                Take, WriterStops, Reindex, ClientLeaves
  <2> QED
    BY <1>1, <2>1 DEF LeadIsFresh
<1> QED
  BY <1>2, <1>3, <1>4, <1>5, <1>6

LEMMA QuietInHand == ASSUME GInv, Quiet PROVE InHand'
<1> USE DEF outbox
<1>1. out' = out
  BY DEF Quiet, Upgrade, Subscribe, SubscribeEvents, SubscribeChat, EnteringFails, StatesRefused,
         EventsRefused, ChatRefused, Hello, Request, Goodbye, ReadFails, ReaderLeaves,
         Take, WriterStops, Shutdown, Reindex, ClientLeaves
<1>2. writer' = "writing" => writer = "writing" \/ out # <<>>
  BY DEF Quiet, Upgrade, Subscribe, SubscribeEvents, SubscribeChat, EnteringFails, StatesRefused,
         EventsRefused, ChatRefused, Hello, Request, Goodbye, ReadFails, ReaderLeaves,
         Take, WriterStops, Shutdown, Reindex, ClientLeaves
<1> QED
  BY <1>1, <1>2 DEF GInv, InHand

------------------------------------------------------------------------------
\* The steps that touch c.send, and the engine's.

LEMMA PushStep == ASSUME GInv, Push PROVE GInv'
<1> USE DEF life, binding, inbox, sight
<1>1. /\ UNCHANGED <<phase, joined, subs, feeds, refused, peeked, missed, got, said>>
      /\ out' = Append(out, Answer) /\ reader = "pushing" /\ reader' = "reading"
  BY DEF Push
<1>2. Answer \in Entries /\ Answer.sub = 0 /\ out \in Seq(Entries) /\ subs \in Nat
  BY DEF Answer, Entries, GInv, GTypes
<1>3. ASSUME NEW i \in Subs
      PROVE  got'[i] <= Delivered(i)' /\ Rising(out', i, got'[i], Delivered(i)')
  <2>1. /\ i \in Nat /\ got[i] \in Nat /\ out \in Seq(Entries) /\ Delivered(i) \in Nat
        /\ got[i] <= Delivered(i) /\ Rising(out, i, got[i], Delivered(i))
    BY DeliveredNat
  <2>2. Answer.sub # i
    BY <1>2, GatewayAssumption DEF Subs
  <2>3. Rising(Append(out, Answer), i, got[i], Delivered(i))
    BY <1>2, <2>1, <2>2, RisingAppend
  <2> QED
    BY <1>1, <2>1, <2>3 DEF Delivered
<1>4. GTypes'
  BY <1>1, <1>2 DEF GInv, GTypes
<1>5. Hellos'
  BY <1>1 DEF GInv, Hellos
<1>6. FeedIsSuffix' /\ LeadIsFresh'
  BY <1>1 DEF GInv, FeedIsSuffix, LeadIsFresh
<1>8. InHand'
  BY <1>1, <1>2 DEF InHand
<1>7. OutIsKnown'
  <2>1. /\ Len(out') = Len(out) + 1 /\ Len(out) \in Nat /\ out'[Len(out) + 1] = Answer
        /\ \A k \in 1..Len(out) : out'[k] = out[k]
    BY <1>1, <1>2
  <2>2. ASSUME NEW k \in 1..Len(out') PROVE out'[k].sub <= subs
    BY <1>2, <2>1 DEF GInv, OutIsKnown
  <2> QED
    BY <1>1, <2>2 DEF OutIsKnown
<1> QED
  BY <1>3, <1>4, <1>5, <1>6, <1>7, <1>8 DEF GInv, OutRises

\* What is left in c.send once a message was taken from it.
LEMMA OutTail ==
    ASSUME GInv, out # <<>>
    PROVE  /\ Head(out) \in Entries /\ Head(out).sub \in Nat /\ Head(out).state \in Nat
           /\ Head(out).sub <= subs
           /\ Tail(out) \in Seq(Entries)
           /\ \A k \in 1..Len(Tail(out)) : Tail(out)[k].sub <= subs
<1>1. out \in Seq(Entries)
  BY DEF GInv, GTypes
<1>2. /\ Head(out) = out[1] /\ 1 \in 1..Len(out) /\ Tail(out) \in Seq(Entries) /\ Len(out) \in Nat
      /\ Len(Tail(out)) = Len(out) - 1 /\ \A k \in 1..Len(Tail(out)) : Tail(out)[k] = out[k + 1]
  BY <1>1
<1>3. Head(out) \in Entries
  BY <1>1
<1>4. \A k \in 1..Len(Tail(out)) : k + 1 \in 1..Len(out)
  BY <1>2
<1> QED
  BY <1>2, <1>3, <1>4 DEF GInv, OutIsKnown, Entries

LEMMA WriteStep == ASSUME GInv, Write PROVE GInv'
<1> USE DEF life, binding, inbox, sight
<1>1. /\ UNCHANGED <<phase, reader, joined, subs, feeds, refused, peeked, missed, said>>
      /\ out # <<>> /\ out' = Tail(out)
      /\ got' = IF client = "up" /\ Head(out).sub # 0
                THEN [got EXCEPT ![Head(out).sub] = Head(out).state] ELSE got
  BY DEF Write, GInv, InHand
<1>2. /\ Head(out).sub \in Nat /\ Head(out).state \in Nat /\ Tail(out) \in Seq(Entries)
      /\ \A k \in 1..Len(Tail(out)) : Tail(out)[k].sub <= subs
  BY <1>1, OutTail
<1>3. got \in [Subs -> Nat]
  BY DEF GInv, GTypes
<1>4. got' \in [Subs -> Nat]
  BY <1>1, <1>2, <1>3
<1>5. ASSUME NEW i \in Subs
      PROVE  got'[i] <= Delivered(i)' /\ Rising(out', i, got'[i], Delivered(i)')
  <2>1. /\ i \in Nat /\ got[i] \in Nat /\ out \in Seq(Entries) /\ Delivered(i) \in Nat
        /\ got[i] <= Delivered(i) /\ Rising(out, i, got[i], Delivered(i))
    BY DeliveredNat
  <2>2. /\ Head(out).sub = i => /\ Head(out).state <= Delivered(i)
                                /\ Rising(Tail(out), i, Head(out).state, Delivered(i))
        /\ Rising(Tail(out), i, got[i], Delivered(i))
    BY <1>1, <2>1, RisingTail
  <2>3. got'[i] = got[i] \/ (Head(out).sub = i /\ got'[i] = Head(out).state)
    BY <1>1, <1>3
  <2>4. Delivered(i)' = Delivered(i)
    BY <1>1 DEF Delivered
  <2> QED
    BY <1>1, <2>1, <2>2, <2>3, <2>4
<1>6. GTypes' /\ OutIsKnown'
  BY <1>1, <1>2, <1>4 DEF GInv, GTypes, OutIsKnown
<1>7. Hellos' /\ FeedIsSuffix' /\ LeadIsFresh'
  BY <1>1 DEF GInv, Hellos, FeedIsSuffix, LeadIsFresh
<1>8. InHand'
  BY DEF Write, InHand
<1> QED
  BY <1>5, <1>6, <1>7, <1>8 DEF GInv, OutRises

LEMMA WriteFailsStep == ASSUME GInv, WriteFails PROVE GInv'
<1> USE DEF binding, sight
<1>1. /\ UNCHANGED <<reader, joined, subs, refused, said, got>>
      /\ phase' = "closed"
      /\ feeds' = feeds \/ feeds' = Only(Unlisted)
      /\ out' = out \/ (out # <<>> /\ out' = Tail(out))
  BY DEF WriteFails, Undelivered, Close, GInv, InHand
<1>2. DOMAIN feeds' \subseteq DOMAIN feeds /\ \A i \in DOMAIN feeds' : feeds'[i] = feeds[i]
  <2>1. CASE feeds' = feeds
    BY <2>1
  <2>2. CASE feeds' = Only(Unlisted)
    BY <2>2 DEF Only
  <2> QED
    BY <1>1, <2>1, <2>2
<1>3. out' \in Seq(Entries) /\ \A k \in 1..Len(out') : out'[k].sub <= subs
  <2>1. out \in Seq(Entries) /\ \A k \in 1..Len(out) : out[k].sub <= subs
    BY DEF GInv, GTypes, OutIsKnown
  <2> QED
    BY <1>1, <2>1, OutTail
<1>4. ASSUME NEW i \in Subs
      PROVE  got'[i] <= Delivered(i)' /\ Rising(out', i, got'[i], Delivered(i)')
  <2>1. /\ i \in Nat /\ said \in Nat /\ got[i] \in Nat /\ out \in Seq(Entries)
        /\ Delivered(i) \in Nat /\ Delivered(i) <= said
        /\ got[i] <= Delivered(i) /\ Rising(out, i, got[i], Delivered(i))
    BY DeliveredNat
  <2>2. Rising(out', i, got[i], Delivered(i))
    <3>1. CASE out' = out
      BY <2>1, <3>1
    <3>2. CASE out # <<>> /\ out' = Tail(out)
      BY <2>1, <3>2, RisingTail
    <3> QED
      BY <1>1, <3>1, <3>2
  <2>3. Rising(out', i, got[i], said)
    BY <1>3, <2>1, <2>2, RisingWiden
  <2>4. Delivered(i)' = Delivered(i) \/ Delivered(i)' = said
    BY <1>1, <1>2 DEF Delivered
  <2> QED
    BY <1>1, <2>1, <2>2, <2>3, <2>4
<1>5. GTypes' /\ OutIsKnown'
  BY <1>1, <1>2, <1>3 DEF GInv, GTypes, OutIsKnown
<1>6. Hellos' /\ LeadIsFresh'
  BY <1>1 DEF GInv, Hellos, LeadIsFresh
<1>7. FeedIsSuffix'
  BY <1>1, <1>2 DEF GInv, FeedIsSuffix
<1>8. InHand'
  BY DEF WriteFails, InHand
<1> QED
  BY <1>4, <1>5, <1>6, <1>7, <1>8 DEF GInv, OutRises

LEMMA FanOutStep == ASSUME GInv, NEW i \in DOMAIN feeds, FanOut(i) PROVE GInv'
<1> USE DEF life, binding
<1> DEFINE f == feeds[i]
           n == Head(f)
           x == [sub |-> i, state |-> n]
<1>1. /\ UNCHANGED <<phase, reader, joined, subs, refused, said, got>>
      /\ feeds' = [feeds EXCEPT ![i] = Tail(f)] /\ f # <<>>
      /\ peeked' = n \/ missed' = n
      /\ out' = out \/ out' = Append(out, x)
  BY DEF FanOut
<1>2. i \in Subs /\ i \in Nat /\ i <= subs /\ f \in Seq(Nat) /\ said \in Nat /\ subs \in Nat
  BY GatewayAssumption DEF GInv, GTypes, Hellos, Subs
<1>3. Len(f) <= said /\ \A k \in 1..Len(f) : f[k] = said - Len(f) + k
  BY DEF GInv, FeedIsSuffix
<1>4. DOMAIN feeds' = DOMAIN feeds /\ feeds'[i] = Tail(f)
      /\ \A j \in DOMAIN feeds : j # i => feeds'[j] = feeds[j]
  BY <1>1
<1>5. Delivered(i) = said - Len(f)
  BY DEF Delivered
<1> HIDE DEF f
<1>6. /\ Len(f) \in Nat /\ Len(f) > 0 /\ 1 \in 1..Len(f) /\ n = f[1] /\ n \in Nat
      /\ Tail(f) \in Seq(Nat) /\ Len(Tail(f)) = Len(f) - 1
      /\ \A k \in 1..Len(Tail(f)) : Tail(f)[k] = f[k + 1]
  BY <1>1, <1>2
<1> HIDE DEF n
<1>7. n = said - Len(f) + 1 /\ n \in Nat
  BY <1>3, <1>6
<1>8. x \in Entries /\ x.sub = i /\ x.state = n
  BY <1>2, <1>6 DEF Entries
<1> HIDE DEF x
<1>9. ASSUME NEW j \in Subs
      PROVE  got'[j] <= Delivered(j)' /\ Rising(out', j, got'[j], Delivered(j)')
  <2>1. /\ j \in Nat /\ got[j] \in Nat /\ out \in Seq(Entries)
        /\ Delivered(j) \in Nat /\ Delivered(j) <= said
        /\ got[j] <= Delivered(j) /\ Rising(out, j, got[j], Delivered(j))
    BY DeliveredNat
  <2>2. CASE j = i
    <3>1. Delivered(i)' = said - Len(Tail(f))
      BY <1>1, <1>4 DEF Delivered
    <3>2. Delivered(i)' = n /\ Delivered(i) < n
      BY <1>2, <1>5, <1>6, <1>7, <3>1
    <3>3. Rising(out', i, got[i], n) /\ got[i] <= n
      <4>1. CASE out' = out
        BY <1>7, <2>1, <2>2, <3>2, <4>1, RisingWiden
      <4>2. CASE out' = Append(out, x)
        BY <1>7, <1>8, <2>1, <2>2, <3>2, <4>2, RisingAppend
      <4> QED
        BY <1>1, <1>7, <2>1, <2>2, <3>2, <4>1, <4>2
    <3> QED
      BY <1>1, <2>2, <3>2, <3>3
  <2>3. CASE j # i
    <3>1. Delivered(j)' = Delivered(j)
      BY <1>1, <1>4, <2>3 DEF Delivered
    <3>2. Rising(out', j, got[j], Delivered(j))
      <4>1. CASE out' = out
        BY <2>1, <4>1
      <4>2. CASE out' = Append(out, x)
        BY <1>8, <2>1, <2>3, <4>2, RisingAppend
      <4> QED
        BY <1>1, <4>1, <4>2
    <3> QED
      BY <1>1, <2>1, <3>1, <3>2
  <2> QED
    BY <2>2, <2>3
<1>10. GTypes'
  <2>1. out' \in Seq(Entries)
    <3>1. out \in Seq(Entries)
      BY DEF GInv, GTypes
    <3> QED
      BY <1>1, <1>8, <3>1
  <2>2. \A j \in DOMAIN feeds' : feeds'[j] \in Seq(Nat)
    BY <1>4, <1>6 DEF GInv, GTypes
  <2> QED
    BY <1>1, <1>4, <2>1, <2>2 DEF GInv, GTypes
<1>11. Hellos'
  BY <1>1 DEF GInv, Hellos
<1>12. FeedIsSuffix'
  <2>1. Len(Tail(f)) <= said
    BY <1>2, <1>3, <1>6
  <2>2. ASSUME NEW k \in 1..Len(Tail(f)) PROVE Tail(f)[k] = said - Len(Tail(f)) + k
    <3>1. k + 1 \in 1..Len(f) /\ k \in Nat
      BY <1>6
    <3>2. Tail(f)[k] = said - Len(f) + (k + 1)
      BY <1>3, <1>6, <3>1
    <3> QED
      BY <1>2, <1>6, <3>1, <3>2
  <2>3. ASSUME NEW j \in DOMAIN feeds
        PROVE  /\ Len(feeds'[j]) <= said
               /\ \A k \in 1..Len(feeds'[j]) : feeds'[j][k] = said - Len(feeds'[j]) + k
    <3>1. CASE j = i
      BY <1>4, <2>1, <2>2, <3>1
    <3>2. CASE j # i
      BY <1>4, <3>2 DEF GInv, FeedIsSuffix
    <3> QED
      BY <3>1, <3>2
  <2> QED
    BY <1>1, <1>4, <2>3 DEF FeedIsSuffix
<1>13. OutIsKnown'
  <2>1. out \in Seq(Entries) /\ \A k \in 1..Len(out) : out[k].sub <= subs
    BY DEF GInv, GTypes, OutIsKnown
  <2>2. CASE out' = out
    BY <1>1, <2>1, <2>2 DEF OutIsKnown
  <2>3. CASE out' = Append(out, x)
    <3>1. /\ Len(out') = Len(out) + 1 /\ Len(out) \in Nat /\ out'[Len(out) + 1] = x
          /\ \A k \in 1..Len(out) : out'[k] = out[k]
      BY <1>8, <2>1, <2>3
    <3> QED
      BY <1>1, <1>2, <1>8, <2>1, <3>1 DEF OutIsKnown
  <2> QED
    BY <1>1, <2>2, <2>3
<1>15. InHand'
  <2>1. out \in Seq(Entries) /\ writer' = writer
    BY DEF GInv, GTypes, FanOut
  <2>2. Append(out, x) # <<>>
    BY <1>8, <2>1
  <2> QED
    BY <1>1, <2>1, <2>2 DEF GInv, InHand
<1>14. LeadIsFresh'
  <2> SUFFICES ASSUME \A j \in DOMAIN feeds' : feeds'[j] = <<>> PROVE n = said
    BY <1>1 DEF LeadIsFresh
  <2>1. Tail(f) = <<>>
    BY <1>4
  <2>2. ASSUME NEW q, q = <<>> PROVE Len(q) = 0
    BY <2>2
  <2>3. Len(Tail(f)) = 0
    BY <2>1, <2>2
  <2>4. Len(f) = 1
    <3>1. Len(f) \in Nat /\ Len(Tail(f)) = Len(f) - 1
      BY <1>6
    <3> HIDE DEF f
    <3>2. \A k \in Nat : k - 1 = 0 => k = 1
      OBVIOUS
    <3> QED
      BY <2>3, <3>1, <3>2, Zenon
  <2> QED
    BY <1>2, <1>7, <2>4
<1> QED
  BY <1>9, <1>10, <1>11, <1>12, <1>13, <1>14, <1>15 DEF GInv, OutRises

LEMMA BroadcastStep == ASSUME GInv, Broadcast PROVE GInv'
<1> USE DEF life, binding, sight, outbox
<1>1. /\ UNCHANGED <<phase, reader, joined, subs, refused, peeked, missed, out, got>>
      /\ said' = said + 1
      /\ feeds' = [i \in DOMAIN feeds |-> Append(feeds[i], said + 1)]
  BY DEF Broadcast
<1>2. said \in Nat /\ said' \in Nat /\ said <= said'
  BY <1>1 DEF GInv, GTypes
<1>3. DOMAIN feeds' = DOMAIN feeds
  BY <1>1
<1>4. ASSUME NEW i \in DOMAIN feeds
      PROVE  /\ feeds'[i] \in Seq(Nat) /\ feeds'[i] # <<>>
             /\ Len(feeds'[i]) <= said' /\ said' - Len(feeds'[i]) = said - Len(feeds[i])
             /\ \A k \in 1..Len(feeds'[i]) : feeds'[i][k] = said' - Len(feeds'[i]) + k
  <2> DEFINE f == feeds[i]
             r == feeds'[i]
  <2>1. f \in Seq(Nat) /\ Len(f) <= said /\ \A k \in 1..Len(f) : f[k] = said - Len(f) + k
    BY DEF GInv, GTypes, FeedIsSuffix
  <2>2. r = Append(f, said + 1)
    BY <1>1
  <2> HIDE DEF f, r
  <2>3. /\ r \in Seq(Nat) /\ Len(f) \in Nat /\ Len(r) = Len(f) + 1 /\ r[Len(f) + 1] = said + 1
        /\ \A k \in 1..Len(f) : r[k] = f[k]
    BY <1>2, <2>1, <2>2
  <2>4. Len(r) <= said' /\ said' - Len(r) = said - Len(f) /\ r # <<>>
    BY <1>1, <1>2, <2>1, <2>3
  <2>5. ASSUME NEW k \in 1..Len(r) PROVE r[k] = said' - Len(r) + k
    <3>1. CASE k \in 1..Len(f)
      <4>1. r[k] = said - Len(f) + k
        BY <2>1, <2>3, <3>1
      <4> QED
        BY <2>4, <4>1
    <3>2. CASE k = Len(f) + 1
      BY <1>1, <1>2, <2>1, <2>3, <3>2
    <3> QED
      BY <2>3, <3>1, <3>2
  <2> QED
    BY <2>3, <2>4, <2>5 DEF f, r
<1>5. ASSUME NEW i \in Subs
      PROVE  got'[i] <= Delivered(i)' /\ Rising(out', i, got'[i], Delivered(i)')
  <2>1. /\ i \in Nat /\ got[i] \in Nat /\ out \in Seq(Entries)
        /\ Delivered(i) \in Nat /\ Delivered(i) <= said
        /\ got[i] <= Delivered(i) /\ Rising(out, i, got[i], Delivered(i))
        /\ i \notin DOMAIN feeds => Delivered(i) = said
    BY DeliveredNat
  <2>2. Delivered(i)' = Delivered(i) \/ Delivered(i)' = said'
    BY <1>3, <1>4 DEF Delivered
  <2>3. Delivered(i) <= said' /\ got[i] <= said'
    BY <1>2, <2>1
  <2>4. Rising(out, i, got[i], said')
    BY <1>2, <2>1, <2>3, RisingWiden
  <2> QED
    BY <1>1, <2>1, <2>2, <2>3, <2>4
<1>6. GTypes'
  BY <1>1, <1>2, <1>3, <1>4 DEF GInv, GTypes
<1>7. Hellos' /\ OutIsKnown'
  BY <1>1 DEF GInv, Hellos, OutIsKnown
<1>8. FeedIsSuffix'
  BY <1>3, <1>4 DEF FeedIsSuffix
<1>9. LeadIsFresh'
  BY <1>3, <1>4 DEF LeadIsFresh
<1>10. InHand'
  BY DEF Broadcast, GInv, InHand
<1> QED
  BY <1>5, <1>6, <1>7, <1>8, <1>9, <1>10 DEF GInv, OutRises

LEMMA GInvStep == GInv /\ [GNext]_gatewayVars => GInv'
<1> SUFFICES ASSUME GInv, [GNext]_gatewayVars PROVE GInv'
  OBVIOUS
<1>1. CASE UNCHANGED gatewayVars
  BY <1>1 DEF gatewayVars, life, binding, inbox, sight, outbox, GInv, GTypes, Hellos, FeedIsSuffix,
              OutIsKnown, OutRises, InHand, LeadIsFresh, Delivered
<1>2. CASE GNext
  <2>1. CASE Quiet
    BY <2>1, QuietInbox, QuietHellos, QuietSight, QuietInHand DEF GInv
  <2>2. Quiet \/ Push \/ Write \/ WriteFails \/ Broadcast \/ \E i \in DOMAIN feeds : FanOut(i)
    BY <1>2 DEF GNext, ReaderMoves, WriterMoves, Quiet
  <2> QED
    BY <2>1, <2>2, PushStep, WriteStep, WriteFailsStep, BroadcastStep, FanOutStep
<1> QED
  BY <1>1, <1>2

LEMMA GInvariant == GSpec => []GInv
BY GInvInit, GInvStep, PTL DEF GSpec

------------------------------------------------------------------------------
\* Whatever the client sends, however long the backlog and however many of its
\* hellos fail: what it receives through one subscription rises, for what waits
\* in c.send is above what it has, below what the subscription still holds, and
\* in order; and there are at most as many subscriptions as hellos refused, and
\* one.
THEOREM GatewayStatesInOrder == GSpec => StatesInOrder
<1>1. GInv /\ [GNext]_gatewayVars
        => [\A i \in Subs : got'[i] # got[i] => got'[i] > got[i] /\ i <= 1 + refused]_gatewayVars
  <2> SUFFICES ASSUME GInv, GNext, NEW i \in Subs, got'[i] # got[i]
               PROVE  got'[i] > got[i] /\ i <= 1 + refused
    BY DEF gatewayVars
  <2>1. Write
    BY DEF GNext, Upgrade, ReaderMoves, WriterMoves, Subscribe, SubscribeEvents, SubscribeChat,
           EnteringFails, StatesRefused, EventsRefused, ChatRefused, Hello, Request, Push,
           ReaderLeaves, Goodbye, ReadFails, FanOut, Take, WriteFails, WriterStops, Shutdown, Broadcast,
           Reindex, ClientLeaves, outbox
  <2>2. got \in [Subs -> Nat]
    BY DEF GInv, GTypes
  <2>3. out # <<>> /\ Head(out).sub = i /\ got'[i] = Head(out).state
    BY <2>1, <2>2 DEF Write, GInv, InHand
  <2>4. got[i] < Head(out).state /\ got[i] \in Nat /\ Head(out).state \in Nat
    BY <2>3, DeliveredNat, RisingTail, OutTail
  <2>5. i <= subs /\ subs <= 1 + refused /\ i \in Nat /\ subs \in Nat /\ refused \in Nat
    BY <2>3, OutTail, DeliveredNat DEF GInv, GTypes, Hellos
  <2> QED
    BY <2>3, <2>4, <2>5
<1> QED
  BY <1>1, GInvariant, PTL DEF GSpec, StatesInOrder

\* The coalition a connection reads for is that of the latest state, whichever
\* of its subscriptions delivered it, whatever was dropped and whoever closes
\* when.
THEOREM GatewayLeadIsFresh == GSpec => []LeadIsFresh
<1>1. GInv => LeadIsFresh
  BY DEF GInv
<1> QED
  BY <1>1, GInvariant, PTL

================================================================================
