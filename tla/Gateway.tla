------------------------------- MODULE Gateway -------------------------------
(***************************************************************************)
(* One WebSocket connection of the gateway (internal/gateway/hub.go): the  *)
(* read loop, the write loop, the callbacks of its NATS subscriptions, the *)
(* shutdown of the hub and the client share the bounded channel c.send,    *)
(* the subscriptions and the closing of the connection.  Connections do    *)
(* not share anything else, so one stands for all of them.                 *)
(*                                                                         *)
(* State envelopes are numbered in the order the engine publishes them.    *)
(* A hello that failed half way leaves its subscription to the states in   *)
(* place and the next one makes another, so what comes in is kept apart by *)
(* subscription, numbered in the order they are made.                      *)
(***************************************************************************)
EXTENDS Naturals, Sequences

CONSTANTS
    Backlog,     \* clientSendBacklog
    MaxStates,   \* bound: states the engine publishes during the connection
    MaxSubs      \* bound: subscriptions to the states a connection makes

ASSUME GatewayAssumption ==
    Backlog \in Nat \ {0} /\ MaxStates \in Nat /\ MaxSubs \in Nat \ {0}

Subs == 1..MaxSubs

VARIABLES
    phase,    \* "none", "open", and "closed" once c.closed is
    hubbed,   \* the connection is in h.connections
    client,   \* "up" or "gone"
    reader,   \* what the read loop is at, or the upgrade handler before it starts
    writer,   \* "none", "waiting", "writing" with a message in its hands, "gone"
    joined,   \* c.matchID is not empty
    seated,   \* c.slot is not empty
    indexed,  \* the slot index in Redis knows a slot for the user
    chat,     \* c.chat is set
    subs,     \* the subscriptions to the states made so far
    feeds,    \* what each of them that is alive has still to deliver
    refused,  \* history: the subscriptions whose hello was answered with an error
    peeked,   \* the state c.chat.coalitionLead was computed from, 0 before the first
    missed,   \* history: the last state that went by without being looked into
    out,      \* the message being written, if one is, and c.send
    said,     \* the last state published
    got       \* per subscription: the last state the client received through it

life == <<phase, hubbed, client>>
binding == <<joined, seated, indexed, chat>>
inbox == <<subs, feeds, refused>>
sight == <<peeked, missed>>
outbox == <<out, got>>
gatewayVars == <<life, reader, writer, binding, inbox, sight, outbox, said>>

GInit ==
    /\ phase = "none" /\ hubbed = FALSE /\ client = "up"
    /\ reader = "none" /\ writer = "none"
    /\ joined = FALSE /\ seated = FALSE /\ indexed \in BOOLEAN /\ chat = FALSE
    /\ subs = 0 /\ feeds = <<>> /\ refused = 0
    /\ peeked = 0 /\ missed = 0
    /\ out = <<>> /\ said = 0 /\ got = [i \in Subs |-> 0]

------------------------------------------------------------------------------
Only(S) == [i \in DOMAIN feeds \cap S |-> feeds[i]]

\* Subscribed to the states, but not in c.subs yet.
Unlisted == IF reader \in {"entering events", "joining events"} THEN {subs} ELSE {}

\* close(), under closeOnce: whatever c.subs holds now is unsubscribed.
Close ==
    /\ phase' = "closed" /\ hubbed' = FALSE
    /\ feeds' = IF phase = "closed" THEN feeds ELSE Only(Unlisted)
    /\ UNCHANGED <<client, subs, refused>>

\* handleWS: the ticket was redeemed.  With a match in the URL the handler
\* subscribes before it starts the loops.
Upgrade(withMatch) ==
    /\ phase = "none"
    /\ phase' = "open" /\ hubbed' = TRUE
    /\ joined' = withMatch
    /\ reader' = IF withMatch THEN "entering" ELSE "reading"
    /\ writer' = IF withMatch THEN "none" ELSE "waiting"
    /\ UNCHANGED <<client, seated, indexed, chat, inbox, sight, outbox, said>>

(***************************************************************************)
(* subscribeMatch, for the upgrade ("entering") and for a hello            *)
(* ("joining").  Any of its subscriptions may be refused.                  *)
(***************************************************************************)
\* The slot is looked up anew; a lookup that fails counts as no slot.
LookUpSlot == seated' \in {FALSE, indexed} /\ UNCHANGED <<joined, indexed, chat>>

\* What was published before a connection's first subscription is not seen.
Subscribe ==
    /\ reader \in {"entering", "joining"}
    /\ LookUpSlot
    /\ subs' = subs + 1
    /\ feeds' = [i \in DOMAIN feeds \cup {subs + 1} |-> IF i = subs + 1 THEN <<>> ELSE feeds[i]]
    /\ missed' = IF DOMAIN feeds = {} THEN said ELSE missed
    /\ reader' = IF reader = "entering" THEN "entering events" ELSE "joining events"
    /\ UNCHANGED <<life, writer, refused, peeked, outbox, said>>

\* The events; then all that was subscribed to joins c.subs, even if the
\* connection is closed by now, and c.chat is set.
SubscribeEvents ==
    /\ reader \in {"entering events", "joining events"}
    /\ chat' = TRUE
    /\ reader' = IF reader = "entering events" THEN "entering chat" ELSE "joining chat"
    /\ UNCHANGED <<life, writer, joined, seated, indexed, inbox, sight, outbox, said>>

\* The three subscriptions of subscribeChat; then the loops start, or the hello
\* is acknowledged.
SubscribeChat ==
    /\ reader \in {"entering chat", "joining chat"}
    /\ joined' = TRUE
    /\ reader' = IF reader = "entering chat" THEN "reading" ELSE "pushing"
    /\ writer' = IF reader = "entering chat" THEN "waiting" ELSE writer
    /\ UNCHANGED <<life, seated, indexed, chat, inbox, sight, outbox, said>>

\* handleWS closes on an error; the loops never start.
EnteringFails ==
    /\ reader \in {"entering", "entering events", "entering chat"}
    /\ phase' = "closed" /\ hubbed' = FALSE /\ reader' = "gone"
    /\ feeds' = IF phase = "closed" THEN Only(Subs \ Unlisted) ELSE <<>>
    /\ IF reader = "entering" THEN LookUpSlot ELSE UNCHANGED binding
    /\ UNCHANGED <<client, writer, subs, refused, sight, outbox, said>>

\* A hello is answered with an error and c.matchID stays empty, so that the
\* next one subscribes again.  The states are refused: nothing was done.
StatesRefused ==
    /\ reader = "joining" /\ reader' = "pushing"
    /\ LookUpSlot
    /\ UNCHANGED <<life, writer, inbox, sight, outbox, said>>

\* The events are refused: the subscription to the states is given up, with
\* what it had not delivered.
EventsRefused ==
    /\ reader = "joining events" /\ subs < MaxSubs
    /\ reader' = "pushing" /\ refused' = refused + 1
    /\ feeds' = Only(Subs \ {subs})
    /\ missed' = IF feeds[subs] # <<>> THEN said ELSE missed
    /\ UNCHANGED <<life, writer, binding, subs, peeked, outbox, said>>

\* The chat is refused: the subscriptions to states and events stay in c.subs,
\* and c.chat stays set.
ChatRefused ==
    /\ reader = "joining chat" /\ subs < MaxSubs
    /\ reader' = "pushing" /\ refused' = refused + 1
    /\ UNCHANGED <<life, writer, binding, subs, feeds, sight, outbox, said>>

------------------------------------------------------------------------------
\* Mutant: every hello subscribes.
HelloAgain ==
    /\ reader = "reading" /\ client = "up" /\ phase = "open"
    /\ reader' = IF subs < MaxSubs THEN "joining" ELSE "pushing"
    /\ UNCHANGED <<life, writer, binding, inbox, sight, outbox, said>>

\* readLoop takes a message.  A hello subscribes a connection that has not
\* joined a match; that, and every other message that is answered, ends in a
\* send on c.send.  Accepted commands and chat leave nothing here.
Hello ==
    /\ reader = "reading" /\ client = "up" /\ phase = "open"
    /\ reader' = IF joined THEN "pushing" ELSE "joining"
    /\ UNCHANGED <<life, writer, binding, inbox, sight, outbox, said>>

Request ==
    /\ reader = "reading" /\ client = "up" /\ phase = "open"
    /\ reader' = "pushing"
    /\ UNCHANGED <<life, writer, binding, inbox, sight, outbox, said>>

Room == Len(out) < Backlog + (IF writer = "writing" THEN 1 ELSE 0)

\* A pong, an acknowledgement or an error belongs to no subscription.
Answer == [sub |-> 0, state |-> 0]

\* The send itself waits for room, whether or not anybody is left to make it.
Push ==
    /\ reader = "pushing" /\ Room
    /\ out' = Append(out, Answer) /\ reader' = "reading"
    /\ UNCHANGED <<life, writer, binding, inbox, sight, got, said>>

ReaderLeaves ==
    /\ reader' = "gone" /\ Close
    /\ UNCHANGED <<writer, binding, sight, outbox, said>>

Goodbye == reader = "reading" /\ client = "up" /\ phase = "open" /\ ReaderLeaves

\* A closed socket, a client that is gone or silent past the read deadline.
ReadFails == reader = "reading" /\ (client = "gone" \/ phase = "closed") /\ ReaderLeaves

------------------------------------------------------------------------------
\* Mutant: only a state that is sent is looked into.
FanOutUnpeeked(i) ==
    /\ feeds[i] # <<>>
    /\ feeds' = [feeds EXCEPT ![i] = Tail(@)]
    /\ LET n == Head(feeds[i]) IN
       /\ peeked' = IF chat /\ seated /\ Room THEN n ELSE peeked
       /\ missed' = IF chat /\ seated THEN missed ELSE n
       /\ out' = IF Room THEN Append(out, [sub |-> i, state |-> n]) ELSE out
    /\ UNCHANGED <<life, reader, writer, binding, subs, refused, got, said>>

\* stateFanOut: the state is looked into for the coalition, if there is a chat
\* and a slot, then sent if there is room and dropped if not.  Subscriptions
\* deliver independently of each other; after a close only those made too late
\* are left to do so.
FanOut(i) ==
    /\ feeds[i] # <<>>
    /\ feeds' = [feeds EXCEPT ![i] = Tail(@)]
    /\ LET n == Head(feeds[i]) IN
       /\ peeked' = IF chat /\ seated THEN n ELSE peeked
       /\ missed' = IF chat /\ seated THEN missed ELSE n
       /\ out' = IF Room THEN Append(out, [sub |-> i, state |-> n]) ELSE out
    /\ UNCHANGED <<life, reader, writer, binding, subs, refused, got, said>>

\* writeLoop takes a message, which makes room for another; it may do so when
\* the connection is closed, too, as the select has both to choose from.
Take ==
    /\ writer = "waiting" /\ out # <<>>
    /\ writer' = "writing"
    /\ UNCHANGED <<life, reader, binding, inbox, sight, outbox, said>>

\* The message is out.  To a client that is gone it may still seem to work.
Write ==
    /\ writer = "writing" /\ phase = "open"
    /\ writer' = "waiting" /\ out' = Tail(out)
    /\ got' = IF client = "up" /\ Head(out).sub # 0
              THEN [got EXCEPT ![Head(out).sub] = Head(out).state] ELSE got
    /\ UNCHANGED <<life, reader, binding, inbox, sight, said>>

\* A message fails, or runs into the write deadline, and so may a ping.
Undelivered ==
    \/ writer = "writing" /\ out' = Tail(out)
    \/ writer = "waiting" /\ client = "gone" /\ out' = out

\* Mutant: the write loop leaves without closing.
WriteFailsOpen ==
    /\ Undelivered
    /\ writer' = "gone"
    /\ UNCHANGED <<life, reader, binding, inbox, sight, got, said>>

WriteFails ==
    /\ Undelivered
    /\ writer' = "gone" /\ Close
    /\ UNCHANGED <<reader, binding, sight, got, said>>

WriterStops ==
    /\ writer = "waiting" /\ phase = "closed"
    /\ writer' = "gone"
    /\ UNCHANGED <<life, reader, binding, inbox, sight, outbox, said>>

Shutdown ==
    /\ hubbed /\ Close
    /\ UNCHANGED <<reader, writer, binding, sight, outbox, said>>

\* The engine publishes a state: every subscription will get it.
Broadcast ==
    /\ said < MaxStates
    /\ said' = said + 1
    /\ feeds' = [i \in DOMAIN feeds |-> Append(feeds[i], said + 1)]
    /\ UNCHANGED <<life, reader, writer, binding, subs, refused, sight, outbox>>

\* The start handler writes the slot index, Redis lets the entry expire.
Reindex ==
    /\ indexed' = ~indexed
    /\ UNCHANGED <<life, reader, writer, joined, seated, chat, inbox, sight, outbox, said>>

ClientLeaves ==
    /\ phase # "none" /\ client = "up"
    /\ client' = "gone"
    /\ UNCHANGED <<phase, hubbed, reader, writer, binding, inbox, sight, outbox, said>>

ReaderMoves ==
    \/ Subscribe \/ SubscribeEvents \/ SubscribeChat
    \/ EnteringFails \/ StatesRefused \/ EventsRefused \/ ChatRefused
    \/ Push \/ ReadFails
WriterMoves == Take \/ Write \/ WriteFails \/ WriterStops

GNext ==
    \/ \E m \in BOOLEAN : Upgrade(m)
    \/ ReaderMoves \/ Hello \/ Request \/ Goodbye
    \/ \E i \in DOMAIN feeds : FanOut(i)
    \/ WriterMoves \/ Shutdown \/ Broadcast \/ Reindex \/ ClientLeaves

\* The two goroutines run.  Nothing is assumed of the client, the engine or
\* the subscriptions.
GFairness == WF_gatewayVars(ReaderMoves) /\ WF_gatewayVars(WriterMoves)

GSpec == GInit /\ [][GNext]_gatewayVars /\ GFairness

------------------------------------------------------------------------------
\* hub.go:221-234: what a subscription delivers reaches the client in the order
\* it was published, with gaps, whatever the client sends and however slow it
\* is; and a client sees the match through a second subscription, where it may
\* go back, only after a hello that was answered with an error.
StatesInOrder ==
    [][\A i \in Subs : got'[i] # got[i] => got'[i] > got[i] /\ i <= 1 + refused]_gatewayVars

\* The coalition a connection reads chat for is that of the latest state as soon
\* as its subscriptions have delivered what they have, even if the state itself
\* was dropped because the client is slow: unless that very state went by before
\* the connection had a subscription, a chat and a slot, or was held by a
\* subscription that was given up.
LeadIsFresh ==
    phase = "open" /\ DOMAIN feeds # {} /\ (\A i \in DOMAIN feeds : feeds[i] = <<>>)
        => peeked = said \/ missed = said

\* A connection whose client is gone leaves the hub's table: the loop that
\* finds out closes it, whatever the other one waits for.
GoneLeavesHub == client = "gone" ~> ~hubbed

(***************************************************************************)
(* What documents and comments say and the code does not do.               *)
(***************************************************************************)
\* hub.go:141: the lifetime of the read loop is bounded by c.closed.
ReaderEnds == phase = "closed" ~> reader \in {"none", "gone"}

==============================================================================
