--------------------------------- MODULE Chat ---------------------------------
(***************************************************************************)
(* Chat in one match: the gateway names the channel and filters what comes *)
(* back (internal/gateway/chat.go), the service checks, stores and         *)
(* publishes (internal/service/chatsvc, domain/chatdom), core NATS carries *)
(* both ways without storage (adapter/natsbridge/chat.go).                 *)
(*                                                                         *)
(* Messages do not affect each other, so there is one at a time; and it is *)
(* followed to one connection, for what one does with it does not depend   *)
(* on the others.  The rate limits may refuse any message.                 *)
(***************************************************************************)
EXTENDS Seats

CONSTANTS
    Users, Players,   \* user -> the slot it has in the match, or NoSlot
    Conns,            \* the connections, [user, slot, here]: the slot the gateway found for
                      \* it, or NoSlot, and whether it is one to this match
    MayAlly,            \* bound: the pairs of slots that ally
    NoView, NoPost

ASSUME ChatAssumption ==
    /\ Players \in [Users -> Slots \cup {NoSlot}]
    /\ Conns \subseteq [user : Users, slot : Slots \cup {NoSlot}, here : BOOLEAN]
    /\ \A p \in MayAlly : p \subseteq Slots /\ Cardinality(p) = 2

VARIABLES
    allied,   \* the alliances of the match, as pairs of slots
    seen,     \* connection -> the alliances of the last state it was sent (conn.chat)
    post      \* the message under way, or NoPost

chatVars == <<allied, seen, post>>

CInit == allied = {} /\ seen = [c \in Conns |-> NoView] /\ post = NoPost

------------------------------------------------------------------------------
\* Reached from s over alliances: what contains s and, with a slot, its allies.
Bloc(s, view) ==
    {t \in Slots : \A b \in SUBSET Slots :
        s \in b /\ (\A p \in view : p \cap b # {} => p \subseteq b) => t \in b}

\* Mutant: the least of the direct allies.
LeaderDirect(s, view) ==
    LET near == {t \in Slots : t = s \/ {s, t} \in view} IN
    CHOOSE l \in near : \A t \in near : l <= t

\* coalitionLeaderFor: the least slot of the bloc.
LeaderFor(s, view) == CHOOSE l \in Bloc(s, view) : \A t \in Bloc(s, view) : l <= t

\* c.chat.coalitionLead, empty before the first state of a connection with a slot.
Lead(c) == IF c.slot = NoSlot \/ seen[c] = NoView THEN NoSlot ELSE LeaderFor(c.slot, seen[c])

\* Scope keys: the match of all of them is this one.
World == [kind |-> "world"]
Coal(lead) == [kind |-> "coal", lead |-> lead]
DM(a, b) == [kind |-> "dm", parties |-> {a, b}]

Ingress(user, slot, scope, view) ==
    post' = [stage |-> "ingress", by |-> user, slot |-> slot, scope |-> scope, view |-> view,
             stored |-> FALSE]

\* handleClientChat and scopeFromOutbound: before the first state the own slot
\* names the coalition.
Say(c, scope) ==
    /\ post = NoPost /\ c.here
    /\ \/ scope = World
       \/ scope = Coal(IF Lead(c) = NoSlot THEN c.slot ELSE Lead(c))
       \/ \E u \in Users : scope = DM(c.user, u)
    /\ Ingress(c.user, c.slot, scope, IF c.slot # NoSlot /\ scope.kind = "coal" THEN seen[c] ELSE NoView)
    /\ UNCHANGED <<allied, seen>>

\* POST /matches/{id}/chat: slot and scope are what the client says.
SayOverHttp(user, slot, scope) ==
    /\ post = NoPost
    /\ Ingress(user, slot, scope, NoView)
    /\ UNCHANGED <<allied, seen>>

\* isPlayer, checkScope and dmPartnerIsPlayer.
IsPlayer(user, slot) == Players[user] # NoSlot /\ (slot = NoSlot \/ slot = Players[user])

\* Mutant: the partner of a DM may be anybody.
AllowedAnyPartner(m) ==
    /\ IsPlayer(m.by, m.slot)
    /\ m.scope.kind = "dm" => m.by \in m.scope.parties

Allowed(m) ==
    /\ IsPlayer(m.by, m.slot)
    /\ m.scope.kind = "dm" => /\ m.by \in m.scope.parties
                              /\ \A u \in m.scope.parties : Players[u] # NoSlot

\* Send: refused, by the checks, the rate or the database; or stored.
Refuse ==
    /\ post # NoPost /\ post.stage = "ingress"
    /\ post' = NoPost
    /\ UNCHANGED <<allied, seen>>

Store ==
    /\ post # NoPost /\ post.stage = "ingress" /\ Allowed(post)
    /\ post' = [post EXCEPT !.stage = "fanout", !.stored = TRUE]
    /\ UNCHANGED <<allied, seen>>

\* The subjects: world and coalition go to the match, a DM to the inbox of each
\* party, where every connection of the user listens, to whatever match it is.
Listens(c, scope) ==
    IF scope.kind = "dm" THEN c.user \in scope.parties ELSE c.here

\* fanout: NATS carries it to a connection that listens, or loses it.
Fanout ==
    /\ post # NoPost /\ post.stage = "fanout"
    /\ \/ post' = NoPost
       \/ \E c \in Conns :
             /\ Listens(c, post.scope)
             /\ post' = [stage |-> "sent", by |-> post.by, slot |-> post.slot, scope |-> post.scope,
                         view |-> post.view, stored |-> post.stored,
                         to |-> c, agreed |-> FALSE]
    /\ UNCHANGED <<allied, seen>>

\* fanOut, and for a coalition chatCoalitionFanOut: only what is addressed to
\* the leader the connection knows reaches the client.
Passes(c, scope) ==
    scope.kind = "coal" => Lead(c) # NoSlot /\ scope.lead = Lead(c)

Deliver ==
    /\ post # NoPost /\ post.stage = "sent"
    /\ post' = [post EXCEPT !.stage = IF Passes(post.to, post.scope) THEN "heard" ELSE "filtered",
                            !.agreed = (seen[post.to] = post.view)]
    /\ UNCHANGED <<allied, seen>>

Over ==
    /\ post # NoPost /\ post.stage \in {"heard", "filtered"}
    /\ post' = NoPost
    /\ UNCHANGED <<allied, seen>>

------------------------------------------------------------------------------
\* The match goes on: alliances are made and broken, and the states that say so
\* reach each connection in its own time (maybeUpdateCoalitionFromState).
Diplomacy(p) ==
    /\ allied' = IF p \in allied THEN allied \ {p} ELSE allied \cup {p}
    /\ UNCHANGED <<seen, post>>

Peek(c) ==
    /\ c.here /\ c.slot # NoSlot
    /\ seen' = [seen EXCEPT ![c] = allied]
    /\ UNCHANGED <<allied, post>>

CNext ==
    \/ \E c \in Conns :
          \/ Peek(c)
          \/ Say(c, World)
          \/ \E l \in Slots \cup {NoSlot} : Say(c, Coal(l))
          \/ \E u \in Users : Say(c, DM(c.user, u))
    \/ \E u, v \in Users, s \in Slots : SayOverHttp(u, NoSlot, DM(u, v)) \/ SayOverHttp(u, s, Coal(s))
    \/ Refuse \/ Store \/ Fanout \/ Deliver \/ Over
    \/ \E p \in MayAlly : Diplomacy(p)

CSpec == CInit /\ [][CNext]_chatVars

------------------------------------------------------------------------------
\* Author and reader who have seen the same alliances agree on who is in the
\* coalition: the reader gets the message exactly if a chain of alliances joins
\* the two, whatever has become of the alliances since, and however long the chain.
CoalitionHears ==
    post # NoPost /\ post.stage \in {"heard", "filtered"} /\ post.scope.kind = "coal"
        /\ post.view # NoView /\ post.agreed
    => (post.stage = "heard" <=> post.to.slot \in Bloc(post.slot, post.view))

\* What anybody hears is in the history, comes from a player of the match, and
\* is meant for the one who hears it: a DM reaches the two it is between, who
\* both play, a word to the world or to a coalition only those connected to the match.
HeardIsOnRecord ==
    post # NoPost /\ post.stage = "heard"
    => /\ post.stored /\ Players[post.by] # NoSlot
       /\ IF post.scope.kind = "dm"
          THEN post.to.user \in post.scope.parties /\ \A u \in post.scope.parties : Players[u] # NoSlot
          ELSE post.to.here

==============================================================================
