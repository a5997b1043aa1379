--------------------------------- MODULE Bots ---------------------------------
(***************************************************************************)
(* The ai-bot process (internal/aibot: runner, session, pool, coreclient): *)
(* a periodic scan compares the seats the database flags as played by the  *)
(* computer with the sessions it runs; each session logs in as an account  *)
(* of the pool, trades the token for a ticket, connects to the gateway     *)
(* with it and stays until its seat is no longer flagged.  What it does    *)
(* with the states it receives is in Heuristic.                            *)
(*                                                                         *)
(* Accounts are numbered from 0, in the order of ListBots.                 *)
(***************************************************************************)
EXTENDS Naturals, FiniteSets

CONSTANTS
    BotSeats,     \* the seats of the matches
    PoolSize,     \* the accounts that are bots
    MaxCrashes    \* bound: crashes of the process

ASSUME BotsAssumption == PoolSize \in Nat \ {0} /\ IsFiniteSet(BotSeats)

NoAccount == PoolSize

VARIABLES
    flag,       \* seat -> "human", "computer", or "over": no longer in AISlots, for good
    table,      \* r.sessions: the seats with an entry
    session,    \* seat -> its session: "none", "login", "mint", "dial", "on"
    dealt,      \* seat -> the account its session is to play under
    ticket,     \* seat -> the account its ticket, then its connection, is for
    token,      \* CoreClient.token, by its account: one client for all sessions
    next,       \* botPool.next, modulo the size of the pool
    cancelled,  \* the seats whose session has a cancelled context
    up,         \* the seats whose connection stands
    pong,       \* the seats whose session has sent a ping that is not yet answered
    pool,       \* whether the pool of bot accounts has been loaded
    crashes

sessionVars == <<session, dealt, ticket>>
botsVars ==
    <<flag, table, sessionVars, token, next, cancelled, up, pong, pool, crashes>>

BInit ==
    /\ flag = [k \in BotSeats |-> "human"] /\ session = [k \in BotSeats |-> "none"]
    /\ dealt = [k \in BotSeats |-> NoAccount] /\ ticket = dealt
    /\ token = NoAccount /\ next = 0
    /\ table = {} /\ cancelled = {} /\ up = {} /\ pong = {}
    /\ pool = FALSE /\ crashes = 0

\* The session is gone, and with it what it knew.
Off(k) ==
    /\ session' = [session EXCEPT ![k] = "none"]
    /\ dealt' = [dealt EXCEPT ![k] = NoAccount] /\ ticket' = [ticket EXCEPT ![k] = NoAccount]

\* Mutant: the key stays.
EndKeepsKey(k) ==
    /\ Off(k)
    /\ cancelled' = cancelled \ {k}
    /\ up' = up \ {k} /\ pong' = pong \ {k}
    /\ UNCHANGED table

\* runSession returns: its key leaves the table.  The connection is closed, and
\* with it goes the ping loop.
End(k) ==
    /\ Off(k)
    /\ table' = table \ {k} /\ cancelled' = cancelled \ {k}
    /\ up' = up \ {k} /\ pong' = pong \ {k}

Wanted == {k \in BotSeats : flag[k] = "computer"}

\* refreshPool.  The list of bots may not load, then the pool stays what it was.
RefreshPool == pool' \in {pool, TRUE}

\* take, for each of the new seats, met in the order of a Go map: round and round
\* the pool.
Deal(new) ==
    \E turn \in [new -> 0..(Cardinality(new) - 1)] :
        /\ \A k, l \in new : turn[k] = turn[l] => k = l
        /\ dealt' = [k \in BotSeats |-> IF k \in new THEN (next + turn[k]) % PoolSize ELSE dealt[k]]
        /\ next' = (next + Cardinality(new)) % PoolSize

\* scan: without a bot there is no session.
Scan ==
    /\ RefreshPool
    /\ LET new == IF pool' THEN Wanted \ table ELSE {} IN
       /\ table' = (table \cap Wanted) \cup new
       /\ session' = [k \in BotSeats |-> IF k \in new THEN "login" ELSE session[k]]
       /\ Deal(new)
    /\ cancelled' = cancelled \cup (table \ Wanted)
    /\ UNCHANGED <<flag, ticket, token, up, pong, crashes>>

\* session.run: three calls, each of which is given the context, so that a
\* cancelled session only fails.
Proceed(k, from, to) ==
    /\ session[k] = from /\ k \notin cancelled
    /\ session' = [session EXCEPT ![k] = to]

\* LoginAsBot: the client stashes the token.
Login(k) ==
    /\ Proceed(k, "login", "mint")
    /\ token' = dealt[k]
    /\ UNCHANGED <<flag, table, dealt, ticket, next, cancelled, up, pong, pool, crashes>>

\* MintWSTicket: a ticket for whoever the stashed token is for.
MintWSTicket(k) ==
    /\ Proceed(k, "mint", "dial")
    /\ ticket' = [ticket EXCEPT ![k] = token]
    /\ UNCHANGED <<flag, table, dealt, token, next, cancelled, up, pong, pool, crashes>>

\* The gateway redeems the ticket, and the hello goes out.
Dial(k) ==
    /\ Proceed(k, "dial", "on")
    /\ up' = up \cup {k}
    /\ UNCHANGED <<flag, table, dealt, ticket, token, next, cancelled, pong, pool, crashes>>

\* A call that fails (the ticket has expired, say) ends the session.
Fail(k) ==
    /\ session[k] \in {"login", "mint", "dial"} /\ End(k)
    /\ UNCHANGED <<flag, token, next, pool, crashes>>

\* pingLoop; the gateway answers every ping.
Ping(k) ==
    /\ session[k] = "on" /\ k \in up /\ k \notin pong
    /\ pong' = pong \cup {k}
    /\ UNCHANGED <<flag, table, sessionVars, token, next, cancelled, up, pool, crashes>>

\* The read loop looks at the context between two messages, and waits for
\* messages without it: pongs, and states while the match goes on.
Read(k) ==
    /\ session[k] = "on" /\ k \in up
    /\ k \in pong \/ flag[k] # "over"
    /\ IF k \in cancelled THEN End(k)
       ELSE pong' = pong \ {k} /\ UNCHANGED <<table, sessionVars, cancelled, up>>
    /\ UNCHANGED <<flag, token, next, pool, crashes>>

ConnectionLost(k) ==
    /\ session[k] = "on" /\ k \notin up /\ End(k)
    /\ UNCHANGED <<flag, token, next, pool, crashes>>

\* The gateway closes the connection.
Drop(k) ==
    /\ k \in up
    /\ up' = up \ {k} /\ pong' = pong \ {k}
    /\ UNCHANGED <<flag, table, sessionVars, token, next, cancelled, pool, crashes>>

\* The process dies and is restarted: when it is told to, or when the ping loop
\* and the read loop write to one connection at the same time.
Crash ==
    /\ crashes < MaxCrashes
    /\ crashes' = crashes + 1
    /\ session' = [k \in BotSeats |-> "none"]
    /\ dealt' = [k \in BotSeats |-> NoAccount] /\ ticket' = dealt'
    /\ token' = NoAccount /\ next' = 0
    /\ table' = {} /\ cancelled' = {} /\ up' = {} /\ pong' = {} /\ pool' = FALSE
    /\ UNCHANGED flag

\* The lobby or the worker hands a seat to the computer; the slot dies or the match ends.
TakeOver(k) ==
    /\ flag[k] = "human"
    /\ flag' = [flag EXCEPT ![k] = "computer"]
    /\ UNCHANGED <<table, sessionVars, token, next, cancelled, up, pong, pool, crashes>>

Finish(k) ==
    /\ flag[k] = "computer"
    /\ flag' = [flag EXCEPT ![k] = "over"]
    /\ UNCHANGED <<table, sessionVars, token, next, cancelled, up, pong, pool, crashes>>

BNext ==
    \/ Scan \/ Crash
    \/ \E k \in BotSeats :
          \/ Login(k) \/ MintWSTicket(k) \/ Dial(k) \/ Fail(k)
          \/ Ping(k) \/ Read(k) \/ ConnectionLost(k) \/ Drop(k)
          \/ TakeOver(k) \/ Finish(k)

\* The ticker of the runner, the goroutines of a session; a call that is
\* repeated often enough succeeds.
BFairness ==
    /\ WF_botsVars(Scan) /\ SF_botsVars(Scan /\ pool')
    /\ \A k \in BotSeats :
          /\ SF_botsVars(Login(k)) /\ SF_botsVars(MintWSTicket(k)) /\ SF_botsVars(Dial(k))
          /\ WF_botsVars(k \in cancelled /\ Fail(k))
          /\ WF_botsVars(Ping(k)) /\ WF_botsVars(Read(k))
          /\ WF_botsVars(ConnectionLost(k))

BSpec == BInit /\ [][BNext]_botsVars /\ BFairness

------------------------------------------------------------------------------
\* Sessions follow the flags in spite of refused logins, dropped connections and
\* crashes: a seat of the computer gets a connected session, and a seat that is
\* over loses its own although no state ever comes for it again.
SessionsFollowSeats == \A k \in BotSeats :
    /\ flag[k] = "computer" ~> (session[k] = "on" \/ flag[k] = "over")
    /\ flag[k] = "over" ~> session[k] = "none"

\* Each session plays under the account it was given: the client that carries
\* its token is its own (coreclient.go says so of CoreClient).
OwnIdentity == \A k \in BotSeats : session[k] = "on" => ticket[k] = dealt[k]

==============================================================================
