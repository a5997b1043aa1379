----------------------------- MODULE ViewerProofs -----------------------------
(***************************************************************************)
(* Whose eyes a player sees through and whose words it reads.  The cache   *)
(* of ViewerCache never serves a stale perspective, for any set of slots   *)
(* and any bounds.  For every match, every set of connections and          *)
(* alliances of any shape, what is heard in its chat is on record and      *)
(* meant for who hears it, and two who have seen the same alliances agree  *)
(* on the coalition.                                                       *)
(***************************************************************************)
EXTENDS ViewerCache, Chat, DiplomacyProofs

\* The inductive invariant.  The cache is never ahead of the registry, and
\* what it holds at the registry's version is current.
VInv ==
    /\ version \in Nat /\ visVersion \in Nat /\ visVersion <= version
    /\ vis \in [Slots -> (SUBSET Slots) \cup {NotCached}]
    /\ CacheIsCurrent
    /\ ShownIsCurrent
    /\ shown = NobodyYet \/ shown.viewer \in Slots

\* A perspective is a set of slots, never the marker of an empty entry.
LEMMA PerspectiveType ==
    ASSUME NEW s \in Slots
    PROVE  /\ ComputeViewerContributors(s) \in SUBSET Slots
           /\ ComputeViewerContributors(s) # NotCached
<1>1. s \in Coalition(s) /\ Coalition(s) \in SUBSET Slots
  BY DEF Coalition
<1>2. s # NoSlot
  BY SeatsAssumption
<1> QED
  BY <1>1, <1>2 DEF ComputeViewerContributors, NotCached

\* A new match has an empty cache.
LEMMA VInitInv == VInit => VInv
<1> SUFFICES ASSUME VInit PROVE VInv
  OBVIOUS
<1>1. version = 0 /\ visVersion = 0 /\ shown = NobodyYet
  BY DEF VInit, DInit
<1>2. vis = [s \in Slots |-> NotCached]
  BY DEF VInit
<1>3. vis \in [Slots -> (SUBSET Slots) \cup {NotCached}]
  BY <1>2
<1>4. CacheIsCurrent
  BY <1>2 DEF CacheIsCurrent
<1>5. ShownIsCurrent
  BY <1>1 DEF ShownIsCurrent
<1> QED
  BY <1>1, <1>3, <1>4, <1>5 DEF VInv

\* A command bumps the version, so the cache is behind; time alone changes
\* nothing a perspective is computed from.
LEMMA RegistryStepInv == VInv /\ RegistryStep => VInv'
<1> SUFFICES ASSUME VInv, RegistryStep PROVE VInv'
  OBVIOUS
<1>1. /\ shown' = NobodyYet
      /\ visVersion' = visVersion /\ vis' = vis
  BY DEF RegistryStep
<1>2. CASE AdvanceTime
  <2>1. treaty' = treaty /\ pacts' = pacts /\ version' = version
    BY <1>2 DEF AdvanceTime, registry
  <2>2. \A s \in Slots :
            ComputeViewerContributors(s)' = ComputeViewerContributors(s)
    BY <2>1 DEF ComputeViewerContributors, Coalition, ClosedUnderAlliance,
                SeesThrough, Stance, HasPact
  <2> QED
    BY <1>1, <2>1, <2>2 DEF VInv, CacheIsCurrent, ShownIsCurrent
<1>3. ASSUME NEW a \in Slots, NEW b \in Slots, Command(a, b) PROVE VInv'
  <2>1. version' \in Nat /\ version' > version
    BY <1>3 DEF VInv, Command, DeclareWar, Propose, Accept, GrantPact, RevokePact
  <2> QED
    BY <1>1, <2>1 DEF VInv, CacheIsCurrent, ShownIsCurrent
<1> QED
  BY <1>2, <1>3 DEF RegistryStep, DNext

\* A lookup leaves the cache at the registry's version with current entries.
LEMMA ViewerContributorsInv ==
    ASSUME VInv, NEW slot \in Slots, ViewerContributors(slot)
    PROVE  VInv'
<1> DEFINE kept == IF visVersion = version THEN vis ELSE [s \in Slots |-> NotCached]
           eyes == IF kept[slot] # NotCached
                   THEN kept[slot] ELSE ComputeViewerContributors(slot)
<1>1. /\ vis' = [kept EXCEPT ![slot] = eyes]
      /\ visVersion' = version
      /\ shown' = [viewer |-> slot, eyes |-> eyes]
      /\ UNCHANGED dvars
  BY DEF ViewerContributors
<1>2. version' = version /\ treaty' = treaty /\ pacts' = pacts
  BY <1>1 DEF dvars
<1>3. \A s \in Slots : ComputeViewerContributors(s)' = ComputeViewerContributors(s)
  BY <1>2 DEF ComputeViewerContributors, Coalition, ClosedUnderAlliance,
              SeesThrough, Stance, HasPact
<1>4. kept \in [Slots -> (SUBSET Slots) \cup {NotCached}]
  <2>1. CASE visVersion = version
    BY <2>1 DEF VInv
  <2>2. CASE visVersion # version
    <3>1. kept = [s \in Slots |-> NotCached]
      BY <2>2
    <3> QED
      BY <3>1
  <2> QED
    BY <2>1, <2>2
<1>5. \A s \in Slots : kept[s] # NotCached => kept[s] = ComputeViewerContributors(s)
  BY DEF VInv, CacheIsCurrent
<1>6. eyes = ComputeViewerContributors(slot)
  BY <1>5
<1>7. vis' \in [Slots -> (SUBSET Slots) \cup {NotCached}]
  <2> HIDE DEF kept
  <2> QED
    BY <1>1, <1>4, <1>6, PerspectiveType
<1>8. \A s \in Slots : vis'[s] # NotCached => vis'[s] = ComputeViewerContributors(s)
  <2> HIDE DEF kept, eyes
  <2> QED
    BY <1>1, <1>4, <1>5, <1>6
<1>9. CacheIsCurrent'
  BY <1>3, <1>8 DEF CacheIsCurrent
<1>10. ShownIsCurrent'
  <2>1. shown'.viewer = slot /\ shown'.eyes = ComputeViewerContributors(slot)
    <3> HIDE DEF eyes
    <3> QED
      BY <1>1, <1>6
  <2> QED
    BY <1>3, <2>1 DEF ShownIsCurrent
<1>11. shown'.viewer \in Slots
  <2> HIDE DEF eyes
  <2> QED
    BY <1>1
<1> QED
  BY <1>1, <1>2, <1>7, <1>9, <1>10, <1>11 DEF VInv

\* The invariant holds in every reachable state.
THEOREM VSpecInv == VSpec => []VInv
<1>1. VInv /\ [VNext]_vvars => VInv'
  <2> SUFFICES ASSUME VInv, [VNext]_vvars PROVE VInv'
    OBVIOUS
  <2>1. CASE RegistryStep
    BY <2>1, RegistryStepInv
  <2>2. ASSUME NEW slot \in Slots, ViewerContributors(slot) PROVE VInv'
    BY <2>2, ViewerContributorsInv
  <2>3. CASE UNCHANGED vvars
    <3>1. /\ treaty' = treaty /\ pacts' = pacts /\ version' = version
          /\ visVersion' = visVersion /\ vis' = vis /\ shown' = shown
      BY <2>3 DEF vvars, dvars
    <3>2. \A s : ComputeViewerContributors(s)' = ComputeViewerContributors(s)
      BY <3>1 DEF ComputeViewerContributors, Coalition, ClosedUnderAlliance,
                  SeesThrough, Stance, HasPact
    <3> QED
      BY <3>1, <3>2 DEF VInv, CacheIsCurrent, ShownIsCurrent
  <2> QED
    BY <2>1, <2>2, <2>3 DEF VNext
<1> QED
  BY <1>1, VInitInv, PTL DEF VSpec

\* What a viewer is shown is computed from the treaties and pacts in force.
THEOREM ShownIsCurrentHolds == VSpec => []ShownIsCurrent
<1>1. VInv => ShownIsCurrent
  BY DEF VInv
<1> QED
  BY <1>1, VSpecInv, PTL

\* The types, and that the cache is never stamped ahead of the registry.
THEOREM VTypeOKHolds == VSpec => []VTypeOK
<1>1. VInv => VTypeOK
  <2> SUFFICES ASSUME VInv PROVE VTypeOK
    OBVIOUS
  <2>1. visVersion \in 0..version
    BY DEF VInv
  <2>2. CASE shown = NobodyYet
    BY <2>1, <2>2 DEF VTypeOK, VInv, NobodyYet
  <2>3. CASE shown # NobodyYet
    <3>1. shown.viewer \in Slots /\ shown.eyes = ComputeViewerContributors(shown.viewer)
      BY <2>3 DEF VInv, ShownIsCurrent
    <3>2. shown.eyes \subseteq Slots
      BY <3>1, PerspectiveType
    <3> QED
      BY <2>1, <3>1, <3>2 DEF VTypeOK, VInv
  <2> QED
    BY <2>2, <2>3
<1> QED
  BY <1>1, VSpecInv, PTL

\* Whoever has the viewer in the coalition is in the viewer's own, so a viewer
\* shares the eyes of every ally in the chain.
THEOREM AlliesShareEyesHolds == VSpec => []AlliesShareEyes
<1>1. VInv => AlliesShareEyes
  <2> SUFFICES ASSUME VInv, shown # NobodyYet, NEW s \in Slots, shown.viewer \in Coalition(s)
               PROVE  s \in shown.eyes
    BY DEF AlliesShareEyes
  <2>1. shown.eyes = ComputeViewerContributors(shown.viewer)
    BY DEF VInv, ShownIsCurrent
  <2>2. Coalition(shown.viewer) = Coalition(s)
    BY CoalitionSame
  <2> QED
    BY <2>1, <2>2, CoalitionClosed DEF ComputeViewerContributors
<1> QED
  BY <1>1, VSpecInv, PTL

------------------------------------------------------------------------------
(* Chat. *)

Views == SUBSET MayAlly
AnySlot == Slots \cup {NoSlot}
Scopes == {World} \cup {Coal(l) : l \in AnySlot} \cup {DM(u, v) : u \in Users, v \in Users}

Early == [stage : {"ingress", "fanout"}, by : Users, slot : AnySlot, scope : Scopes,
          view : Views \cup {NoView}, stored : BOOLEAN]
Late == [stage : {"sent", "heard", "filtered"}, by : Users, slot : AnySlot, scope : Scopes,
         view : Views \cup {NoView}, stored : BOOLEAN, to : Conns, agreed : BOOLEAN]

ChatTypes ==
    /\ allied \in Views
    /\ seen \in [Conns -> Views \cup {NoView}]
    /\ post # NoPost => post \in Early \cup Late

\* What a message took with it: the checks it passed, and the coalition its
\* author belonged to in what the author had seen.
Checked(m) ==
    /\ m.stage # "ingress" => m.stored /\ Allowed(m)
    /\ m.scope.kind = "coal" /\ m.view # NoView =>
          m.slot \in Slots /\ m.scope.lead = LeaderFor(m.slot, m.view)

Addressed(m) == m.stage \in {"sent", "heard", "filtered"} => Listens(m.to, m.scope)

PostInv == post # NoPost => Checked(post) /\ Addressed(post)

ChatInv == ChatTypes /\ PostInv /\ CoalitionHears

------------------------------------------------------------------------------
\* Blocs.

Closed(b, view) == \A p \in view : p \cap b # {} => p \subseteq b

LEMMA BlocContains ==
    ASSUME NEW s \in Slots, NEW view
    PROVE  s \in Bloc(s, view) /\ Bloc(s, view) \subseteq Slots
BY DEF Bloc

LEMMA BlocWithin ==
    ASSUME NEW s \in Slots, NEW view, NEW b \in SUBSET Slots, s \in b, Closed(b, view)
    PROVE  Bloc(s, view) \subseteq b
BY DEF Bloc, Closed

LEMMA BlocMember ==
    ASSUME NEW s \in Slots, NEW t \in Slots, NEW view,
           \A b \in SUBSET Slots : s \in b /\ Closed(b, view) => t \in b
    PROVE  t \in Bloc(s, view)
BY DEF Bloc, Closed

\* Who is in the bloc of the other has the other in his own: what is outside a
\* closed set of slots is closed as well.
LEMMA BlocSymmetric ==
    ASSUME NEW view \in Views, NEW s \in Slots, NEW t \in Bloc(s, view)
    PROVE  s \in Bloc(t, view)
<1>1. t \in Slots
  BY BlocContains
<1>2. SUFFICES ASSUME NEW b \in SUBSET Slots, t \in b, Closed(b, view), s \notin b
               PROVE  FALSE
  BY <1>1, BlocMember
<1>3. Slots \ b \in SUBSET Slots /\ s \in Slots \ b
  BY <1>2
<1>4. Closed(Slots \ b, view)
  <2> SUFFICES ASSUME NEW p \in view, p \cap (Slots \ b) # {} PROVE p \subseteq Slots \ b
    BY DEF Closed
  <2>1. p \subseteq Slots
    BY ChatAssumption DEF Views
  <2>2. p \cap b = {}
    BY <1>2 DEF Closed
  <2> QED
    BY <2>1, <2>2
<1>5. t \in Slots \ b
  BY <1>3, <1>4, BlocWithin
<1> QED
  BY <1>2, <1>5

LEMMA BlocSame ==
    ASSUME NEW view \in Views, NEW s \in Slots, NEW t \in Bloc(s, view)
    PROVE  Bloc(t, view) = Bloc(s, view)
<1>1. \A u, v \in Slots : v \in Bloc(u, view) => Bloc(v, view) \subseteq Bloc(u, view)
  <2> TAKE u, v \in Slots
  <2> SUFFICES ASSUME v \in Bloc(u, view), NEW w \in Bloc(v, view) PROVE w \in Bloc(u, view)
    OBVIOUS
  <2>1. w \in Slots
    BY BlocContains
  <2>2. ASSUME NEW b \in SUBSET Slots, u \in b, Closed(b, view) PROVE w \in b
    BY <2>2, BlocWithin
  <2> QED
    BY <2>1, <2>2, BlocMember
<1>2. t \in Slots /\ s \in Bloc(t, view)
  BY BlocContains, BlocSymmetric
<1> QED
  BY <1>1, <1>2

LEMMA LeaderInBloc ==
    ASSUME NEW s \in Slots, NEW view
    PROVE  LeaderFor(s, view) \in Bloc(s, view)
<1>1. Bloc(s, view) \subseteq Nat /\ Bloc(s, view) # {}
  BY BlocContains, SeatsAssumption
<1>2. \E l \in Bloc(s, view) : \A t \in Bloc(s, view) : l <= t
  BY <1>1, LeastNat
<1> QED
  BY <1>2 DEF LeaderFor

\* Two slots have the same leader exactly if they are in one bloc.
LEMMA LeaderNamesBloc ==
    ASSUME NEW view \in Views, NEW s \in Slots, NEW t \in Slots
    PROVE  LeaderFor(s, view) = LeaderFor(t, view) <=> t \in Bloc(s, view)
<1>1. ASSUME t \in Bloc(s, view) PROVE LeaderFor(s, view) = LeaderFor(t, view)
  <2>1. Bloc(t, view) = Bloc(s, view)
    BY <1>1, BlocSame
  <2> QED
    BY <2>1, Zenon DEF LeaderFor
<1>2. ASSUME LeaderFor(s, view) = LeaderFor(t, view) PROVE t \in Bloc(s, view)
  <2>1. LeaderFor(s, view) \in Bloc(s, view) /\ LeaderFor(s, view) \in Bloc(t, view)
    BY <1>2, LeaderInBloc
  <2>2. Bloc(t, view) = Bloc(s, view)
    BY <2>1, BlocSame
  <2> QED
    BY <2>2, BlocContains
<1> QED
  BY <1>1, <1>2

------------------------------------------------------------------------------
\* The steps.

LEMMA LeadIsSlot ==
    ASSUME ChatTypes, NEW c \in Conns
    PROVE  /\ c.user \in Users /\ c.slot \in AnySlot /\ Lead(c) \in AnySlot
           /\ c.slot \in Slots /\ seen[c] # NoView => Lead(c) = LeaderFor(c.slot, seen[c]) /\ Lead(c) # NoSlot
           /\ c.slot = NoSlot \/ seen[c] = NoView => Lead(c) = NoSlot
<1>1. c.user \in Users /\ c.slot \in AnySlot
  BY ChatAssumption DEF AnySlot
<1>2. ASSUME c.slot \in Slots PROVE LeaderFor(c.slot, seen[c]) \in Slots
  BY <1>2, LeaderInBloc, BlocContains
<1> QED
  BY <1>1, <1>2, SeatsAssumption DEF Lead, AnySlot

\* A new message.
LEMMA IngressStep ==
    ASSUME ChatInv, UNCHANGED <<allied, seen>>,
           NEW u \in Users, NEW s \in AnySlot, NEW scope \in Scopes, NEW view \in Views \cup {NoView},
           Ingress(u, s, scope, view),
           scope.kind = "coal" /\ view # NoView => s \in Slots /\ scope.lead = LeaderFor(s, view)
    PROVE  ChatInv'
<1>1. post' = [stage |-> "ingress", by |-> u, slot |-> s, scope |-> scope, view |-> view, stored |-> FALSE]
  BY DEF Ingress
<1>2. post' \in Early
  BY <1>1 DEF Early
<1>3. post'.stage = "ingress" /\ post'.scope = scope /\ post'.view = view /\ post'.slot = s
  BY <1>1
<1>4. Checked(post') /\ Addressed(post')
  BY <1>3 DEF Checked, Addressed
<1>5. PostInv'
  BY <1>4 DEF PostInv, Checked, Addressed, Allowed, IsPlayer, Listens, LeaderFor, Bloc
<1>6. CoalitionHears'
  BY <1>3 DEF CoalitionHears
<1>7. ChatTypes'
  BY <1>2 DEF ChatInv, ChatTypes
<1> QED
  BY <1>5, <1>6, <1>7 DEF ChatInv

LEMMA SayStep ==
    ASSUME ChatInv, NEW c \in Conns, NEW scope, Say(c, scope)
    PROVE  ChatInv'
<1>1. /\ c.user \in Users /\ c.slot \in AnySlot /\ Lead(c) \in AnySlot
      /\ c.slot \in Slots /\ seen[c] # NoView => Lead(c) = LeaderFor(c.slot, seen[c]) /\ Lead(c) # NoSlot
  BY LeadIsSlot DEF ChatInv
<1> DEFINE lead == IF Lead(c) = NoSlot THEN c.slot ELSE Lead(c)
           view == IF c.slot # NoSlot /\ scope.kind = "coal" THEN seen[c] ELSE NoView
<1>2. scope = World \/ scope = Coal(lead) \/ \E u \in Users : scope = DM(c.user, u)
  BY DEF Say
<1>3. lead \in AnySlot /\ (c.slot \in Slots /\ seen[c] # NoView => lead = LeaderFor(c.slot, seen[c]))
  BY <1>1
<1>4. Ingress(c.user, c.slot, scope, view) /\ UNCHANGED <<allied, seen>>
  BY DEF Say
<1> HIDE DEF lead
<1>5. scope \in Scopes
  BY <1>1, <1>2, <1>3 DEF Scopes
<1>6. view \in Views \cup {NoView}
  BY DEF ChatInv, ChatTypes
<1>7. scope.kind = "coal" => scope.lead = lead
  BY <1>2 DEF World, Coal, DM
<1>8. scope.kind = "coal" /\ view # NoView => c.slot \in Slots /\ scope.lead = LeaderFor(c.slot, view)
  BY <1>1, <1>3, <1>7 DEF AnySlot
<1> HIDE DEF view
<1> QED
  BY <1>1, <1>4, <1>5, <1>6, <1>8, IngressStep

LEMMA SayOverHttpStep ==
    ASSUME ChatInv, NEW u \in Users, NEW s \in AnySlot, NEW scope \in Scopes, SayOverHttp(u, s, scope)
    PROVE  ChatInv'
BY IngressStep DEF SayOverHttp

\* The message moves on, or is gone.
LEMMA ForgetStep == ASSUME ChatInv, Refuse \/ Over PROVE ChatInv'
<1>1. post' = NoPost /\ UNCHANGED <<allied, seen>>
  BY DEF Refuse, Over
<1> QED
  BY <1>1 DEF ChatInv, ChatTypes, PostInv, CoalitionHears

LEMMA StoreStep == ASSUME ChatInv, Store PROVE ChatInv'
<1>1. post \in Early /\ Allowed(post) /\ Checked(post) /\ UNCHANGED <<allied, seen>>
      /\ post' = [post EXCEPT !.stage = "fanout", !.stored = TRUE]
  BY DEF ChatInv, ChatTypes, PostInv, Store, Early, Late
<1>2. /\ post' \in Early /\ post'.stage = "fanout" /\ post'.stored = TRUE
      /\ post'.by = post.by /\ post'.slot = post.slot /\ post'.scope = post.scope /\ post'.view = post.view
  BY <1>1 DEF Early
<1>3. Allowed(post')
  BY <1>1, <1>2 DEF Allowed, IsPlayer
<1>4. Checked(post') /\ Addressed(post')
  BY <1>1, <1>2, <1>3 DEF Checked, Addressed
<1>5. PostInv'
  BY <1>4 DEF PostInv, Checked, Addressed, Allowed, IsPlayer, Listens, LeaderFor, Bloc
<1>6. ChatTypes' /\ CoalitionHears'
  BY <1>1, <1>2 DEF ChatInv, ChatTypes, CoalitionHears
<1> QED
  BY <1>5, <1>6 DEF ChatInv

LEMMA FanoutStep == ASSUME ChatInv, Fanout PROVE ChatInv'
<1>1. CASE post' = NoPost /\ UNCHANGED <<allied, seen>>
  BY <1>1 DEF ChatInv, ChatTypes, PostInv, CoalitionHears
<1>2. ASSUME NEW c \in Conns, Listens(c, post.scope), UNCHANGED <<allied, seen>>,
             post' = [stage |-> "sent", by |-> post.by, slot |-> post.slot, scope |-> post.scope,
                      view |-> post.view, stored |-> post.stored, to |-> c, agreed |-> FALSE]
      PROVE  ChatInv'
  <2>1. post \in Early /\ post.stage = "fanout" /\ Checked(post)
    BY DEF ChatInv, ChatTypes, PostInv, Fanout, Late
  <2>2. post' \in Late
    BY <1>2, <2>1 DEF Early, Late
  <2>3. /\ post'.stage = "sent" /\ post'.stored = post.stored /\ post'.to = c
        /\ post'.by = post.by /\ post'.slot = post.slot /\ post'.scope = post.scope /\ post'.view = post.view
    BY <1>2
  <2>4. Allowed(post')
    BY <2>1, <2>3 DEF Checked, Allowed, IsPlayer
  <2>5. Checked(post') /\ Addressed(post')
    BY <1>2, <2>1, <2>3, <2>4 DEF Checked, Addressed
  <2>6. PostInv'
    BY <2>5 DEF PostInv, Checked, Addressed, Allowed, IsPlayer, Listens, LeaderFor, Bloc
  <2>7. ChatTypes' /\ CoalitionHears'
    BY <1>2, <2>2, <2>3 DEF ChatInv, ChatTypes, CoalitionHears
  <2> QED
    BY <2>6, <2>7 DEF ChatInv
<1> QED
  BY <1>1, <1>2 DEF Fanout

\* Here the reader's leader meets the author's.
LEMMA DeliverStep == ASSUME ChatInv, Deliver PROVE ChatInv'
<1> DEFINE stage == IF Passes(post.to, post.scope) THEN "heard" ELSE "filtered"
           agreed == (seen[post.to] = post.view)
<1>1. post \in Late /\ Checked(post) /\ Addressed(post) /\ post.stage = "sent"
      /\ UNCHANGED <<allied, seen>> /\ post' = [post EXCEPT !.stage = stage, !.agreed = agreed]
  BY DEF ChatInv, ChatTypes, PostInv, Deliver, Early, Late
<1>2. stage \in {"heard", "filtered"} /\ agreed \in BOOLEAN
      /\ (stage = "heard" <=> Passes(post.to, post.scope))
  OBVIOUS
<1> HIDE DEF stage
<1>3. /\ post' \in Late /\ post'.stage = stage /\ post'.agreed = agreed /\ post'.stored = post.stored
      /\ post'.by = post.by /\ post'.slot = post.slot /\ post'.scope = post.scope
      /\ post'.view = post.view /\ post'.to = post.to
  BY <1>1, <1>2 DEF Late
<1>4. Allowed(post')
  BY <1>1, <1>3 DEF Checked, Allowed, IsPlayer
<1>5. Checked(post') /\ Addressed(post')
  BY <1>1, <1>2, <1>3, <1>4 DEF Checked, Addressed
<1>6. PostInv'
  BY <1>5 DEF PostInv, Checked, Addressed, Allowed, IsPlayer, Listens, LeaderFor, Bloc
<1>7. ChatTypes'
  BY <1>1, <1>3 DEF ChatInv, ChatTypes
<1>8. ASSUME post.scope.kind = "coal", post.view # NoView, agreed
      PROVE  stage = "heard" <=> post.to.slot \in Bloc(post.slot, post.view)
  <2>1. post.to \in Conns /\ post.slot \in Slots /\ post.scope.lead = LeaderFor(post.slot, post.view)
        /\ seen[post.to] = post.view /\ post.view \in Views
    BY <1>1, <1>8 DEF Checked, Late
  <2>2. Bloc(post.slot, post.view) \subseteq Slots
    BY <2>1, BlocContains
  <2>3. stage = "heard" <=> Lead(post.to) # NoSlot /\ post.scope.lead = Lead(post.to)
    BY <1>2, <1>8 DEF Passes
  <2>4. CASE post.to.slot = NoSlot
    <3>1. Lead(post.to) = NoSlot
      BY <2>1, <2>4, LeadIsSlot DEF ChatInv
    <3> QED
      BY <2>2, <2>3, <2>4, <3>1, SeatsAssumption
  <2>5. CASE post.to.slot \in Slots
    <3>1. Lead(post.to) = LeaderFor(post.to.slot, post.view) /\ Lead(post.to) # NoSlot
      BY <1>8, <2>1, <2>5, LeadIsSlot DEF ChatInv
    <3>2. LeaderFor(post.slot, post.view) = LeaderFor(post.to.slot, post.view)
             <=> post.to.slot \in Bloc(post.slot, post.view)
      BY <2>1, <2>5, LeaderNamesBloc
    <3> QED
      BY <2>1, <2>3, <3>1, <3>2
  <2> QED
    BY <2>1, <2>4, <2>5, LeadIsSlot DEF ChatInv, AnySlot
<1>9. CoalitionHears'
  BY <1>3, <1>8 DEF CoalitionHears, Bloc
<1> QED
  BY <1>6, <1>7, <1>9 DEF ChatInv

\* The match goes on.
LEMMA ViewStep ==
    ASSUME ChatInv, \/ \E p \in MayAlly : Diplomacy(p)
                    \/ \E c \in Conns : Peek(c)
    PROVE  ChatInv'
<1>1. post' = post
  BY DEF Diplomacy, Peek
<1>2. allied' \in Views /\ seen' \in [Conns -> Views \cup {NoView}]
  BY DEF ChatInv, ChatTypes, Diplomacy, Peek, Views
<1>3. PostInv' /\ CoalitionHears'
  BY <1>1 DEF ChatInv, PostInv, Checked, Addressed, Allowed, IsPlayer, Listens, CoalitionHears
<1> QED
  BY <1>1, <1>2, <1>3 DEF ChatInv, ChatTypes

LEMMA ChatInvInit == CInit => ChatInv
BY DEF CInit, ChatInv, ChatTypes, PostInv, CoalitionHears, Views

LEMMA ChatInvStep == ChatInv /\ [CNext]_chatVars => ChatInv'
<1> SUFFICES ASSUME ChatInv, [CNext]_chatVars PROVE ChatInv'
  OBVIOUS
<1>1. CASE UNCHANGED chatVars
  BY <1>1 DEF chatVars, ChatInv, ChatTypes, PostInv, Checked, Addressed, Allowed, IsPlayer, Listens,
              CoalitionHears
<1>2. ASSUME NEW u \in Users, NEW v \in Users, NEW s \in Slots,
             SayOverHttp(u, NoSlot, DM(u, v)) \/ SayOverHttp(u, s, Coal(s))
      PROVE  ChatInv'
  <2>1. DM(u, v) \in Scopes /\ Coal(s) \in Scopes /\ NoSlot \in AnySlot /\ s \in AnySlot
    BY DEF Scopes, AnySlot
  <2> QED
    BY <1>2, <2>1, SayOverHttpStep
<1>3. CASE CNext
  BY <1>2, <1>3, SayStep, ForgetStep, StoreStep, FanoutStep, DeliverStep, ViewStep DEF CNext
<1> QED
  BY <1>1, <1>3

LEMMA ChatInvariant == CSpec => []ChatInv
BY ChatInvInit, ChatInvStep, PTL DEF CSpec

\* The gateway's filter by leader is the coalition itself: two slots compute the
\* same leader exactly if a chain of alliances joins them.
THEOREM ChatCoalitionHears == CSpec => []CoalitionHears
<1>1. ChatInv => CoalitionHears
  BY DEF ChatInv
<1> QED
  BY <1>1, ChatInvariant, PTL

\* Nothing is heard that was not checked and stored first, or by anybody it was
\* not meant for.
THEOREM ChatHeardIsOnRecord == CSpec => []HeardIsOnRecord
<1>1. ChatInv => HeardIsOnRecord
  BY DEF ChatInv, PostInv, Checked, Addressed, Allowed, IsPlayer, Listens, HeardIsOnRecord
<1> QED
  BY <1>1, ChatInvariant, PTL

==============================================================================
