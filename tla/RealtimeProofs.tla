---------------------------- MODULE RealtimeProofs ----------------------------
(***************************************************************************)
(* Proofs about subscriptions, for any streams, publishers, tickets,       *)
(* tokens, collections, limits, window and bounds.                         *)
(*                                                                         *)
(* A stream holds slots only between its acquisition and its release       *)
(* (QuotaInv).  Who counts as a member of a stream was one when it was     *)
(* last verified, or claimed to be when it connected, and a publisher that *)
(* has read a member read one that still was (MembersInv).                 *)
(***************************************************************************)
EXTENDS Realtime, FiniteSetTheorems, TLAPS

\* The counters are what the streams hold, and only a stream that was admitted
\* and not released yet holds anything.
QuotaInv ==
  /\ \A k \in Slots : IsFiniteSet(Holders(k))
  /\ QuotaCounted
  /\ \A s \in Streams : stage[s] \in {"idle", "admitted", "ended"} => slots[s] = {}

\* A client's user was a member when verified, or the client claimed so when it
\* was made; a user that is one has not changed.
MembersInv ==
  /\ user = "member" => changedAt = Never
  /\ \A s \in Streams : verifiedAt[s] <= now
  /\ \A s \in Streams :
       identity[s] = "member" /\ ~client[s].admin =>
         verifiedAt[s] <= changedAt \/ verifiedAt[s] = client[s].opened
  /\ \A p \in Publishers : reading[p] # NoStream /\ read[p] = "member" => now <= changedAt

RealtimeInv == TypeOK /\ QuotaInv /\ MembersInv

-----------------------------------------------------------------------------
(* Types *)

StreamsTyped ==
  /\ stage \in [Streams -> {"idle", "admitted", "acquired", "open", "leaving",
                            "unsubscribed", "ended"}]
  /\ client \in [Streams -> Clients]
  /\ identity \in [Streams -> Identities]
  /\ verifiedAt \in [Streams -> Nat]
  /\ queued \in [Streams -> 0..Buffer]
  /\ disconnect \in [Streams -> {"none", "auth_expired", "slow_consumer"}]
  /\ closed \in [Streams -> BOOLEAN]
  /\ slots \in [Streams -> SUBSET Slots]
  /\ lost \in SUBSET Streams

HubTyped ==
  /\ subscribers \in SUBSET Streams
  /\ active \in [Slots -> Nat]
  /\ limiter \in Settings
  /\ ticket \in [Tickets -> TicketRows \cup {Unissued, Gone}]
  /\ revoked \in SUBSET Tokens
  /\ revoking \in Tokens \cup {NoToken}
  /\ notified \in SUBSET Streams
  /\ user \in {"member", "demoted", "deleted"}
  /\ changedAt \in 0..Never
  /\ faults \in 0..MaxFaults
  /\ now \in 0..MaxTime

PublishersTyped ==
  /\ event \in [Publishers -> Events \cup {NoEvent}]
  /\ targets \in [Publishers -> SUBSET Streams]
  /\ reading \in [Publishers -> Streams \cup {NoStream}]
  /\ read \in [Publishers -> Identities]
  /\ published \in 0..MaxEvents

LEMMA TypeParts ==
  /\ TypeOK => StreamsTyped /\ HubTyped /\ PublishersTyped
  /\ StreamsTyped' /\ HubTyped' /\ PublishersTyped' => TypeOK'
  BY DEF TypeOK, StreamsTyped, HubTyped, PublishersTyped

LEMMA NewClientTyped ==
  ASSUME TypeOK, NEW s \in Streams, NEW adm \in BOOLEAN, NEW t \in Tokens \cup {NoToken},
         NEW exp \in {NoExpiry, TokenExpires}, NEW id \in Identities,
         NewClient(s, adm, t, exp, id)
  PROVE  StreamsTyped'
<1> USE RealtimeAssumption
<1>1. PICK topic \in Topics :
        client' = [client EXCEPT ![s] = [admin |-> adm, token |-> t, expires |-> exp,
                                         topic |-> topic, opened |-> now]]
  BY DEF NewClient
<1>2. now \in Nat
  BY DEF TypeOK
<1>3. [admin |-> adm, token |-> t, expires |-> exp, topic |-> topic, opened |-> now] \in Clients
  BY <1>1, <1>2 DEF Clients
<1>4. client' \in [Streams -> Clients]
  BY <1>1, <1>3 DEF TypeOK
<1> QED
  BY <1>2, <1>4, TypeParts DEF NewClient, StreamsTyped

LEMMA ReachTyped ==
  ASSUME TypeOK, NEW p \in Publishers, NEW s \in Streams, NEW sends, NEW told,
         Reach(p, s, sends, told)
  PROVE  /\ queued' \in [Streams -> 0..Buffer]
         /\ disconnect' \in [Streams -> {"none", "auth_expired", "slow_consumer"}]
         /\ lost' \in SUBSET Streams
         /\ targets' \in [Publishers -> SUBSET Streams]
<1> USE RealtimeAssumption DEF TypeOK, Reach
<1>1. queued' \in [Streams -> 0..Buffer]
  <2>1. CASE Enqueues(s, sends)
    <3>1. queued[s] + 1 \in 0..Buffer
      BY <2>1 DEF Enqueues
    <3> QED
      BY <2>1, <3>1
  <2>2. CASE ~Enqueues(s, sends)
    BY <2>2
  <2> QED
    BY <2>1, <2>2
<1>2. disconnect' \in [Streams -> {"none", "auth_expired", "slow_consumer"}]
  BY DEF DisconnectReason
<1>3. lost' \in SUBSET Streams /\ targets' \in [Publishers -> SUBSET Streams]
  BY DEF Overflows
<1> QED
  BY <1>1, <1>2, <1>3

LEMMA IssueTicketTyped ==
  ASSUME TypeOK, NEW k \in Tickets, NEW adm \in BOOLEAN, NEW t \in Tokens \cup {NoToken},
         IssueTicket(k, adm, t)
  PROVE  ticket' \in [Tickets -> TicketRows \cup {Unissued, Gone}]
<1>1. BearerExpires \in {NoExpiry, TokenExpires}
  BY DEF BearerExpires
<1>2. now + TicketTTL \in Nat
  BY RealtimeAssumption DEF TypeOK
<1>3. [admin |-> adm, token |-> t,
       expires |-> IF t = NoToken THEN NoExpiry ELSE BearerExpires,
       until |-> now + TicketTTL] \in TicketRows
  BY <1>1, <1>2 DEF TicketRows
<1>4. CleanupExpired \in [Tickets -> TicketRows \cup {Unissued, Gone}]
  BY DEF CleanupExpired, TypeOK
<1> QED
  BY <1>3, <1>4 DEF IssueTicket

LEMMA TypeNext == ASSUME TypeOK, [Next]_vars PROVE TypeOK'
<1> USE RealtimeAssumption
<1>1. ASSUME UNCHANGED streamVars PROVE StreamsTyped'
  BY <1>1, TypeParts DEF streamVars, StreamsTyped
<1>2. ASSUME UNCHANGED publishVars PROVE PublishersTyped'
  BY <1>2, TypeParts DEF publishVars, PublishersTyped
<1>3. ASSUME UNCHANGED <<limitVars, ticket, revokeVars, userVars, faults, now>>,
             subscribers' \in SUBSET Streams
      PROVE  HubTyped'
  BY <1>3, TypeParts DEF limitVars, revokeVars, userVars, HubTyped
<1>4. CASE CreateTicket
  <2>1. ticket' \in [Tickets -> TicketRows \cup {Unissued, Gone}]
    BY <1>4, IssueTicketTyped DEF CreateTicket
  <2>2. HubTyped'
    BY <1>4, <2>1, TypeParts DEF CreateTicket, limitVars, revokeVars, userVars, HubTyped
  <2> QED
    BY <1>1, <1>2, <1>4, <2>2, TypeParts DEF CreateTicket
<1>5. ASSUME NEW s \in Streams, Connect(s) PROVE TypeOK'
  <2>1. BearerExpires \in {NoExpiry, TokenExpires}
    BY DEF BearerExpires
  <2>2. ASSUME NEW k \in Tickets, ConsumeTicket(s, k)
        PROVE  StreamsTyped' /\ ticket' \in [Tickets -> TicketRows \cup {Unissued, Gone}]
    <3>1. /\ ticket[k].admin \in BOOLEAN /\ ticket[k].token \in Tokens \cup {NoToken}
          /\ ticket[k].expires \in {NoExpiry, TokenExpires}
      BY <2>2 DEF ConsumeTicket, TicketRows
    <3>2. StreamsTyped'
      BY <2>2, <3>1, NewClientTyped DEF ConsumeTicket, Identities
    <3> QED
      BY <2>2, <3>2 DEF ConsumeTicket, TypeOK
  <2>3. ASSUME NEW t \in Tokens, NewClient(s, FALSE, t, BearerExpires, BearerIdentity(t))
        PROVE  StreamsTyped'
    BY <2>1, <2>3, NewClientTyped DEF BearerIdentity, Identities
  <2>4. ASSUME NEW t \in Tokens, NewClient(s, TRUE, t, BearerExpires, "guest")
        PROVE  StreamsTyped'
    BY <2>1, <2>4, NewClientTyped DEF Identities
  <2>5. ASSUME NEW adm \in BOOLEAN, NewClient(s, adm, NoToken, NoExpiry, "guest")
        PROVE  StreamsTyped'
    BY <2>5, NewClientTyped DEF Identities
  <2>6. StreamsTyped' /\ ticket' \in [Tickets -> TicketRows \cup {Unissued, Gone}]
    BY <1>5, <2>2, <2>3, <2>4, <2>5, TypeParts DEF Connect, HubTyped
  <2>7. HubTyped'
    BY <1>5, <2>6, TypeParts DEF Connect, limitVars, revokeVars, userVars, HubTyped
  <2> QED
    BY <1>2, <1>5, <2>6, <2>7, TypeParts DEF Connect
<1>6. ASSUME NEW s \in Streams, AcquireRealtimeConnection(s) PROVE TypeOK'
  <2>1. StreamsTyped'
    BY <1>6, TypeParts DEF AcquireRealtimeConnection, SlotsOf, Slots, StreamsTyped
  <2>2. HubTyped'
    BY <1>6, TypeParts DEF AcquireRealtimeConnection, revokeVars, userVars, HubTyped
  <2> QED
    BY <1>2, <1>6, <2>1, <2>2, TypeParts DEF AcquireRealtimeConnection
<1>7. ASSUME NEW s \in Streams, TooManyConnections(s) PROVE TypeOK'
  <2>1. StreamsTyped'
    BY <1>7, TypeParts DEF TooManyConnections, StreamsTyped
  <2> QED
    BY <1>2, <1>3, <1>7, <2>1, TypeParts DEF TooManyConnections, HubTyped
<1>8. ASSUME NEW s \in Streams, Subscribe(s) \/ Unsubscribe(s) PROVE TypeOK'
  <2>1. StreamsTyped'
    BY <1>8, TypeParts DEF Subscribe, Unsubscribe, StreamsTyped
  <2> QED
    BY <1>2, <1>3, <1>8, <2>1, TypeParts DEF Subscribe, Unsubscribe, HubTyped
<1>9. ASSUME NEW s \in Streams, Release(s) PROVE TypeOK'
  <2>1. StreamsTyped'
    BY <1>9, TypeParts DEF Release, StreamsTyped
  <2>2. active' \in [Slots -> Nat]
    BY <1>9 DEF Release, TypeOK
  <2>3. HubTyped'
    BY <1>9, <2>2, TypeParts DEF Release, revokeVars, userVars, HubTyped
  <2> QED
    BY <1>2, <1>9, <2>1, <2>3, TypeParts DEF Release
<1>10. ASSUME NEW s \in Streams, Collect(s) PROVE TypeOK'
  <2>1. NoClient \in Clients
    BY DEF NoClient, Clients
  <2>2. StreamsTyped'
    BY <1>10, <2>1, TypeParts DEF Collect, Identities, StreamsTyped
  <2> QED
    BY <1>2, <1>3, <1>10, <2>2, TypeParts DEF Collect, HubTyped
<1>11. ASSUME NEW s \in Streams,
              ConnectionFails(s) \/ ReceiveDisconnect(s) \/ Heartbeat(s)
       PROVE  TypeOK'
  <2>1. Leave(s)
    BY <1>11 DEF ConnectionFails, ReceiveDisconnect, Heartbeat
  <2>2. /\ queued' = queued
        /\ disconnect' \in {disconnect, [disconnect EXCEPT ![s] = "none"]}
    BY <1>11 DEF ConnectionFails, ReceiveDisconnect, Heartbeat
  <2>3. StreamsTyped'
    BY <2>1, <2>2, TypeParts DEF Leave, StreamsTyped
  <2> QED
    BY <1>2, <1>3, <2>1, <2>3, TypeParts DEF Leave, HubTyped
<1>12. ASSUME NEW s \in Streams, Deliver(s) PROVE TypeOK'
  <2>1. queued[s] - 1 \in 0..Buffer
    BY <1>12 DEF Deliver, TypeOK
  <2>2. queued' \in [Streams -> 0..Buffer]
    BY <1>12, <2>1 DEF Deliver, TypeOK
  <2>3. StreamsTyped'
    BY <1>12, <2>2, TypeParts DEF Deliver, StreamsTyped
  <2> QED
    BY <1>2, <1>3, <1>12, <2>3, TypeParts DEF Deliver, HubTyped
<1>13. CASE ReloadRateLimiter
  <2>1. HubTyped'
    BY <1>13, TypeParts DEF ReloadRateLimiter, revokeVars, userVars, HubTyped
  <2> QED
    BY <1>1, <1>2, <1>13, <2>1, TypeParts DEF ReloadRateLimiter
<1>14. CASE RevokeToken \/ LearnRevocation \/ DisconnectToken
  <2>1. HubTyped'
    BY <1>14, TypeParts DEF RevokeToken, LearnRevocation, DisconnectToken, limitVars, userVars,
       HubTyped
  <2> QED
    BY <1>1, <1>2, <1>14, <2>1, TypeParts DEF RevokeToken, LearnRevocation, DisconnectToken
<1>15. ASSUME NEW s \in Streams, DisconnectTarget(s) PROVE TypeOK'
  <2>1. StreamsTyped'
    BY <1>15, TypeParts DEF DisconnectTarget, DisconnectReason, StreamsTyped
  <2>2. HubTyped'
    BY <1>15, TypeParts DEF DisconnectTarget, limitVars, userVars, HubTyped
  <2> QED
    BY <1>2, <1>15, <2>1, <2>2, TypeParts DEF DisconnectTarget
<1>16. CASE ChangeUser
  <2>1. HubTyped'
    BY <1>16, TypeParts DEF ChangeUser, limitVars, revokeVars, Never, HubTyped
  <2> QED
    BY <1>1, <1>2, <1>16, <2>1, TypeParts DEF ChangeUser
<1>17. ASSUME NEW p \in Publishers, Publish(p) PROVE TypeOK'
  <2>1. PublishersTyped'
    BY <1>17, TypeParts DEF Publish, PublishersTyped, HubTyped
  <2> QED
    BY <1>1, <1>3, <1>17, <2>1, TypeParts DEF Publish, HubTyped
<1>18. ASSUME NEW p \in Publishers, PublishReturns(p) PROVE TypeOK'
  <2>1. PublishersTyped'
    BY <1>18, TypeParts DEF PublishReturns, PublishersTyped
  <2> QED
    BY <1>1, <1>3, <1>18, <2>1, TypeParts DEF PublishReturns, HubTyped
<1>19. ASSUME NEW p \in Publishers, NEW s \in Streams, ReachClient(p, s) PROVE TypeOK'
  <2>1. PICK sends, told : Reach(p, s, sends, told)
    BY <1>19 DEF ReachClient
  <2>2. StreamsTyped'
    BY <1>19, <2>1, ReachTyped, TypeParts DEF ReachClient, Reach, StreamsTyped
  <2>3. PublishersTyped'
    BY <1>19, <2>1, ReachTyped, TypeParts DEF ReachClient, Reach, PublishersTyped
  <2>4. HubTyped'
    BY <1>3, <1>19, <2>1, TypeParts DEF ReachClient, Reach, HubTyped
  <2> QED
    BY <2>2, <2>3, <2>4, TypeParts
<1>20. ASSUME NEW p \in Publishers, NEW s \in Streams, ReadUser(p, s) PROVE TypeOK'
  <2>1. PublishersTyped'
    BY <1>20, TypeParts DEF ReadUser, Identities, HubTyped, PublishersTyped
  <2>2. HubTyped'
    BY <1>20, TypeParts DEF ReadUser, limitVars, revokeVars, userVars, HubTyped
  <2> QED
    BY <1>1, <1>20, <2>1, <2>2, TypeParts DEF ReadUser
<1>21. ASSUME NEW p \in Publishers, ReachWithUser(p) PROVE TypeOK'
  <2>1. PICK s \in Streams : s = reading[p]
    BY <1>21, TypeParts DEF ReachWithUser, PublishersTyped
  <2>2. PICK sends, told : Reach(p, s, sends, told)
    BY <1>21, <2>1 DEF ReachWithUser
  <2>3. identity' \in [Streams -> Identities] /\ verifiedAt' \in [Streams -> Nat]
    BY <1>21, <2>1 DEF ReachWithUser, TypeOK
  <2>4. StreamsTyped'
    BY <2>2, <2>3, ReachTyped, TypeParts DEF Reach, StreamsTyped
  <2>5. PublishersTyped'
    BY <1>21, <2>2, ReachTyped, TypeParts DEF ReachWithUser, Reach, Identities, PublishersTyped
  <2>6. HubTyped'
    BY <1>3, <1>21, <2>2, TypeParts DEF ReachWithUser, Reach, HubTyped
  <2> QED
    BY <2>4, <2>5, <2>6, TypeParts
<1>22. CASE Tick
  <2>1. HubTyped'
    BY <1>22, TypeParts DEF Tick, limitVars, revokeVars, userVars, HubTyped
  <2> QED
    BY <1>1, <1>2, <1>22, <2>1, TypeParts DEF Tick
<1>23. CASE UNCHANGED vars
  BY <1>1, <1>2, <1>3, <1>23, TypeParts DEF vars, HubTyped
<1> QED
  BY <1>4, <1>5, <1>6, <1>7, <1>8, <1>9, <1>10, <1>11, <1>12, <1>13, <1>14, <1>15, <1>16, <1>17,
     <1>18, <1>19, <1>20, <1>21, <1>22, <1>23
  DEF Next, Handler, Publishing

-----------------------------------------------------------------------------
(* The quota *)

\* Slots are taken by AcquireRealtimeConnection and given back by Release.
LEMMA SlotStep ==
  ASSUME [Next]_vars
  PROVE  \/ UNCHANGED <<active, slots>>
         \/ \E s \in Streams : AcquireRealtimeConnection(s) \/ Release(s)
<1> DEFINE Others == \/ UNCHANGED <<active, slots>>
                    \/ \E s \in Streams : AcquireRealtimeConnection(s) \/ Release(s)
<1>1. ASSUME NEW s \in Streams, Connect(s) \/ Handler(s) \/ Collect(s) PROVE Others
  BY <1>1 DEF Connect, NewClient, ConsumeTicket, Handler, AcquireRealtimeConnection,
              TooManyConnections, Subscribe, Unsubscribe, Release, Collect, streamVars, limitVars
<1>2. ASSUME NEW s \in Streams, \/ ConnectionFails(s) \/ ReceiveDisconnect(s) \/ Heartbeat(s)
                               \/ Deliver(s) \/ DisconnectTarget(s)
      PROVE  Others
  BY <1>2 DEF ConnectionFails, ReceiveDisconnect, Heartbeat, Leave, Deliver, DisconnectTarget,
              streamVars, limitVars
<1>3. ASSUME NEW p \in Publishers, Publish(p) \/ Publishing(p) PROVE Others
  BY <1>3 DEF Publish, Publishing, PublishReturns, ReachClient, Reach, ReadUser, ReachWithUser,
              streamVars, limitVars
<1>4. CASE \/ CreateTicket \/ ReloadRateLimiter \/ RevokeToken \/ LearnRevocation
           \/ DisconnectToken \/ ChangeUser \/ Tick \/ UNCHANGED vars
  BY <1>4 DEF CreateTicket, ReloadRateLimiter, RevokeToken, LearnRevocation, DisconnectToken,
              ChangeUser, Tick, vars, streamVars, limitVars
<1> QED
  BY <1>1, <1>2, <1>3, <1>4 DEF Next

LEMMA StagesStep ==
  ASSUME [Next]_vars
  PROVE  \/ UNCHANGED stage
         \/ \E r \in Streams :
              \/ Connect(r) \/ AcquireRealtimeConnection(r) \/ TooManyConnections(r) \/ Subscribe(r)
              \/ Unsubscribe(r) \/ Leave(r) \/ Collect(r) \/ Release(r)
<1> DEFINE Others ==
      \/ UNCHANGED stage
      \/ \E r \in Streams :
           \/ Connect(r) \/ AcquireRealtimeConnection(r) \/ TooManyConnections(r) \/ Subscribe(r)
           \/ Unsubscribe(r) \/ Leave(r) \/ Collect(r) \/ Release(r)
<1>1. ASSUME NEW s \in Streams, Connect(s) \/ Handler(s) \/ Collect(s) PROVE Others
  BY <1>1 DEF Handler
<1>2. ASSUME NEW s \in Streams, \/ ConnectionFails(s) \/ ReceiveDisconnect(s) \/ Heartbeat(s)
                               \/ Deliver(s) \/ DisconnectTarget(s)
      PROVE  Others
  BY <1>2 DEF ConnectionFails, ReceiveDisconnect, Heartbeat, Leave, Deliver, DisconnectTarget,
              streamVars
<1>3. ASSUME NEW p \in Publishers, Publish(p) \/ Publishing(p) PROVE Others
  BY <1>3 DEF Publish, Publishing, PublishReturns, ReachClient, Reach, ReadUser, ReachWithUser,
              streamVars
<1>4. CASE \/ CreateTicket \/ ReloadRateLimiter \/ RevokeToken \/ LearnRevocation
           \/ DisconnectToken \/ ChangeUser \/ Tick \/ UNCHANGED vars
  BY <1>4 DEF CreateTicket, ReloadRateLimiter, RevokeToken, LearnRevocation, DisconnectToken,
              ChangeUser, Tick, vars, streamVars
<1> QED
  BY <1>1, <1>2, <1>3, <1>4 DEF Next

\* Any other step leaves a stream that holds nothing without a way to hold some.
LEMMA StageStep ==
  ASSUME TypeOK, [Next]_vars, NEW s \in Streams, UNCHANGED slots,
         stage'[s] \in {"idle", "admitted", "ended"}
  PROVE  stage[s] \in {"idle", "admitted", "ended"} \/ slots'[s] = {}
<1>1. CASE stage'[s] = stage[s]
  BY <1>1
<1>2. ASSUME NEW r \in Streams, Connect(r)
      PROVE  stage[s] \in {"idle", "admitted", "ended"}
  BY <1>2 DEF Connect, NewClient, ConsumeTicket, TypeOK
<1>3. ASSUME NEW r \in Streams, AcquireRealtimeConnection(r) \/ TooManyConnections(r)
      PROVE  stage[s] \in {"idle", "admitted", "ended"}
  BY <1>3 DEF AcquireRealtimeConnection, TooManyConnections, TypeOK
<1>4. ASSUME NEW r \in Streams, Subscribe(r) \/ Unsubscribe(r) \/ Leave(r) \/ Collect(r)
      PROVE  stage[s] \in {"idle", "admitted", "ended"}
  BY <1>4 DEF Subscribe, Unsubscribe, Leave, Collect, TypeOK
<1>5. ASSUME NEW r \in Streams, Release(r)
      PROVE  stage[s] \in {"idle", "admitted", "ended"} \/ slots'[s] = {}
  BY <1>5 DEF Release, TypeOK
<1> QED
  BY <1>1, <1>2, <1>3, <1>4, <1>5, StagesStep

LEMMA QuotaNext == ASSUME TypeOK, QuotaInv, [Next]_vars PROVE QuotaInv'
<1> USE RealtimeAssumption
<1>1. ASSUME NEW k \in Slots
      PROVE  /\ IsFiniteSet(Holders(k)) /\ active[k] = Cardinality(Holders(k))
             /\ active[k] <= Cap[k] /\ active[k] \in Nat /\ Cap[k] \in Nat
  BY DEF QuotaInv, QuotaCounted, TypeOK
<1>2. CASE UNCHANGED <<active, slots>>
  <2>1. \A k \in Slots : Holders(k)' = Holders(k)
    BY <1>2 DEF Holders
  <2>2. \A s \in Streams : stage'[s] \in {"idle", "admitted", "ended"} => slots'[s] = {}
    BY <1>2, StageStep DEF QuotaInv
  <2> QED
    BY <1>1, <1>2, <2>1, <2>2 DEF QuotaInv, QuotaCounted
<1>3. ASSUME NEW s \in Streams, AcquireRealtimeConnection(s) PROVE QuotaInv'
  <2>1. slots[s] = {}
    BY <1>3 DEF AcquireRealtimeConnection, QuotaInv
  <2>2. slots' = [slots EXCEPT ![s] = SlotsOf(s)] /\ stage' = [stage EXCEPT ![s] = "acquired"]
    BY <1>3 DEF AcquireRealtimeConnection
  <2>3. ASSUME NEW k \in Slots
        PROVE  /\ IsFiniteSet(Holders(k)') /\ active'[k] = Cardinality(Holders(k)')
               /\ active'[k] <= Cap[k]
    <3>1. CASE k \in SlotsOf(s)
      <4>1. Holders(k)' = Holders(k) \cup {s} /\ s \notin Holders(k)
        BY <2>1, <2>2, <3>1 DEF Holders, TypeOK
      <4>2. IsFiniteSet(Holders(k)') /\ Cardinality(Holders(k)') = Cardinality(Holders(k)) + 1
        BY <1>1, <4>1, FS_AddElement
      <4>3. active'[k] = active[k] + 1 /\ active[k] < Cap[k]
        BY <1>3, <3>1 DEF AcquireRealtimeConnection, HasRoom
      <4> QED
        BY <1>1, <4>2, <4>3
    <3>2. CASE k \notin SlotsOf(s)
      <4>1. Holders(k)' = Holders(k)
        BY <2>1, <2>2, <3>2 DEF Holders, TypeOK
      <4>2. active'[k] = active[k]
        BY <1>3, <3>2 DEF AcquireRealtimeConnection
      <4> QED
        BY <1>1, <4>1, <4>2
    <3> QED
      BY <3>1, <3>2
  <2>4. \A r \in Streams : stage'[r] \in {"idle", "admitted", "ended"} => slots'[r] = {}
    BY <2>2 DEF QuotaInv, TypeOK
  <2> QED
    BY <2>3, <2>4 DEF QuotaInv, QuotaCounted
<1>4. ASSUME NEW s \in Streams, Release(s) PROVE QuotaInv'
  <2>1. slots' = [slots EXCEPT ![s] = {}] /\ stage' = [stage EXCEPT ![s] = "ended"]
    BY <1>4 DEF Release
  <2>2. ASSUME NEW k \in Slots
        PROVE  /\ IsFiniteSet(Holders(k)') /\ active'[k] = Cardinality(Holders(k)')
               /\ active'[k] <= Cap[k]
    <3>1. Holders(k)' = Holders(k) \ {s}
      BY <2>1 DEF Holders, TypeOK
    <3>2. /\ IsFiniteSet(Holders(k)')
          /\ Cardinality(Holders(k)') =
               IF s \in Holders(k) THEN Cardinality(Holders(k)) - 1 ELSE Cardinality(Holders(k))
      <4> DEFINE H == Holders(k)
      <4>1. IsFiniteSet(H)
        BY <1>1
      <4> HIDE DEF H
      <4>2. /\ IsFiniteSet(H \ {s})
            /\ Cardinality(H \ {s}) = IF s \in H THEN Cardinality(H) - 1 ELSE Cardinality(H)
        BY <4>1, FS_RemoveElement
      <4> QED
        BY <3>1, <4>2 DEF H
    <3>3. Cardinality(Holders(k)') \in Nat
      BY <3>2, FS_CardinalityType
    <3>4. active'[k] = IF k \in slots[s] /\ active[k] > 0 THEN active[k] - 1 ELSE active[k]
      BY <1>4 DEF Release, ReleasedSlots
    <3>5. s \in Holders(k) <=> k \in slots[s]
      BY DEF Holders
    <3> QED
      BY <1>1, <3>2, <3>3, <3>4, <3>5
  <2>3. \A r \in Streams : stage'[r] \in {"idle", "admitted", "ended"} => slots'[r] = {}
    BY <2>1 DEF QuotaInv, TypeOK
  <2> QED
    BY <2>2, <2>3 DEF QuotaInv, QuotaCounted
<1> QED
  BY <1>2, <1>3, <1>4, SlotStep

-----------------------------------------------------------------------------
(* Members *)

\* What the rules make of a client changes when it connects, when a publisher
\* has read its user again, and when its name is given up.
LEMMA IdentityStep ==
  ASSUME [Next]_vars
  PROVE  \/ UNCHANGED <<identity, verifiedAt, client>>
         \/ \E s \in Streams : Connect(s) \/ Collect(s)
         \/ \E p \in Publishers : ReachWithUser(p)
<1> SUFFICES ASSUME ~\E s \in Streams : Connect(s) \/ Collect(s),
                    ~\E p \in Publishers : ReachWithUser(p)
             PROVE  UNCHANGED <<identity, verifiedAt, client>>
  OBVIOUS
<1>1. ASSUME NEW s \in Streams, AcquireRealtimeConnection(s) \/ TooManyConnections(s) \/ Release(s)
      PROVE  UNCHANGED <<identity, verifiedAt, client>>
  BY <1>1 DEF AcquireRealtimeConnection, TooManyConnections, Release, streamVars
<1>2. ASSUME NEW s \in Streams, Subscribe(s) \/ Unsubscribe(s) \/ Deliver(s) \/ DisconnectTarget(s)
      PROVE  UNCHANGED <<identity, verifiedAt, client>>
  BY <1>2 DEF Subscribe, Unsubscribe, Deliver, DisconnectTarget, streamVars
<1>3. ASSUME NEW s \in Streams, ConnectionFails(s) \/ ReceiveDisconnect(s) \/ Heartbeat(s)
      PROVE  UNCHANGED <<identity, verifiedAt, client>>
  BY <1>3 DEF ConnectionFails, ReceiveDisconnect, Heartbeat, Leave, streamVars
<1>4. ASSUME NEW p \in Publishers, Publish(p) \/ PublishReturns(p)
      PROVE  UNCHANGED <<identity, verifiedAt, client>>
  BY <1>4 DEF Publish, PublishReturns, streamVars
<1>5. ASSUME NEW p \in Publishers, NEW s \in Streams, ReachClient(p, s)
      PROVE  UNCHANGED <<identity, verifiedAt, client>>
  BY <1>5 DEF ReachClient, Reach, streamVars
<1>6. ASSUME NEW p \in Publishers, NEW s \in Streams, ReadUser(p, s)
      PROVE  UNCHANGED <<identity, verifiedAt, client>>
  BY <1>6 DEF ReadUser, streamVars
<1>7. CASE \/ CreateTicket \/ ReloadRateLimiter \/ RevokeToken \/ LearnRevocation
           \/ DisconnectToken \/ ChangeUser \/ Tick \/ UNCHANGED vars
  BY <1>7 DEF CreateTicket, ReloadRateLimiter, RevokeToken, LearnRevocation, DisconnectToken,
              ChangeUser, Tick, vars, streamVars
<1> QED
  BY <1>1, <1>2, <1>3, <1>4, <1>5, <1>6, <1>7 DEF Next, Handler, Publishing

\* The user's row is changed by ChangeUser alone.
LEMMA UserStep ==
  ASSUME [Next]_vars
  PROVE  UNCHANGED userVars \/ ChangeUser
<1> SUFFICES ASSUME ~ChangeUser PROVE UNCHANGED userVars
  OBVIOUS
<1>1. ASSUME NEW s \in Streams, Connect(s) \/ Collect(s)
      PROVE  UNCHANGED userVars
  BY <1>1 DEF Connect, NewClient, ConsumeTicket, Collect
<1>2. ASSUME NEW s \in Streams, AcquireRealtimeConnection(s) \/ TooManyConnections(s) \/ Release(s)
      PROVE  UNCHANGED userVars
  BY <1>2 DEF AcquireRealtimeConnection, TooManyConnections, Release
<1>3. ASSUME NEW s \in Streams, Subscribe(s) \/ Unsubscribe(s) \/ Deliver(s) \/ DisconnectTarget(s)
      PROVE  UNCHANGED userVars
  BY <1>3 DEF Subscribe, Unsubscribe, Deliver, DisconnectTarget
<1>4. ASSUME NEW s \in Streams, ConnectionFails(s) \/ ReceiveDisconnect(s) \/ Heartbeat(s)
      PROVE  UNCHANGED userVars
  BY <1>4 DEF ConnectionFails, ReceiveDisconnect, Heartbeat, Leave
<1>5. ASSUME NEW p \in Publishers, Publish(p) \/ PublishReturns(p)
      PROVE  UNCHANGED userVars
  BY <1>5 DEF Publish, PublishReturns
<1>6. ASSUME NEW p \in Publishers, NEW s \in Streams, ReachClient(p, s)
      PROVE  UNCHANGED userVars
  BY <1>6 DEF ReachClient, Reach
<1>7. ASSUME NEW p \in Publishers, NEW s \in Streams, ReadUser(p, s)
      PROVE  UNCHANGED userVars
  BY <1>7 DEF ReadUser
<1>8. ASSUME NEW p \in Publishers, ReachWithUser(p)
      PROVE  UNCHANGED userVars
  BY <1>8 DEF ReachWithUser, Reach
<1>9. CASE \/ CreateTicket \/ ReloadRateLimiter \/ RevokeToken \/ LearnRevocation
           \/ DisconnectToken \/ Tick \/ UNCHANGED vars
  BY <1>9 DEF CreateTicket, ReloadRateLimiter, RevokeToken, LearnRevocation, DisconnectToken,
              Tick, vars
<1> QED
  BY <1>1, <1>2, <1>3, <1>4, <1>5, <1>6, <1>7, <1>8, <1>9 DEF Next, Handler, Publishing

\* A publisher's reading of a user takes less than a tick.
LEMMA QueryStep ==
  ASSUME [Next]_vars
  PROVE  \/ \E p \in Publishers, s \in Streams : ReadUser(p, s)
         \/ \E p \in Publishers : ReachWithUser(p)
         \/ UNCHANGED <<reading, read, now>>
         \/ Tick
<1> SUFFICES ASSUME ~\E p \in Publishers, s \in Streams : ReadUser(p, s),
                    ~\E p \in Publishers : ReachWithUser(p), ~Tick
             PROVE  UNCHANGED <<reading, read, now>>
  OBVIOUS
<1>1. ASSUME NEW s \in Streams, Connect(s) \/ Collect(s)
      PROVE  UNCHANGED <<reading, read, now>>
  BY <1>1 DEF Connect, NewClient, ConsumeTicket, Collect, publishVars
<1>2. ASSUME NEW s \in Streams, AcquireRealtimeConnection(s) \/ TooManyConnections(s) \/ Release(s)
      PROVE  UNCHANGED <<reading, read, now>>
  BY <1>2 DEF AcquireRealtimeConnection, TooManyConnections, Release, publishVars
<1>3. ASSUME NEW s \in Streams, Subscribe(s) \/ Unsubscribe(s) \/ Deliver(s) \/ DisconnectTarget(s)
      PROVE  UNCHANGED <<reading, read, now>>
  BY <1>3 DEF Subscribe, Unsubscribe, Deliver, DisconnectTarget, publishVars
<1>4. ASSUME NEW s \in Streams, ConnectionFails(s) \/ ReceiveDisconnect(s) \/ Heartbeat(s)
      PROVE  UNCHANGED <<reading, read, now>>
  BY <1>4 DEF ConnectionFails, ReceiveDisconnect, Heartbeat, Leave, publishVars
<1>5. ASSUME NEW p \in Publishers, Publish(p) \/ PublishReturns(p)
      PROVE  UNCHANGED <<reading, read, now>>
  BY <1>5 DEF Publish, PublishReturns, publishVars
<1>6. ASSUME NEW p \in Publishers, NEW s \in Streams, ReachClient(p, s)
      PROVE  UNCHANGED <<reading, read, now>>
  BY <1>6 DEF ReachClient, Reach, publishVars
<1>7. CASE \/ CreateTicket \/ ReloadRateLimiter \/ RevokeToken \/ LearnRevocation
           \/ DisconnectToken \/ ChangeUser \/ UNCHANGED vars
  BY <1>7 DEF CreateTicket, ReloadRateLimiter, RevokeToken, LearnRevocation, DisconnectToken,
              ChangeUser, vars, publishVars
<1> QED
  BY <1>1, <1>2, <1>3, <1>4, <1>5, <1>6, <1>7 DEF Next, Handler, Publishing

LEMMA ReadingStep ==
  ASSUME TypeOK, [Next]_vars, NEW p \in Publishers, reading'[p] # NoStream
  PROVE  /\ now' = now
         /\ \/ reading'[p] = reading[p] /\ read'[p] = read[p]
            \/ UNCHANGED userVars /\ (read'[p] = "member" => user = "member")
<1>1. CASE \E q \in Publishers, s \in Streams : ReadUser(q, s)
  BY <1>1 DEF ReadUser, TypeOK
<1>2. CASE \E q \in Publishers : ReachWithUser(q)
  BY <1>2 DEF ReachWithUser, Reach, TypeOK
<1>3. CASE UNCHANGED <<reading, read, now>>
  BY <1>3
<1>4. CASE Tick
  BY <1>4 DEF Tick, publishVars
<1> QED
  BY <1>1, <1>2, <1>3, <1>4, QueryStep

LEMMA MembersNext == ASSUME TypeOK, TypeOK', MembersInv, [Next]_vars PROVE MembersInv'
<1> USE RealtimeAssumption
<1>1. now \in Nat /\ now <= MaxTime /\ changedAt \in Int
  BY DEF TypeOK
<1>2. user' = "member" => changedAt' = Never
  BY UserStep DEF MembersInv, userVars, ChangeUser
<1>3. changedAt' = changedAt \/ (changedAt = Never /\ changedAt' = now)
  BY UserStep DEF MembersInv, userVars, ChangeUser
<1>4. ASSUME NEW p \in Publishers, reading'[p] # NoStream, read'[p] = "member"
      PROVE  now' <= changedAt'
  BY <1>1, <1>2, <1>3, <1>4, ReadingStep DEF MembersInv, userVars, Never
<1>5. now' \in Nat /\ now <= now'
  <2>1. now' = now \/ now' = now + 1
    BY QueryStep DEF ReadUser, ReachWithUser, Reach, Tick
  <2> QED
    BY <1>1, <2>1
<1>6. ASSUME NEW s \in Streams
      PROVE  /\ verifiedAt'[s] <= now'
             /\ identity'[s] = "member" /\ ~client'[s].admin =>
                  verifiedAt'[s] <= changedAt' \/ verifiedAt'[s] = client'[s].opened
  <2>1. CASE UNCHANGED <<identity[s], verifiedAt[s], client[s]>>
    <3>1. verifiedAt[s] <= now /\ verifiedAt[s] \in Nat
      BY DEF MembersInv, TypeOK
    <3>2. identity[s] = "member" /\ ~client[s].admin =>
            verifiedAt[s] <= changedAt \/ verifiedAt[s] = client[s].opened
      BY DEF MembersInv
    <3>3. verifiedAt[s] <= changedAt => verifiedAt[s] <= changedAt'
      BY <1>1, <1>3, <3>1
    <3> QED
      BY <1>1, <1>5, <2>1, <3>1, <3>2, <3>3
  <2>2. ASSUME NEW r \in Streams, Connect(r)
        PROVE  \/ UNCHANGED <<identity[s], verifiedAt[s], client[s]>>
               \/ verifiedAt'[s] = now /\ client'[s].opened = now /\ now' = now
    BY <2>2 DEF Connect, NewClient, ConsumeTicket, TypeOK
  <2>3. ASSUME NEW r \in Streams, Collect(r)
        PROVE  \/ UNCHANGED <<identity[s], verifiedAt[s], client[s]>>
               \/ identity'[s] = "guest" /\ verifiedAt'[s] = 0
    BY <2>3 DEF Collect, TypeOK
  <2>4. ASSUME NEW p \in Publishers, ReachWithUser(p)
        PROVE  \/ UNCHANGED <<identity[s], verifiedAt[s], client[s]>>
               \/ /\ verifiedAt'[s] = now /\ now' = now /\ changedAt' = changedAt
                  /\ identity'[s] = "member" => now <= changedAt
    BY <2>4 DEF ReachWithUser, Reach, TypeOK, MembersInv, userVars
  <2> QED
    BY <1>1, <1>5, <2>1, <2>2, <2>3, <2>4, IdentityStep
<1> QED
  BY <1>2, <1>4, <1>6 DEF MembersInv

-----------------------------------------------------------------------------
(* The theorems *)

\* What changes how many events wait in a buffer.
LEMMA QueueStep ==
  ASSUME [Next]_vars
  PROVE  \/ UNCHANGED queued
         \/ \E s \in Streams : Deliver(s) \/ Collect(s)
         \/ \E p \in Publishers, s \in Streams : ReachClient(p, s)
         \/ \E p \in Publishers : ReachWithUser(p)
<1> SUFFICES ASSUME ~\E s \in Streams : Deliver(s) \/ Collect(s),
                    ~\E p \in Publishers, s \in Streams : ReachClient(p, s),
                    ~\E p \in Publishers : ReachWithUser(p)
             PROVE  UNCHANGED queued
  OBVIOUS
<1>0. ASSUME NEW s \in Streams,
             Connect(s) \/ Subscribe(s) \/ Unsubscribe(s) \/ DisconnectTarget(s)
      PROVE  UNCHANGED queued
  BY <1>0 DEF Connect, NewClient, ConsumeTicket, Subscribe, Unsubscribe, DisconnectTarget
<1>1. ASSUME NEW s \in Streams, AcquireRealtimeConnection(s) \/ TooManyConnections(s) \/ Release(s)
      PROVE  UNCHANGED queued
  BY <1>1 DEF AcquireRealtimeConnection, TooManyConnections, Release, streamVars
<1>2. ASSUME NEW s \in Streams, ConnectionFails(s) \/ ReceiveDisconnect(s) \/ Heartbeat(s)
      PROVE  UNCHANGED queued
  BY <1>2 DEF ConnectionFails, ReceiveDisconnect, Heartbeat, Leave, streamVars
<1>3. ASSUME NEW p \in Publishers, Publish(p) \/ PublishReturns(p)
      PROVE  UNCHANGED queued
  BY <1>3 DEF Publish, PublishReturns, streamVars
<1>4. ASSUME NEW p \in Publishers, NEW s \in Streams, ReadUser(p, s)
      PROVE  UNCHANGED queued
  BY <1>4 DEF ReadUser, streamVars
<1>5. CASE \/ CreateTicket \/ ReloadRateLimiter \/ RevokeToken \/ LearnRevocation
           \/ DisconnectToken \/ ChangeUser \/ Tick \/ UNCHANGED vars
  BY <1>5 DEF CreateTicket, ReloadRateLimiter, RevokeToken, LearnRevocation, DisconnectToken,
              ChangeUser, Tick, vars, streamVars
<1> QED
  BY <1>0, <1>1, <1>2, <1>3, <1>4, <1>5 DEF Next, Handler, Publishing

\* A publisher adds an event to the buffer of the client it is at, unless that is
\* closed.
LEMMA ReachStep ==
  ASSUME TypeOK, NEW p \in Publishers, NEW r \in Streams, NEW sends, NEW told,
         Reach(p, r, sends, told), NEW s \in Streams
  PROVE  queued'[s] = queued[s] \/ (s = r /\ sends /\ ~closed[s])
  BY DEF Reach, Enqueues, TypeOK

LEMMA RealtimeInitInv == Init => RealtimeInv
<1> SUFFICES ASSUME Init PROVE RealtimeInv
  OBVIOUS
<1> USE RealtimeAssumption DEF Init
<1>1. TypeOK
  <2>1. NoClient \in Clients
    BY DEF NoClient, Clients
  <2>2. StreamsTyped
    BY <2>1 DEF StreamsTyped, Identities
  <2>3. HubTyped
    BY DEF HubTyped, Never
  <2>4. PublishersTyped
    BY DEF PublishersTyped, Identities
  <2> QED
    BY <2>2, <2>3, <2>4 DEF TypeOK, StreamsTyped, HubTyped, PublishersTyped
<1>2. QuotaInv
  <2>1. \A k \in Slots : Holders(k) = {}
    BY DEF Holders
  <2>2. IsFiniteSet({}) /\ Cardinality({}) = 0
    BY FS_EmptySet
  <2>3. \A k \in Slots : active[k] = 0 /\ 0 <= Cap[k]
    OBVIOUS
  <2>4. QuotaCounted
    BY <2>1, <2>2, <2>3 DEF QuotaCounted
  <2> QED
    BY <2>1, <2>2, <2>4 DEF QuotaInv
<1>3. MembersInv
  BY DEF MembersInv
<1> QED
  BY <1>1, <1>2, <1>3 DEF RealtimeInv

LEMMA RealtimeNextInv == ASSUME RealtimeInv, [Next]_vars PROVE RealtimeInv'
<1> USE DEF RealtimeInv
<1>1. TypeOK'
  BY TypeNext
<1>2. QuotaInv'
  BY QuotaNext
<1>3. MembersInv'
  BY <1>1, MembersNext
<1> QED
  BY <1>1, <1>2, <1>3

LEMMA RealtimeInvariant == Spec => []RealtimeInv
  BY RealtimeInitInv, RealtimeNextInv, PTL DEF Spec

\* The variables keep their types: a buffer, for one, never holds more than fit.
THEOREM RealtimeTyped == Spec => []TypeOK
<1>1. RealtimeInv => TypeOK
  BY DEF RealtimeInv
<1> QED
  BY <1>1, RealtimeInvariant, PTL

\* The counters of the limiter are those of the streams that hold slots and stay
\* within the limits, also when limits are switched on and off meanwhile.
THEOREM QuotaIsCounted == Spec => []QuotaCounted
<1>1. RealtimeInv => QuotaCounted
  BY DEF RealtimeInv, QuotaInv
<1> QED
  BY <1>1, RealtimeInvariant, PTL

\* No event is put into the channel of a client that was closed.
THEOREM ClosedClientsGetNothing == Spec => ClosedGetsNothing
<1>1. RealtimeInv /\ [Next]_vars => \A s \in Streams : closed[s] => queued'[s] <= queued[s]
  <2> SUFFICES ASSUME TypeOK, [Next]_vars, NEW s \in Streams, closed[s]
               PROVE  queued'[s] <= queued[s]
    BY DEF RealtimeInv
  <2>1. queued[s] \in Nat
    BY DEF TypeOK
  <2>2. ASSUME NEW r \in Streams, Deliver(r) \/ Collect(r) PROVE queued'[s] <= queued[s]
    BY <2>1, <2>2 DEF Deliver, Collect, TypeOK
  <2>3. ASSUME NEW p \in Publishers, NEW r \in Streams, ReachClient(p, r)
        PROVE  queued'[s] = queued[s]
    BY <2>3, ReachStep DEF ReachClient
  <2>4. ASSUME NEW p \in Publishers, ReachWithUser(p) PROVE queued'[s] = queued[s]
    <3>1. reading[p] \in Streams
      BY <2>4 DEF ReachWithUser, TypeOK
    <3> QED
      BY <2>4, <3>1, ReachStep DEF ReachWithUser
  <2> QED
    BY <2>1, <2>2, <2>3, <2>4, QueueStep
<1> QED
  BY <1>1, RealtimeInvariant, PTL DEF ClosedGetsNothing, Spec

\* An event for members is put into the buffer of a client that is no admin only
\* within the window after its user was a member, or after it connected as one.
THEOREM OnlyMembersGetRecords == Spec => MembersOnly
<1>1. RealtimeInv /\ [Next]_vars =>
        \A p \in Publishers, s \in Streams :
          Sends(p, s) /\ ~client[s].admin =>
            \/ now < changedAt + Window
            \/ now < client[s].opened + Window
  <2> SUFFICES ASSUME TypeOK, MembersInv, [Next]_vars, NEW p \in Publishers, NEW s \in Streams,
                      Sends(p, s), ~client[s].admin
               PROVE  now < changedAt + Window \/ now < client[s].opened + Window
    BY DEF RealtimeInv
  <2> USE RealtimeAssumption
  <2>1. /\ now \in Nat /\ changedAt \in Int /\ verifiedAt[s] \in Nat
        /\ client[s].opened \in Nat /\ queued[s] \in Nat /\ queued'[s] > queued[s]
    BY DEF TypeOK, Clients, Sends
  <2>0. queued'[s] # queued[s]
    BY <2>1
  <2>2. ASSUME NEW r \in Streams, Deliver(r) \/ Collect(r) PROVE FALSE
    BY <2>1, <2>2 DEF Deliver, Collect, TypeOK
  <2>3. ASSUME NEW q \in Publishers, NEW r \in Streams, ReachClient(q, r)
        PROVE  identity[s] = "member" /\ now - verifiedAt[s] < Window
    <3>1. ~Reach(q, r, FALSE, FALSE)
      BY <2>0, ReachStep
    <3>2. /\ client[r].admin \/ Believes(r)
          /\ Reach(q, r, client[r].admin \/ Allowed(event[q], identity[r]), FALSE)
      BY <2>3, <3>1 DEF ReachClient
    <3>3. s = r /\ (client[r].admin \/ Allowed(event[q], identity[r]))
      BY <2>0, <3>2, ReachStep
    <3> QED
      BY <3>2, <3>3 DEF Believes, Allowed, Visible
  <2>4. ASSUME NEW q \in Publishers, ReachWithUser(q) PROVE now <= changedAt
    <3>1. reading[q] \in Streams /\ reading[q] # NoStream
      BY <2>4 DEF ReachWithUser, TypeOK
    <3>2. Reach(q, reading[q], Allowed(event[q], read[q]), read[q] = "guest")
      BY <2>4 DEF ReachWithUser
    <3>3. Allowed(event[q], read[q])
      BY <2>0, <3>1, <3>2, ReachStep
    <3> QED
      BY <3>1, <3>3 DEF Allowed, Visible, MembersInv
  <2>5. identity[s] = "member" =>
          verifiedAt[s] <= changedAt \/ verifiedAt[s] = client[s].opened
    BY DEF MembersInv
  <2>6. now < changedAt + Window \/ now < client[s].opened + Window \/ UNCHANGED queued
    <3>1. CASE \E q \in Publishers, r \in Streams : ReachClient(q, r)
      BY <2>1, <2>3, <2>5, <3>1
    <3>2. CASE \E q \in Publishers : ReachWithUser(q)
      BY <2>1, <2>4, <3>2
    <3> QED
      BY <2>2, <3>1, <3>2, QueueStep
  <2> QED
    BY <2>0, <2>6
<1> QED
  BY <1>1, RealtimeInvariant, PTL DEF MembersOnly, Spec

=============================================================================
