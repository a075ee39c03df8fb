------------------------------ MODULE Realtime ------------------------------
(***************************************************************************)
(* Record subscriptions over server-sent events, within one process: the   *)
(* tickets a browser opens a stream with (internal/realtime/ticket.go),    *)
(* the quota of concurrent streams (internal/middleware/rate_limiter.go),  *)
(* the hub with its buffers (internal/realtime/hub.go) and the loop that   *)
(* serves a stream (internal/handlers/realtime.go).                        *)
(*                                                                         *)
(* All streams come from one IP address and, unless they are a guest's or  *)
(* an admin's, belong to one user.  A record is what the subscribe rule    *)
(* says of it: for members, or for nobody.  A buffer is how many events it *)
(* holds.  A critical section is one step, and so is a statement.          *)
(***************************************************************************)
EXTENDS Integers, FiniteSets

CONSTANTS
  Streams,      \* subscribe requests
  Publishers,   \* requests that publish the change of a record
  Tickets,      \* ids of tickets, each issued at most once
  Tokens,       \* tokens of the user, or of a root user
  Mouls,        \* collections
  Topics,       \* what streams subscribe to: {m}, a list as a set, or AllMouls
  AllMouls,     \* the topic "*"
  NoStream,
  NoToken,
  Buffer,       \* DefaultClientBufferSize
  Window,       \* how long GetFreshAuthUser believes a user it has read
  TicketTTL,    \* how long a ticket is valid
  TokenExpires, \* the exp claim of the tokens
  Cap,          \* the limit of each kind of slot
  Settings,     \* what rate limiting is set to: "off", "on", "rule"
  Changes,      \* the changes of records: how the rule sees the old and the new
  MaxEvents,    \* bound on the events published
  MaxFaults,    \* bound on failing queries
  MaxTime       \* bound on the clock

Slots == {"ip", "user", "ruleOfUser", "ruleOfIP"}
Records == {"members", "hidden"}

ASSUME RealtimeAssumption ==
  /\ NoStream \notin Streams
  /\ NoToken \notin Tokens
  /\ Topics \subseteq {AllMouls} \cup SUBSET Mouls
  /\ Buffer \in Nat \ {0}
  /\ Window \in Nat \ {0}
  /\ TicketTTL \in Nat
  /\ TokenExpires \in Nat
  /\ Cap \in [Slots -> Nat]
  /\ Settings \subseteq {"off", "on", "rule"}
  /\ Changes \subseteq [old : Records, new : Records]
  /\ MaxEvents \in Nat
  /\ MaxFaults \in Nat
  /\ MaxTime \in Nat

VARIABLES
  stage,       \* where the handler of each stream is
  client,      \* the fields of each stream's Client that never change
  identity,    \* Client.AuthUser: what the rules make of it, or "guest"
  verifiedAt,  \* Client.AuthUserTime
  queued,      \* how many events wait in Client.Send
  disconnect,  \* the reason in Client.Disconnect, or "none"
  closed,      \* Client.isClosed
  slots,       \* what the stream's release function gives back
  subscribers, \* Hub.subscribers
  active,      \* limiterState: activeIPs, activeUsers, activeRules (of a user, an IP)
  limiter,     \* whether limits are on, and with a maxConcurrent rule
  ticket,      \* _realtime_tickets
  event,       \* what each publisher publishes
  targets,     \* the clients each publisher still has to reach
  reading,     \* the client whose user a publisher is reading again
  read,        \* what it has read
  revoked,     \* the copy of _revoked_tokens
  revoking,    \* the token of a RevokeToken that has not notified the hub yet
  notified,    \* the clients DisconnectToken still has to tell
  user,        \* the user's row
  changedAt,   \* history: when that row stopped being a member's
  lost,        \* history: streams that missed an event because of a full buffer
  published, faults, now

streamVars == <<stage, client, identity, verifiedAt, queued, disconnect, closed,
                slots, lost>>
publishVars == <<event, targets, reading, read, published>>
revokeVars == <<revoked, revoking, notified>>
userVars == <<user, changedAt>>
limitVars == <<active, limiter>>
vars == <<streamVars, subscribers, limitVars, ticket, publishVars, revokeVars,
          userVars, faults, now>>

NoExpiry == -1
Never == MaxTime + 1

\* admin is Client.IsAdmin, token its TokenHash, expires its TokenExpiresAt,
\* opened the time of NewClient.
Clients == [admin : BOOLEAN, token : Tokens \cup {NoToken},
            expires : {NoExpiry, TokenExpires}, topic : {AllMouls} \cup Topics,
            opened : Nat]

NoClient == [admin |-> FALSE, token |-> NoToken, expires |-> NoExpiry,
             topic |-> AllMouls, opened |-> 0]

TicketRows == [admin : BOOLEAN, token : Tokens \cup {NoToken},
               expires : {NoExpiry, TokenExpires}, until : Nat]
Unissued == [unissued |-> TRUE]
Gone == [gone |-> TRUE]

Identities == {"guest", "member", "demoted"}

\* A create and a delete have one version of the record, as both.
Events == [moul : Mouls, change : Changes]
NoEvent == [none |-> TRUE]

TypeOK ==
  /\ stage \in [Streams -> {"idle", "admitted", "acquired", "open", "leaving",
                            "unsubscribed", "ended"}]
  /\ client \in [Streams -> Clients]
  /\ identity \in [Streams -> Identities]
  /\ verifiedAt \in [Streams -> Nat]
  /\ queued \in [Streams -> 0..Buffer]
  /\ disconnect \in [Streams -> {"none", "auth_expired", "slow_consumer"}]
  /\ closed \in [Streams -> BOOLEAN]
  /\ slots \in [Streams -> SUBSET Slots]
  /\ subscribers \in SUBSET Streams
  /\ active \in [Slots -> Nat]
  /\ limiter \in Settings
  /\ ticket \in [Tickets -> TicketRows \cup {Unissued, Gone}]
  /\ event \in [Publishers -> Events \cup {NoEvent}]
  /\ targets \in [Publishers -> SUBSET Streams]
  /\ reading \in [Publishers -> Streams \cup {NoStream}]
  /\ read \in [Publishers -> Identities]
  /\ revoked \in SUBSET Tokens
  /\ revoking \in Tokens \cup {NoToken}
  /\ notified \in SUBSET Streams
  /\ user \in {"member", "demoted", "deleted"}
  /\ changedAt \in 0..Never
  /\ lost \in SUBSET Streams
  /\ published \in 0..MaxEvents
  /\ faults \in 0..MaxFaults
  /\ now \in 0..MaxTime

Init ==
  /\ stage = [s \in Streams |-> "idle"]
  /\ client = [s \in Streams |-> NoClient]
  /\ identity = [s \in Streams |-> "guest"]
  /\ verifiedAt = [s \in Streams |-> 0]
  /\ queued = [s \in Streams |-> 0]
  /\ disconnect = [s \in Streams |-> "none"]
  /\ closed = [s \in Streams |-> FALSE]
  /\ slots = [s \in Streams |-> {}]
  /\ subscribers = {}
  /\ active = [k \in Slots |-> 0]
  /\ limiter \in Settings
  /\ ticket = [k \in Tickets |-> Unissued]
  /\ event = [p \in Publishers |-> NoEvent]
  /\ targets = [p \in Publishers |-> {}]
  /\ reading = [p \in Publishers |-> NoStream]
  /\ read = [p \in Publishers |-> "guest"]
  /\ revoked = {}
  /\ revoking = NoToken
  /\ notified = {}
  /\ user = "member"
  /\ changedAt = Never
  /\ lost = {}
  /\ published = 0
  /\ faults = 0
  /\ now = 0

-----------------------------------------------------------------------------
(* Credentials and tickets *)

\* What LoadAuthContextMiddleware and extractTokenCredentials make of a bearer
\* token: a token that is revoked or expired leaves a guest with its hash, and
\* an accepted one gives the claims, whatever has become of the user.
Accepted(t) == t \notin revoked /\ now < TokenExpires
BearerIdentity(t) == IF Accepted(t) THEN "member" ELSE "guest"
BearerExpires == IF now < TokenExpires THEN TokenExpires ELSE NoExpiry

\* CleanupExpired, which CreateTicket runs first.
CleanupExpired ==
  [k \in Tickets |-> IF ticket[k] \in TicketRows /\ ticket[k].until <= now
                       THEN Gone ELSE ticket[k]]

IssueTicket(k, adm, t) ==
  /\ ticket[k] = Unissued
  /\ ticket' = [CleanupExpired EXCEPT ![k] =
                  [admin |-> adm, token |-> t,
                   expires |-> IF t = NoToken THEN NoExpiry ELSE BearerExpires,
                   until |-> now + TicketTTL]]

\* POST /api/realtime/ticket, with an admin key, or with the token of the user or
\* of a root user, whose ticket carries the hash of the token as well.
CreateTicket ==
  /\ \E k \in Tickets :
       \/ IssueTicket(k, TRUE, NoToken)
       \/ \E t \in Tokens, root \in BOOLEAN : Accepted(t) /\ IssueTicket(k, root, t)
  /\ UNCHANGED <<streamVars, subscribers, limitVars, publishVars, revokeVars,
                 userVars, faults, now>>

\* NewClient: the identity counts as verified now.
NewClient(s, adm, t, exp, id) ==
  /\ stage' = [stage EXCEPT ![s] = "admitted"]
  /\ \E topic \in Topics :
       client' = [client EXCEPT ![s] = [admin |-> adm, token |-> t, expires |-> exp,
                                        topic |-> topic, opened |-> now]]
  /\ identity' = [identity EXCEPT ![s] = id]
  /\ verifiedAt' = [verifiedAt EXCEPT ![s] = now]
  /\ UNCHANGED <<queued, disconnect, closed, slots, lost>>

\* ConsumeTicket selects and deletes an unexpired ticket in one transaction.
\* Nothing asks whether its token was revoked since.
ConsumeTicket(s, k) ==
  /\ ticket[k] \in TicketRows
  /\ now < ticket[k].until
  /\ ticket' = [ticket EXCEPT ![k] = Gone]
  /\ LET row == ticket[k] IN
     NewClient(s, row.admin, row.token, row.expires,
               IF row.admin \/ row.token = NoToken THEN "guest" ELSE "member")

\* SubscribeCollection or SubscribeGlobal, up to serveSSE: without credentials,
\* with an admin key, a bearer token (a root user's makes an admin) or a ticket.
Connect(s) ==
  /\ stage[s] = "idle"
  /\ \/ /\ \/ NewClient(s, FALSE, NoToken, NoExpiry, "guest")
           \/ NewClient(s, TRUE, NoToken, NoExpiry, "guest")
           \/ \E t \in Tokens : NewClient(s, FALSE, t, BearerExpires, BearerIdentity(t))
           \/ \E t \in Tokens : Accepted(t) /\ NewClient(s, TRUE, t, BearerExpires, "guest")
        /\ UNCHANGED ticket
     \/ \E k \in Tickets : ConsumeTicket(s, k)
  /\ UNCHANGED <<subscribers, limitVars, publishVars, revokeVars, userVars, faults, now>>

-----------------------------------------------------------------------------
(* Quotas *)

\* The counters an acquired stream goes into.  A rule counts the streams of each
\* user, and those of each address that have no user.
SlotsOf(s) ==
  LET known == identity[s] # "guest"
      rule  == IF known THEN "ruleOfUser" ELSE "ruleOfIP"
  IN IF client[s].admin \/ limiter = "off" THEN {}
     ELSE {"ip"} \cup (IF known THEN {"user"} ELSE {})
                 \cup (IF limiter = "rule" THEN {rule} ELSE {})

HasRoom(k) == active[k] < Cap[k]

\* AcquireRealtimeConnection: all counters or none.
AcquireRealtimeConnection(s) ==
  /\ stage[s] = "admitted"
  /\ \A k \in SlotsOf(s) : HasRoom(k)
  /\ active' = [k \in Slots |-> IF k \in SlotsOf(s) THEN active[k] + 1 ELSE active[k]]
  /\ slots' = [slots EXCEPT ![s] = SlotsOf(s)]
  /\ stage' = [stage EXCEPT ![s] = "acquired"]
  /\ UNCHANGED <<client, identity, verifiedAt, queued, disconnect, closed, lost,
                 subscribers, limiter, ticket, publishVars, revokeVars, userVars,
                 faults, now>>

\* 429 Too Many Requests.
TooManyConnections(s) ==
  /\ stage[s] = "admitted"
  /\ \E k \in SlotsOf(s) : ~HasRoom(k)
  /\ stage' = [stage EXCEPT ![s] = "ended"]
  /\ UNCHANGED <<client, identity, verifiedAt, queued, disconnect, closed, slots,
                 lost, subscribers, limitVars, ticket, publishVars, revokeVars,
                 userVars, faults, now>>

\* Mutant: the slots given back are those the stream would take now.
ReleasedSlotsOfNow(s) == SlotsOf(s)

ReleasedSlots(s) == slots[s]

\* The release function: deferred first, it runs after Unsubscribe.
Release(s) ==
  /\ stage[s] = "unsubscribed"
  /\ active' = [k \in Slots |-> IF k \in ReleasedSlots(s) /\ active[k] > 0
                                  THEN active[k] - 1 ELSE active[k]]
  /\ slots' = [slots EXCEPT ![s] = {}]
  /\ stage' = [stage EXCEPT ![s] = "ended"]
  /\ UNCHANGED <<client, identity, verifiedAt, queued, disconnect, closed, lost,
                 subscribers, limiter, ticket, publishVars, revokeVars, userVars,
                 faults, now>>

\* ReloadRateLimiter after the settings changed: the counters stay.
ReloadRateLimiter ==
  /\ \E l \in Settings : limiter' = l
  /\ UNCHANGED <<streamVars, subscribers, active, ticket, publishVars, revokeVars,
                 userVars, faults, now>>

-----------------------------------------------------------------------------
(* The stream *)

Subscribe(s) ==
  /\ stage[s] = "acquired"
  /\ stage' = [stage EXCEPT ![s] = "open"]
  /\ subscribers' = subscribers \cup {s}
  /\ UNCHANGED <<client, identity, verifiedAt, queued, disconnect, closed, slots,
                 lost, limitVars, ticket, publishVars, revokeVars, userVars, faults,
                 now>>

\* The loop of serveSSE returns.
Leave(s) ==
  /\ stage[s] = "open"
  /\ stage' = [stage EXCEPT ![s] = "leaving"]
  /\ UNCHANGED <<client, identity, verifiedAt, closed, slots, lost, subscribers,
                 limitVars, ticket, publishVars, revokeVars, userVars, faults, now>>

\* The request's context is done, or a write of the handshake, an event or a
\* ping fails or takes too long.
ConnectionFails(s) == Leave(s) /\ UNCHANGED <<queued, disconnect>>

\* The loop receives from Disconnect, and says so to the browser.
ReceiveDisconnect(s) ==
  /\ disconnect[s] # "none"
  /\ Leave(s)
  /\ disconnect' = [disconnect EXCEPT ![s] = "none"]
  /\ UNCHANGED queued

Expired(s) == client[s].expires # NoExpiry /\ now > client[s].expires

\* Mutant: a heartbeat that leaves revocations to DisconnectToken.
SpentByTime(s) == ~client[s].admin /\ client[s].token # NoToken /\ Expired(s)

\* What the heartbeat asks: an admin's token does not matter to it.
Spent(s) ==
  /\ ~client[s].admin
  /\ client[s].token # NoToken
  /\ Expired(s) \/ client[s].token \in revoked

\* The ticker, every 15 seconds; it changes nothing but for a spent token.
Heartbeat(s) ==
  /\ Spent(s)
  /\ Leave(s)
  /\ UNCHANGED <<queued, disconnect>>

\* An event is taken from Send and written.
Deliver(s) ==
  /\ stage[s] = "open"
  /\ queued[s] > 0
  /\ queued' = [queued EXCEPT ![s] = @ - 1]
  /\ UNCHANGED <<stage, client, identity, verifiedAt, disconnect, closed, slots,
                 lost, subscribers, limitVars, ticket, publishVars, revokeVars,
                 userVars, faults, now>>

\* Unsubscribe takes the client out of the hub and closes it, with its channels.
Unsubscribe(s) ==
  /\ stage[s] = "leaving"
  /\ subscribers' = subscribers \ {s}
  /\ closed' = [closed EXCEPT ![s] = TRUE]
  /\ stage' = [stage EXCEPT ![s] = "unsubscribed"]
  /\ UNCHANGED <<client, identity, verifiedAt, queued, disconnect, slots, lost,
                 limitVars, ticket, publishVars, revokeVars, userVars, faults, now>>

\* The client of an ended request is garbage when nothing refers to it, and its
\* name in Streams may stand for another request.
Collect(s) ==
  /\ stage[s] = "ended"
  /\ s \notin notified
  /\ \A p \in Publishers : s \notin targets[p]
  /\ stage' = [stage EXCEPT ![s] = "idle"]
  /\ client' = [client EXCEPT ![s] = NoClient]
  /\ identity' = [identity EXCEPT ![s] = "guest"]
  /\ verifiedAt' = [verifiedAt EXCEPT ![s] = 0]
  /\ queued' = [queued EXCEPT ![s] = 0]
  /\ disconnect' = [disconnect EXCEPT ![s] = "none"]
  /\ closed' = [closed EXCEPT ![s] = FALSE]
  /\ lost' = lost \ {s}
  /\ UNCHANGED <<slots, subscribers, limitVars, ticket, publishVars, revokeVars,
                 userVars, faults, now>>

-----------------------------------------------------------------------------
(* Disconnecting a client *)

\* DisconnectClient: nothing for a closed client, and the first reason stays.
DisconnectReason(s, reason) ==
  IF closed[s] \/ disconnect[s] # "none" THEN disconnect[s] ELSE reason

\* RevokeToken puts the token into the table and the copy of this process.
RevokeToken ==
  /\ revoking = NoToken
  /\ \E t \in Tokens \ revoked :
       /\ revoked' = revoked \cup {t}
       /\ revoking' = t
  /\ UNCHANGED <<streamVars, subscribers, limitVars, ticket, publishVars, notified,
                 userVars, faults, now>>

\* A revocation made by another process reaches the copy, and no hook runs.
LearnRevocation ==
  /\ \E t \in Tokens \ revoked : revoked' = revoked \cup {t}
  /\ UNCHANGED <<streamVars, subscribers, limitVars, ticket, publishVars, revoking,
                 notified, userVars, faults, now>>

\* Hub.DisconnectToken, called by the hook, picks its targets ...
DisconnectToken ==
  /\ revoking # NoToken
  /\ notified = {}
  /\ notified' = {s \in subscribers : client[s].token = revoking}
  /\ revoking' = NoToken
  /\ UNCHANGED <<streamVars, subscribers, limitVars, ticket, publishVars, revoked,
                 userVars, faults, now>>

\* ... and then tells them one by one.
DisconnectTarget(s) ==
  /\ s \in notified
  /\ notified' = notified \ {s}
  /\ disconnect' = [disconnect EXCEPT ![s] = DisconnectReason(s, "auth_expired")]
  /\ UNCHANGED <<stage, client, identity, verifiedAt, queued, closed, slots, lost,
                 subscribers, limitVars, ticket, publishVars, revoked, revoking,
                 userVars, faults, now>>

\* Somebody changes the user's row so that the rules refuse it, or deletes it.
ChangeUser ==
  /\ user = "member"
  /\ \E u \in {"demoted", "deleted"} : user' = u
  /\ changedAt' = now
  /\ UNCHANGED <<streamVars, subscribers, limitVars, ticket, publishVars, revokeVars,
                 faults, now>>

-----------------------------------------------------------------------------
(* Publishing *)

Busy(p) == event[p] # NoEvent

Matches(topic, m) == topic \in {{m}, AllMouls}

\* Publish picks its targets: the subscribers of the collection's name, and of
\* "*".  What the request asked for is one name, "posts,comments" as well.
Publish(p) ==
  /\ ~Busy(p)
  /\ published < MaxEvents
  /\ published' = published + 1
  /\ \E e \in Events :
       /\ event' = [event EXCEPT ![p] = e]
       /\ targets' = [targets EXCEPT ![p] =
                        {s \in subscribers : Matches(client[s].topic, e.moul)}]
  /\ UNCHANGED <<streamVars, subscribers, limitVars, ticket, reading, read,
                 revokeVars, userVars, faults, now>>

PublishReturns(p) ==
  /\ Busy(p)
  /\ targets[p] = {}
  /\ event' = [event EXCEPT ![p] = NoEvent]
  /\ UNCHANGED <<streamVars, subscribers, limitVars, ticket, targets, reading, read,
                 published, revokeVars, userVars, faults, now>>

Visible(id, record) == record = "members" /\ id = "member"

\* The subscribe rule, evaluated for the new version and for an update that it
\* hides also for the old one, which then leaves as a deletion.
Allowed(e, id) == Visible(id, e.change.new) \/ Visible(id, e.change.old)

\* Mutant: the buffered channel of a client that was closed is sent to.
SendsToClosed(s, sends) == sends /\ queued[s] < Buffer

\* sendEvent puts the event into the buffer of a client that is open.
Enqueues(s, sends) == sends /\ ~closed[s] /\ queued[s] < Buffer

\* Mutant: a full buffer is passed over in silence.
OverflowIgnored(s, sends) == FALSE

\* A client whose buffer is full is told to leave.
Overflows(s, sends) == sends /\ ~closed[s] /\ queued[s] = Buffer

\* The client is done, with or without an event; told says whether a failed
\* lookup of its user has told it to leave before.
Reach(p, s, sends, told) ==
  /\ targets' = [targets EXCEPT ![p] = @ \ {s}]
  /\ queued' = [queued EXCEPT ![s] = IF Enqueues(s, sends) THEN @ + 1 ELSE @]
  /\ lost' = IF sends /\ ~closed[s] /\ queued[s] = Buffer THEN lost \cup {s} ELSE lost
  /\ disconnect' = [disconnect EXCEPT ![s] =
                      IF told THEN DisconnectReason(s, "auth_expired")
                      ELSE IF Overflows(s, sends) THEN DisconnectReason(s, "slow_consumer")
                      ELSE @]
  /\ UNCHANGED <<stage, client, closed, slots, subscribers, limitVars, ticket, event,
                 published, revokeVars, userVars, now>>

\* Mutant: the window ends a tick late.
BelievesTooLong(s) == identity[s] = "guest" \/ now - verifiedAt[s] <= Window

\* GetFreshAuthUser answers from what it has.
Believes(s) == identity[s] = "guest" \/ now - verifiedAt[s] < Window

\* The next client, in whatever order the map gives them: one that filters the
\* action or the record out, an admin, or one whose user need not be read.
ReachClient(p, s) ==
  /\ s \in targets[p]
  /\ reading[p] = NoStream
  /\ \/ Reach(p, s, FALSE, FALSE)
     \/ /\ client[s].admin \/ Believes(s)
        /\ Reach(p, s, client[s].admin \/ Allowed(event[p], identity[s]), FALSE)
  /\ UNCHANGED <<identity, verifiedAt, reading, read, faults>>

\* GetFreshAuthUser reads the row, without any lock; a missing row and a failed
\* query make a guest.
ReadUser(p, s) ==
  /\ s \in targets[p]
  /\ reading[p] = NoStream
  /\ ~client[s].admin
  /\ ~Believes(s)
  /\ reading' = [reading EXCEPT ![p] = s]
  /\ \/ /\ read' = [read EXCEPT ![p] = IF user = "deleted" THEN "guest" ELSE user]
        /\ UNCHANGED faults
     \/ /\ faults < MaxFaults
        /\ faults' = faults + 1
        /\ read' = [read EXCEPT ![p] = "guest"]
  /\ UNCHANGED <<streamVars, subscribers, limitVars, ticket, event, targets,
                 published, revokeVars, userVars, now>>

\* It keeps the result, and the event is judged by it.
ReachWithUser(p) ==
  /\ reading[p] # NoStream
  /\ LET s == reading[p] IN
     /\ identity' = [identity EXCEPT ![s] = read[p]]
     /\ verifiedAt' = [verifiedAt EXCEPT ![s] = now]
     /\ Reach(p, s, Allowed(event[p], read[p]), read[p] = "guest")
  /\ reading' = [reading EXCEPT ![p] = NoStream]
  /\ read' = [read EXCEPT ![p] = "guest"]
  /\ UNCHANGED faults

\* Queries return within a tick (a bound of the model).
Tick ==
  /\ now < MaxTime
  /\ \A p \in Publishers : reading[p] = NoStream
  /\ now' = now + 1
  /\ UNCHANGED <<streamVars, subscribers, limitVars, ticket, publishVars, revokeVars,
                 userVars, faults>>

Handler(s) ==
  \/ AcquireRealtimeConnection(s) \/ TooManyConnections(s)
  \/ Subscribe(s)
  \/ Unsubscribe(s)
  \/ Release(s)

Publishing(p) ==
  \/ PublishReturns(p)
  \/ \E s \in Streams : ReachClient(p, s) \/ ReadUser(p, s)
  \/ ReachWithUser(p)

Next ==
  \/ CreateTicket
  \/ \E s \in Streams : \/ Connect(s) \/ Handler(s) \/ Collect(s)
                        \/ ConnectionFails(s) \/ ReceiveDisconnect(s)
                        \/ Heartbeat(s) \/ Deliver(s)
  \/ ReloadRateLimiter
  \/ RevokeToken \/ LearnRevocation \/ DisconnectToken
  \/ \E s \in Streams : DisconnectTarget(s)
  \/ ChangeUser
  \/ \E p \in Publishers : Publish(p) \/ Publishing(p)
  \/ Tick

Spec == Init /\ [][Next]_vars

\* Handlers and publishers go on; select picks at random among the cases that
\* are ready, so each one that stays ready is picked in the end; the heartbeat's
\* ticker does not stop.
Fairness ==
  /\ \A s \in Streams :
       /\ WF_vars(Handler(s))
       /\ WF_vars(ReceiveDisconnect(s))
       /\ WF_vars(Heartbeat(s))
       /\ WF_vars(Deliver(s))
       /\ WF_vars(DisconnectTarget(s))
  /\ \A p \in Publishers : WF_vars(Publishing(p))
  /\ WF_vars(DisconnectToken)

FairSpec == Spec /\ Fairness

-----------------------------------------------------------------------------
(* Properties *)

\* The counters of the quota are those of the streams that hold them, and stay
\* within the limits, however streams end and whenever limits are switched on
\* and off while streams are open ("active SSE streams are capped", README.md:806).
Holders(k) == {s \in Streams : k \in slots[s]}
QuotaCounted ==
  \A k \in Slots : active[k] = Cardinality(Holders(k)) /\ active[k] <= Cap[k]

\* Nothing is sent on the Send channel of a client that was closed, which would
\* panic: publishers hold on to clients that unsubscribe meanwhile (hub.go:583).
ClosedGetsNothing ==
  [][\A s \in Streams : closed[s] => queued'[s] <= queued[s]]_vars

Sends(p, s) == s \in targets[p] /\ s \notin targets'[p] /\ queued'[s] > queued[s]

\* An event for members is sent only to who is a member, was one within the
\* window of GetFreshAuthUser, or connected within it with claims of a member:
\* "Every record mutation evaluates the collection's latest subscribeRule against
\* the subscriber's auth context" (README.md:802), with two publishers refreshing
\* the auth context of one client at the same time.
MembersOnly ==
  [][\A p \in Publishers, s \in Streams :
       Sends(p, s) /\ ~client[s].admin =>
         \/ now < changedAt + Window
         \/ now < client[s].opened + Window]_vars

TokenLost(s) ==
  \/ client[s].token \in revoked
  \/ client[s].expires # NoExpiry /\ now > client[s].expires

\* "If a token is revoked or expires during a connection, the server emits
\* auth_expired and terminates the SSE connection" (README.md:804): also when it
\* was revoked by another process, or before the hub knew the stream.  (An admin's
\* stream outlives its token.)
\* A stream that missed an event because its buffer was full is ended too, so
\* that the client notices (README.md:805), whichever reason came first.
StreamsEnd ==
  \A s \in Streams :
    /\ (stage[s] = "open" /\ TokenLost(s) /\ ~client[s].admin) ~> stage[s] # "open"
    /\ (stage[s] = "open" /\ s \in lost) ~> stage[s] # "open"

=============================================================================
