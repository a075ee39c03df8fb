------------------------------ MODULE RealtimePage ------------------------------
(***************************************************************************)
(* The page of live events (ui routes/_auth/realtime) and the client that  *)
(* reads the stream (ui api/moul-live): a loop that connects, takes what   *)
(* has arrived, cut anywhere, puts frames together, and connects again     *)
(* after a pause, until its page unsubscribes.                             *)
(*                                                                         *)
(* A frame is two halves of an event.  The loop keeps the credentials it   *)
(* began with.                                                             *)
(***************************************************************************)
EXTENDS Integers, FiniteSets, Sequences

CONSTANTS
  Watchable,     \* collections, to be watched one at a time
  Everything,    \* the choice of all collections, "*"
  LogLimit,      \* how many entries the page keeps (200)
  StreamBudgets  \* bounds on the steps of each sort, one of which is chosen

ASSUME StreamAssumption ==
  /\ Everything \notin Watchable
  /\ LogLimit \in Nat \ {0}
  /\ StreamBudgets \subseteq
       [{"selects", "toggles", "events", "breaks", "renewals"} -> Nat]

VARIABLES
  watched,      \* selectedMoul
  isConnected,
  loops,        \* the loops of subscribeWithFetch that have not returned
  events,       \* the log, newest first
  credential,   \* the version of the token in the storage, the only one accepted
  happened,     \* history: events so far
  begun,        \* history: loops so far
  streamBudget  \* what is left of the bounds

streamVars == <<watched, isConnected, loops, events, credential, happened, begun,
                streamBudget>>

Afford(what) == streamBudget[what] > 0 /\ streamBudget' = [streamBudget EXCEPT ![what] = @ - 1]
Kept(log) == SubSeq(log, 1, IF Len(log) < LogLimit THEN Len(log) ELSE LogLimit)
Loop(topic) ==
  [id |-> begun + 1, topic |-> topic, token |-> credential, active |-> TRUE,
   at |-> "connect", transit |-> <<>>, buffer |-> <<>>]
Become(l, new) == loops' = (loops \ {l}) \cup {new}

-----------------------------------------------------------------------------
(* The page.  The effect's cleanup unsubscribes before the effect runs again. *)

\* A pending fetch or read is aborted and ends its loop at once; a loop that
\* pauses returns when its timer fires.
Unsubscribed == {[l EXCEPT !.active = FALSE] : l \in {m \in loops : m.at = "pause"}}

Resubscribe(topic, connected) ==
  /\ loops' = Unsubscribed \cup (IF connected THEN {Loop(topic)} ELSE {})
  /\ begun' = begun + 1

SelectWatched(m) ==
  /\ m # watched
  /\ Afford("selects")
  /\ watched' = m
  /\ Resubscribe(m, isConnected)
  /\ UNCHANGED <<isConnected, events, credential, happened>>

ToggleConnection ==
  /\ Afford("toggles")
  /\ isConnected' = ~isConnected
  /\ Resubscribe(watched, ~isConnected)
  /\ UNCHANGED <<watched, events, credential, happened>>

ClearEvents ==
  /\ events # <<>>
  /\ events' = <<>>
  /\ UNCHANGED <<watched, isConnected, loops, credential, happened, begun, streamBudget>>

-----------------------------------------------------------------------------
(* The loop.                                                                  *)

Complain ==
  events' = Kept(<<[error |-> TRUE, first |-> <<0, 1>>, second |-> <<0, 2>>, under |-> watched]>>
                 \o events)

\* Mutant: what is left in the buffer is kept for the next connection.
ConnectedAsBefore(l) == [l EXCEPT !.at = "read", !.transit = <<>>]
Connected(l) == [l EXCEPT !.at = "read", !.transit = <<>>, !.buffer = <<>>]

\* while (active): a fetch with the credentials the loop began with.
Connect(l) ==
  /\ l.at = "connect"
  /\ IF ~l.active THEN loops' = loops \ {l} /\ UNCHANGED events
     ELSE IF l.token = credential THEN Become(l, Connected(l)) /\ UNCHANGED events
     ELSE Become(l, [l EXCEPT !.at = "pause"]) /\ Complain
  /\ UNCHANGED <<watched, isConnected, credential, happened, begun, streamBudget>>

\* The frames that are complete, in their order, and the log with them.
LogEntries(halves) ==
  [i \in 1..(Len(halves) \div 2) |->
     [error |-> FALSE, first |-> halves[2 * i - 1], second |-> halves[2 * i],
      under |-> watched]]
Logged(entries) ==
  Kept([i \in 1..Len(entries) |-> entries[Len(entries) + 1 - i]] \o events)
Remainder(halves) == IF Len(halves) % 2 = 1 THEN <<halves[Len(halves)]>> ELSE <<>>

\* reader.read answers with some of what is on its way.
ReadChunk(l, n) ==
  /\ l.at = "read"
  /\ n \in 1..Len(l.transit)
  /\ LET halves == l.buffer \o SubSeq(l.transit, 1, n) IN
     /\ events' = Logged(LogEntries(halves))
     /\ Become(l, [l EXCEPT !.buffer = Remainder(halves),
                            !.transit = SubSeq(@, n + 1, Len(@))])
  /\ UNCHANGED <<watched, isConnected, credential, happened, begun, streamBudget>>

\* The connection ends, with an error or without, wherever a frame was cut.
BreakStream(l) ==
  /\ l.at = "read"
  /\ Afford("breaks")
  /\ Become(l, [l EXCEPT !.at = "pause", !.transit = <<>>])
  /\ Complain \/ UNCHANGED events
  /\ UNCHANGED <<watched, isConnected, credential, happened, begun>>

\* reconnectIntervalMs later.
EndPause(l) ==
  /\ l.at = "pause"
  /\ Become(l, [l EXCEPT !.at = "connect"])
  /\ UNCHANGED <<watched, isConnected, events, credential, happened, begun, streamBudget>>

-----------------------------------------------------------------------------
(* The server and the rest of the dashboard.                                  *)

Halves(nr, m) == <<<<nr, 1, m>>, <<nr, 2, m>>>>

PublishEvent(m) ==
  /\ Afford("events")
  /\ happened' = happened + 1
  /\ loops' = {IF l.at = "read" /\ l.topic \in {m, Everything}
               THEN [l EXCEPT !.transit = @ \o Halves(happened + 1, m)] ELSE l : l \in loops}
  /\ UNCHANGED <<watched, isConnected, events, credential, begun>>

\* Changing the account or signing in again replaces the token: the server ends
\* the stream of the old one, and accepts it no more.
RenewToken ==
  /\ Afford("renewals")
  /\ credential' = credential + 1
  /\ loops' = {IF l.at = "read" THEN [l EXCEPT !.at = "pause", !.transit = <<>>] ELSE l
                 : l \in loops}
  /\ UNCHANGED <<watched, isConnected, events, happened, begun>>

-----------------------------------------------------------------------------

StreamInit ==
  /\ watched = Everything
  /\ isConnected = TRUE
  /\ begun = 1
  /\ credential = 1
  /\ loops = {[id |-> 1, topic |-> Everything, token |-> 1, active |-> TRUE,
               at |-> "connect", transit |-> <<>>, buffer |-> <<>>]}
  /\ events = <<>>
  /\ happened = 0
  /\ streamBudget \in StreamBudgets

StreamNext ==
  \/ \E m \in Watchable \cup {Everything} : SelectWatched(m)
  \/ \E m \in Watchable : PublishEvent(m)
  \/ \E l \in loops : Connect(l) \/ BreakStream(l) \/ EndPause(l)
  \/ \E l \in loops : \E n \in 1..Len(l.transit) : ReadChunk(l, n)
  \/ ToggleConnection \/ ClearEvents \/ RenewToken

StreamSpec == StreamInit /\ [][StreamNext]_streamVars

-----------------------------------------------------------------------------
(* Properties.                                                                *)

\* One loop at most is alive, and it is the one of what is selected.
OneLoopAlive ==
  /\ Cardinality({l \in loops : l.active}) = (IF isConnected THEN 1 ELSE 0)
  /\ \A l \in loops : l.active => l.topic = watched

\* What is logged is a frame that was sent, however the stream was cut and
\* broken, of a collection that was watched when it was logged.
FramesAreWhole ==
  \A i \in DOMAIN events : ~events[i].error =>
    LET e == events[i] IN
    /\ e.first[1] = e.second[1] /\ e.first[2] = 1 /\ e.second[2] = 2
    /\ e.under \in {Everything, e.first[3]}

\* The log has its events newest first, and none twice.
LogInOrder ==
  \A i, j \in DOMAIN events : i < j /\ ~events[i].error /\ ~events[j].error =>
    events[i].first[1] > events[j].first[1]

\* The log shows the stream that is selected, frame by frame.
LogShowsStream == OneLoopAlive /\ FramesAreWhole /\ LogInOrder

=============================================================================
