--------------------------- MODULE ProjectStream ---------------------------
(***************************************************************************)
(* The events of one project on their way to one browser: the realtime     *)
(* consumer (infra/realtime/application) publishes each event to Redis     *)
(* before it commits its marker, so an event may be published again; the   *)
(* replay buffer (adapter/redis) loses its oldest entries; the handler     *)
(* (adapter/sse) subscribes, replays what follows the Last-Event-ID the    *)
(* browser sends, and then passes on what arrives.                         *)
(*                                                                         *)
(* An event is <<topic, n>>, the n-th of its topic's partition; its data   *)
(* are left out.  "known" is what the browser has been told: by an event,  *)
(* or because it reads the whole project again when a stream starts        *)
(* without a position or with a resync.                                    *)
(***************************************************************************)
EXTENDS Naturals, Sequences, FiniteSets, SequencesExt

CONSTANTS Topics,       \* the topics of Handler.Handle
          MaxEvents,    \* bound: events of one topic
          Limit,        \* the buffer's maxEvents and the handler's seenLimit
          MaxRepeats,   \* bound: publications whose marker is not committed
          MaxTrims,     \* bound: times that entries become too old
          MaxDrops      \* bound: connections that end

VARIABLES handled,      \* topic -> number of its events with a committed marker
          published,    \* the events published at least once
          stream,       \* the replay buffer, oldest first
          member,       \* does AuthorizeProject let the browser's user in?
          hidden,       \* events first published after it stopped to do so
          conn,         \* the connection, see Closed
          browser,      \* [last: position or None, shown: set, known: set]
          repeats, trims, drops

vars == <<handled, published, stream, member, hidden, conn, browser, repeats, trims, drops>>

None == <<>>

(* Where ServeProject is, the messages that wait on its subscription, the   *)
(* replay still to be written, whether it must ask for a resync, the ids it *)
(* remembers and those it wrote (after the one it began with).              *)
Closed == [pc |-> "off", queue |-> <<>>, replay |-> <<>>, resync |-> FALSE,
           seen |-> <<>>, wrote |-> <<>>]

Init ==
    /\ handled = [t \in Topics |-> 0]
    /\ published = {}
    /\ stream = <<>>
    /\ member = TRUE
    /\ hidden = {}
    /\ conn = Closed
    /\ browser = [last |-> None, shown |-> {}, known |-> {}]
    /\ repeats = 0 /\ trims = 0 /\ drops = 0

-----------------------------------------------------------------------------
(* The consumer and the buffer. *)

(* Does a publication reach the connection?  Redis keeps what it receives   *)
(* for a subscription from its confirmation on.                             *)
SubscribedLate == conn.pc = "live"
Subscribed == conn.pc # "off"

(* What is left of a buffer without its entries over the limit.             *)
Newest(s) == IF Len(s) > Limit THEN SubSeq(s, Len(s) - Limit + 1, Len(s)) ELSE s

(* Publish: append, drop what is too old and too much, and hand the event   *)
(* to the subscriber, in one transaction.                                   *)
Publish(e) ==
    /\ stream' = Newest(Append(stream, e))
    /\ conn' = IF Subscribed THEN [conn EXCEPT !.queue = Append(@, e)] ELSE conn
    /\ published' = published \cup {e}
    /\ hidden' = IF member \/ e \in published THEN hidden ELSE hidden \cup {e}

(* The events a topic's handler may be given: the first without a marker.   *)
PendingAgain(t) == 1..(handled[t] + 1)
Pending(t) == {handled[t] + 1}

(* Handle: the effect and then the marker, which may fail to be committed.  *)
Handle(t) ==
    \E n \in Pending(t) \cap (1..MaxEvents) :
        /\ Publish(<<t, n>>)
        /\ \/ /\ handled' = [handled EXCEPT ![t] = IF n > @ THEN n ELSE @]
              /\ UNCHANGED repeats
           \/ /\ repeats < MaxRepeats /\ repeats' = repeats + 1
              /\ UNCHANGED handled
        /\ UNCHANGED <<member, browser, trims, drops>>

(* The oldest entries leave the window, or the whole buffer expires.        *)
Trim ==
    /\ trims < MaxTrims /\ stream # <<>>
    /\ \E n \in 1..Len(stream) : stream' = SubSeq(stream, n + 1, Len(stream))
    /\ trims' = trims + 1
    /\ UNCHANGED <<handled, published, member, hidden, conn, browser, repeats, drops>>

(* The user loses the project. *)
Revoke ==
    /\ member /\ member' = FALSE
    /\ UNCHANGED <<handled, published, stream, hidden, conn, browser, repeats, trims, drops>>

-----------------------------------------------------------------------------
(* One connection. *)

ofServer == <<handled, published, stream, member, hidden, repeats, trims>>

Close ==
    /\ conn' = Closed
    /\ drops' = drops + 1
    /\ UNCHANGED browser

(* seenIDs: remembers the last Limit ids. *)
Has(seen, e) == e \in ToSet(seen)
Remember(seen, e) == IF Has(seen, e) THEN seen ELSE Newest(Append(seen, e))

(* Where the replay starts: the first entry with the browser's position.    *)
StartLast(last) == SelectLastInSeq(stream, LAMBDA e : e = last)
Start(last) == SelectInSeq(stream, LAMBDA e : e = last)

(* The entries after the start, as they are. *)
AfterRaw(last) == SubSeq(stream, Start(last) + 1, Len(stream))

(* The entries after the start, each once and never the position itself.    *)
After(last) ==
    LET rest == SubSeq(stream, Start(last) + 1, Len(stream))
        keep == {i \in DOMAIN rest : /\ rest[i] # last
                                     /\ \A j \in 1..(i - 1) : rest[j] # rest[i]}
    IN  [i \in 1..Cardinality(keep) |->
            rest[CHOOSE k \in keep : Cardinality({j \in keep : j <= k}) = i]]

(* ServeProject checks access and subscribes. *)
Connect ==
    /\ conn.pc = "off" /\ member /\ drops < MaxDrops
    /\ conn' = [Closed EXCEPT !.pc = "subscribed"]
    /\ UNCHANGED <<ofServer, browser, drops>>

(* Replay: no position, no replay; an unknown one, a resync.                *)
Replay ==
    /\ conn.pc = "subscribed"
    /\ LET last == browser.last
           found == last # None /\ Start(last) # 0
       IN  conn' = [conn EXCEPT !.pc = "read",
                                !.replay = IF found THEN After(last) ELSE <<>>,
                                !.resync = last # None /\ ~found]
    /\ UNCHANGED <<ofServer, browser, drops>>

(* Access is checked again, now that the replay has been read. *)
AdmittedBefore == TRUE
Admitted == member

(* The answer starts: a browser that gets a resync, or had no position,     *)
(* reads the project itself, with everything published so far.              *)
Answer ==
    /\ conn.pc = "read"
    /\ IF ~Admitted THEN Close
       ELSE LET begun == IF browser.last = None THEN <<>> ELSE <<browser.last>>
            IN  /\ conn' = [conn EXCEPT !.pc = "replaying", !.resync = FALSE,
                                        !.seen = begun, !.wrote = begun]
                /\ browser' = IF conn.resync \/ browser.last = None
                              THEN [browser EXCEPT !.known = @ \cup published]
                              ELSE browser
                /\ UNCHANGED drops
    /\ UNCHANGED ofServer

Show(e) == browser' = [last |-> e, shown |-> browser.shown \cup {e},
                       known |-> browser.known \cup {e}]

(* The replay is written without further checks, then the stream is live.   *)
WriteReplay ==
    /\ conn.pc = "replaying" /\ conn.replay # <<>>
    /\ LET e == Head(conn.replay)
       IN  /\ conn' = [conn EXCEPT !.replay = Tail(@), !.seen = Remember(@, e),
                                   !.wrote = Append(@, e)]
           /\ Show(e)
    /\ UNCHANGED <<ofServer, drops>>

GoLive ==
    /\ conn.pc = "replaying" /\ conn.replay = <<>>
    /\ conn' = [conn EXCEPT !.pc = "live"]
    /\ UNCHANGED <<ofServer, browser, drops>>

(* A live message: access, then whether it was written before.              *)
Receive ==
    /\ conn.pc = "live" /\ conn.queue # <<>>
    /\ LET e == Head(conn.queue)
       IN  IF ~member THEN Close
           ELSE /\ IF Has(conn.seen, e)
                   THEN /\ conn' = [conn EXCEPT !.queue = Tail(@)]
                        /\ UNCHANGED browser
                   ELSE /\ conn' = [conn EXCEPT !.queue = Tail(@), !.wrote = Append(@, e),
                                                !.seen = Remember(@, e)]
                        /\ Show(e)
                /\ UNCHANGED drops
    /\ UNCHANGED ofServer

(* The connection ends: its age, a network failure, a failed heartbeat.     *)
Drop ==
    /\ conn.pc # "off" /\ Close
    /\ UNCHANGED ofServer

Next ==
    \/ \E t \in Topics : Handle(t)
    \/ Trim \/ Revoke
    \/ Connect \/ Replay \/ Answer \/ WriteReplay \/ GoLive \/ Receive \/ Drop

Spec == Init /\ [][Next]_vars

-----------------------------------------------------------------------------
(* One connection writes no event again among the Limit ids it wrote last,  *)
(* the position it began with included: replay and live overlap unseen.     *)
ShownOnce ==
    \A i, j \in DOMAIN conn.wrote :
        i < j /\ j - i <= Limit => conn.wrote[i] # conn.wrote[j]

(* A browser on a live connection with nothing left to pass on has been     *)
(* told of every event, whatever it missed between two connections, unless  *)
(* events were published twice and first copies may have left the buffer.   *)
Dropped == trims > 0 \/ Cardinality(published) + repeats > Limit
NothingMissed ==
    /\ conn.pc = "live" /\ conn.queue = <<>>
    /\ ~(Dropped /\ repeats > 0)
    => published \subseteq browser.known

(* An event published after the user lost the project is never written.     *)
NothingLeaks == browser.shown \cap hidden = {}

StreamHonest == ShownOnce /\ NothingMissed /\ NothingLeaks

(* Of one topic the browser never sees an older event after a newer one,    *)
(* over all its connections, with the same exception.                       *)
OrderKept ==
    (Dropped /\ repeats > 0) \/ \A t \in Topics : \A n \in 1..MaxEvents :
      browser'.last # browser.last /\ browser'.last = <<t, n>> =>
          \A m \in (n + 1)..MaxEvents : <<t, m>> \notin browser.shown

(* "Resume from the first match so later unique events are never skipped":  *)
(* NothingMissed without its exception.                                     *)
NeverSkipped ==
    conn.pc = "live" /\ conn.queue = <<>> => published \subseteq browser.known
=============================================================================
