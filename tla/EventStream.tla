---------------------------- MODULE EventStream ----------------------------
(***************************************************************************)
(* The event stream of internal/web/events.go and the shutdown it must not *)
(* delay (cmd/pdttweb/main.go, Server.Close): clients of GET /events       *)
(* subscribe to a broadcaster, generations publish their progress to all   *)
(* of them, and a signal drains the server, closes the streams, stops the  *)
(* cleaner and closes the database.                                        *)
(*                                                                         *)
(* The broadcaster's methods hold its mutex throughout and are one action  *)
(* each. Nothing is said of a message but that it was published.           *)
(***************************************************************************)
EXTENDS Integers, Sequences, FiniteSets

CONSTANTS
  Clients,      \* the requests for /events, each a stream of its own
  Generations,  \* the requests for /generate
  Capacity,     \* of a subscriber's channel (8 in the code)
  MaxMessages   \* bound: messages published

ASSUME StreamAssumption ==
  /\ Capacity \in Nat \ {0} /\ MaxMessages \in Nat

VARIABLES
  subs,        \* b.subs
  closed,      \* b.closed
  queue,       \* messages in each subscriber's channel
  shut,        \* the subscribers' channels that were closed
  client,      \* where each /events handler is
  generation,  \* where each /generate handler is
  published,   \* messages published
  main,        \* where main is: "serving", "draining", "closing", "ended"
  stopping,    \* StopEvents: "unregistered" until the drain, "due" or "called"
  expired,     \* shutdownCtx is done
  cancelled,   \* Close cancelled the cleaner's context
  cleaner,     \* "waiting", "sweeping" or "returned"
  db           \* "open" or "closed"

broadcaster == <<subs, closed, queue, shut>>
server == <<main, stopping, expired, cancelled, cleaner, db>>
vars == <<broadcaster, client, generation, published, server>>

TypeOK ==
  /\ subs \subseteq Clients /\ shut \subseteq Clients /\ closed \in BOOLEAN
  /\ queue \in [Clients -> 0..Capacity]
  /\ client \in [Clients -> {"away", "accepted", "streaming", "leaving", "left"}]
  /\ generation \in [Generations -> {"away", "running", "ended"}]
  /\ published \in 0..MaxMessages
  /\ main \in {"serving", "draining", "closing", "ended"}
  /\ stopping \in {"unregistered", "due", "called"}
  /\ expired \in BOOLEAN /\ cancelled \in BOOLEAN
  /\ cleaner \in {"waiting", "sweeping", "returned"} /\ db \in {"open", "closed"}

Init ==
  /\ subs = {} /\ closed = FALSE /\ shut = {}
  /\ queue = [c \in Clients |-> 0]
  /\ client = [c \in Clients |-> "away"]
  /\ generation = [g \in Generations |-> "away"]
  /\ published = 0
  /\ main = "serving" /\ stopping = "unregistered" /\ expired = FALSE
  /\ cancelled = FALSE /\ cleaner = "waiting" /\ db = "open"

\* Nothing runs once main has returned.
Alive == main # "ended"

(***************************************************************************)
(* The broadcaster.                                                        *)
(***************************************************************************)
\* Mutant: a subscriber is taken during the shutdown as well.
SubscribeAlways(c) ==
  /\ subs' = subs \cup {c} /\ UNCHANGED <<closed, queue, shut>>
\* Once the broadcaster is closed, a subscriber gets a closed channel.
Subscribe(c) ==
  /\ IF closed THEN shut' = shut \cup {c} /\ UNCHANGED subs
               ELSE subs' = subs \cup {c} /\ UNCHANGED shut
  /\ UNCHANGED <<closed, queue>>

Unsubscribe(c) ==
  /\ IF c \in subs THEN subs' = subs \ {c} /\ shut' = shut \cup {c}
                   ELSE UNCHANGED <<subs, shut>>
  /\ UNCHANGED <<closed, queue>>

\* Mutant: the channels are closed and stay in the set.
CloseAllButForget ==
  /\ closed' = TRUE
  /\ IF closed THEN UNCHANGED <<subs, shut>> ELSE shut' = shut \cup subs /\ UNCHANGED subs
  /\ UNCHANGED queue
CloseAll ==
  /\ closed' = TRUE
  /\ IF closed THEN UNCHANGED <<subs, shut>> ELSE shut' = shut \cup subs /\ subs' = {}
  /\ UNCHANGED queue

\* Mutant: a full channel is waited for, and overfilled.
PublishToAll ==
  /\ queue' = [c \in Clients |-> IF c \in subs THEN queue[c] + 1 ELSE queue[c]]
  /\ UNCHANGED <<subs, closed, shut>>
\* A consumer whose channel is full misses the message.
Publish ==
  /\ queue' = [c \in Clients |-> IF c \in subs /\ queue[c] < Capacity
                                 THEN queue[c] + 1 ELSE queue[c]]
  /\ UNCHANGED <<subs, closed, shut>>

(***************************************************************************)
(* The handlers. A connection accepted before the drain may reach its      *)
(* handler only after it has begun.                                        *)
(***************************************************************************)
At(c, from, to) ==
  Alive /\ client[c] = from /\ client' = [client EXCEPT ![c] = to]

Accept(c) ==
  /\ main = "serving" /\ At(c, "away", "accepted")
  /\ UNCHANGED <<broadcaster, generation, published, server>>

Stream(c) ==
  /\ At(c, "accepted", "streaming") /\ Subscribe(c)
  /\ UNCHANGED <<generation, published, server>>

Forward(c) ==
  /\ At(c, "streaming", "streaming") /\ queue[c] > 0
  /\ queue' = [queue EXCEPT ![c] = @ - 1]
  /\ UNCHANGED <<subs, closed, shut, generation, published, server>>

\* The channel is closed and drained.
EndOfStream(c) ==
  /\ At(c, "streaming", "leaving") /\ c \in shut /\ queue[c] = 0
  /\ UNCHANGED <<broadcaster, generation, published, server>>

\* The request's context is done: the client went away.
HangUp(c) ==
  /\ At(c, "streaming", "leaving")
  /\ UNCHANGED <<broadcaster, generation, published, server>>

Leave(c) ==
  /\ At(c, "leaving", "left") /\ Unsubscribe(c)
  /\ UNCHANGED <<generation, published, server>>

Serve(c) == Stream(c) \/ Forward(c) \/ EndOfStream(c) \/ Leave(c)

StartGeneration(g) ==
  /\ main = "serving" /\ generation[g] = "away" /\ published < MaxMessages
  /\ generation' = [generation EXCEPT ![g] = "running"]
  /\ published' = published + 1 /\ Publish
  /\ UNCHANGED <<client, server>>

Report(g) ==
  /\ Alive /\ generation[g] = "running" /\ published < MaxMessages
  /\ published' = published + 1 /\ Publish
  /\ UNCHANGED <<client, generation, server>>

\* The deferred clearing of the status is published last.
EndGeneration(g) ==
  /\ Alive /\ generation[g] = "running"
  /\ generation' = [generation EXCEPT ![g] = "ended"]
  /\ Publish
  /\ UNCHANGED <<client, published, server>>

(***************************************************************************)
(* Shutdown.                                                               *)
(***************************************************************************)
Requests == {c \in Clients : client[c] \in {"accepted", "streaming", "leaving"}}
            \cup {g \in Generations : generation[g] = "running"}

\* Shutdown stops the listener and calls StopEvents in a goroutine.
Signal ==
  /\ main = "serving"
  /\ main' = "draining" /\ stopping' = "due"
  /\ UNCHANGED <<broadcaster, client, generation, published, expired, cancelled,
                 cleaner, db>>

StopEvents ==
  /\ Alive /\ stopping = "due" /\ stopping' = "called" /\ CloseAll
  /\ UNCHANGED <<client, generation, published, main, expired, cancelled, cleaner,
                 db>>

Expire ==
  /\ main \in {"draining", "closing"} /\ ~expired /\ expired' = TRUE
  /\ UNCHANGED <<broadcaster, client, generation, published, main, stopping,
                 cancelled, cleaner, db>>

\* Mutant: Shutdown is given a context without a deadline.
DrainedOnly ==
  /\ main = "draining" /\ Requests = {}
  /\ main' = "closing" /\ cancelled' = TRUE
  /\ UNCHANGED <<broadcaster, client, generation, published, stopping, expired,
                 cleaner, db>>
\* Shutdown returns when no request is left, or at the deadline; Close cancels
\* the cleaner.
Drained ==
  /\ main = "draining" /\ (Requests = {} \/ expired)
  /\ main' = "closing" /\ cancelled' = TRUE
  /\ UNCHANGED <<broadcaster, client, generation, published, stopping, expired,
                 cleaner, db>>

CleanerSweeps ==
  /\ Alive /\ cleaner = "waiting" /\ cleaner' = "sweeping"
  /\ UNCHANGED <<broadcaster, client, generation, published, main, stopping,
                 expired, cancelled, db>>
CleanerRests ==
  /\ Alive /\ cleaner = "sweeping" /\ cleaner' = "waiting"
  /\ UNCHANGED <<broadcaster, client, generation, published, main, stopping,
                 expired, cancelled, db>>
CleanerReturns ==
  /\ Alive /\ cleaner = "waiting" /\ cancelled /\ cleaner' = "returned"
  /\ UNCHANGED <<broadcaster, client, generation, published, main, stopping,
                 expired, cancelled, db>>

CloseDb ==
  /\ main = "closing" /\ db = "open" /\ (cleaner = "returned" \/ expired)
  /\ db' = "closed"
  /\ UNCHANGED <<broadcaster, client, generation, published, main, stopping,
                 expired, cancelled, cleaner>>

Return ==
  /\ main = "closing" /\ db = "closed" /\ main' = "ended"
  /\ UNCHANGED <<broadcaster, client, generation, published, stopping, expired,
                 cancelled, cleaner, db>>

Ended == main = "ended" /\ UNCHANGED vars

Next ==
  \/ \E c \in Clients : Accept(c) \/ Serve(c) \/ HangUp(c)
  \/ \E g \in Generations : StartGeneration(g) \/ Report(g) \/ EndGeneration(g)
  \/ Signal \/ StopEvents \/ Expire \/ Drained \/ CloseDb \/ Return
  \/ CleanerSweeps \/ CleanerRests \/ CleanerReturns
  \/ Ended

Spec == Init /\ [][Next]_vars

\* Goroutines that can run do, so a client is taken to read what it is sent; a
\* cancelled cleaner is done in the end (its select may take the ticker first,
\* but not for ever). A generation may hang, as a render under way at the
\* shutdown may, and a shutdown may be over before its deadline.
Fairness ==
  /\ \A c \in Clients : WF_vars(Serve(c))
  /\ WF_vars(StopEvents) /\ WF_vars(Drained)
  /\ WF_vars(CleanerRests) /\ SF_vars(CleanerReturns)
  /\ WF_vars(CloseDb) /\ WF_vars(Return)
FairSpec == Spec /\ Fairness

(***************************************************************************)
(* Properties.                                                             *)
(***************************************************************************)

\* A channel in the set is open and one taken out of it is not, once its
\* handler has subscribed: publish never sends on a closed channel, and close
\* and unsubscribe, whichever comes first, close each channel once.
ClosedOnce ==
  \A c \in Clients :
    /\ c \in subs => c \notin shut
    /\ client[c] = "streaming" => c \in subs \/ c \in shut
    /\ client[c] = "left" => c \in shut

\* When every generation ends, so does a shutdown, whether or not the deadline
\* comes: the streams do not hold it up, not even one whose handler subscribes
\* after they were closed, nor does the cleaner.
ShutsDown ==
  (\A g \in Generations : WF_vars(EndGeneration(g)))
  => (main = "draining" ~> main = "ended")

\* Once the deadline has come a shutdown ends whatever the generations do.
DeadlineEnds == main = "draining" /\ expired ~> main = "ended"
=============================================================================
