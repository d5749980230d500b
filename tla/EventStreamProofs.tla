------------------------- MODULE EventStreamProofs -------------------------
(***************************************************************************)
(* Proofs about the event stream, for any number of clients and            *)
(* generations and any capacity: its types, and that every channel is      *)
(* closed exactly once and never sent to afterwards.                       *)
(***************************************************************************)
EXTENDS EventStream, TLAPS

\* Where a handler is says what its channel is: untouched until it has
\* subscribed, in the set or closed while it streams, closed when it has left.
ChannelOfHandler ==
  \A c \in Clients :
    /\ client[c] \in {"away", "accepted"} => c \notin subs /\ c \notin shut
    /\ client[c] \in {"streaming", "leaving"} => c \in subs \/ c \in shut
    /\ client[c] = "left" => c \in shut
    /\ c \in subs => c \notin shut

IInv == TypeOK /\ ChannelOfHandler

LEMMA InitIInv == Init => IInv
<1> SUFFICES ASSUME Init
             PROVE  IInv
  OBVIOUS
<1>1. TypeOK
  <2>1. 0 \in 0..Capacity /\ 0 \in 0..MaxMessages
    BY StreamAssumption
  <2>2. /\ queue \in [Clients -> 0..Capacity]
        /\ client \in [Clients -> {"away", "accepted", "streaming", "leaving",
                                   "left"}]
        /\ generation \in [Generations -> {"away", "running", "ended"}]
    BY <2>1 DEF Init
  <2> QED
    BY <2>1, <2>2 DEF Init, TypeOK
<1>2. ChannelOfHandler
  BY DEF Init, ChannelOfHandler
<1> QED
  BY <1>1, <1>2 DEF IInv

\* One handler takes a step of its own; the channels of the others stay.
LEMMA ClientIInv ==
  ASSUME IInv, NEW c \in Clients, Accept(c) \/ Serve(c) \/ HangUp(c)
  PROVE  IInv'
<1>1. CASE Accept(c)
  BY <1>1 DEF Accept, At, IInv, TypeOK, ChannelOfHandler, broadcaster, server
<1>2. CASE Stream(c)
  <2>1. TypeOK'
    BY <1>2 DEF Stream, At, Subscribe, IInv, TypeOK, server
  <2>2. ChannelOfHandler'
    BY <1>2 DEF Stream, At, Subscribe, IInv, TypeOK, ChannelOfHandler
  <2> QED
    BY <2>1, <2>2 DEF IInv
<1>3. CASE Forward(c)
  <2>1. queue' \in [Clients -> 0..Capacity]
    BY <1>3, StreamAssumption DEF Forward, IInv, TypeOK
  <2> QED
    BY <1>3, <2>1 DEF Forward, At, IInv, TypeOK, ChannelOfHandler, server
<1>4. CASE EndOfStream(c) \/ HangUp(c)
  BY <1>4 DEF EndOfStream, HangUp, At, IInv, TypeOK, ChannelOfHandler,
    broadcaster, server
<1>5. CASE Leave(c)
  <2>1. TypeOK'
    BY <1>5 DEF Leave, At, Unsubscribe, IInv, TypeOK, server
  <2>2. ChannelOfHandler'
    BY <1>5 DEF Leave, At, Unsubscribe, IInv, TypeOK, ChannelOfHandler
  <2> QED
    BY <2>1, <2>2 DEF IInv
<1> QED
  BY <1>1, <1>2, <1>3, <1>4, <1>5 DEF Serve

\* Publishing keeps every channel within its capacity.
LEMMA PublishWithinCapacity ==
  ASSUME IInv, Publish
  PROVE  queue' \in [Clients -> 0..Capacity]
BY StreamAssumption DEF IInv, TypeOK, Publish

LEMMA GenerationIInv ==
  ASSUME IInv, NEW g \in Generations,
         StartGeneration(g) \/ Report(g) \/ EndGeneration(g)
  PROVE  IInv'
<1>1. Publish /\ UNCHANGED <<client, server>>
  BY DEF StartGeneration, Report, EndGeneration
<1>2. published' \in 0..MaxMessages /\ generation' \in [Generations -> {"away", "running", "ended"}]
  BY StreamAssumption DEF StartGeneration, Report, EndGeneration, IInv, TypeOK
<1>3. queue' \in [Clients -> 0..Capacity]
  BY <1>1, PublishWithinCapacity
<1> QED
  BY <1>1, <1>2, <1>3 DEF Publish, IInv, TypeOK, ChannelOfHandler, server

LEMMA ShutdownIInv ==
  ASSUME IInv,
         \/ Signal \/ StopEvents \/ Expire \/ Drained \/ CloseDb \/ Return
         \/ CleanerSweeps \/ CleanerRests \/ CleanerReturns
  PROVE  IInv'
<1>1. CASE StopEvents
  BY <1>1 DEF StopEvents, CloseAll, IInv, TypeOK, ChannelOfHandler
<1>2. CASE Signal \/ Expire \/ Drained \/ CloseDb \/ Return
  BY <1>2 DEF Signal, Expire, Drained, CloseDb, Return, IInv, TypeOK,
    ChannelOfHandler, broadcaster
<1>3. CASE CleanerSweeps \/ CleanerRests \/ CleanerReturns
  BY <1>3 DEF CleanerSweeps, CleanerRests, CleanerReturns, IInv, TypeOK,
    ChannelOfHandler, broadcaster
<1> QED
  BY <1>1, <1>2, <1>3

LEMMA Inductive == Spec => []IInv
<1>1. ASSUME IInv, [Next]_vars
      PROVE  IInv'
  <2>1. CASE UNCHANGED vars
    BY <1>1, <2>1 DEF vars, broadcaster, server, IInv, TypeOK, ChannelOfHandler
  <2> QED
    BY <1>1, <2>1, ClientIInv, GenerationIInv, ShutdownIInv DEF Next, Ended
<1> QED
  BY <1>1, InitIInv, PTL DEF Spec

\* No channel is ever filled past its capacity, and every place has its type.
THEOREM Typing == Spec => []TypeOK
<1>1. IInv => TypeOK
  BY DEF IInv
<1> QED
  BY <1>1, Inductive, PTL

\* Neither a send on a closed channel nor a second close can happen, however
\* the streams' ends, the publishers and the shutdown interleave.
THEOREM NoClosedSends == Spec => []ClosedOnce
<1>1. IInv => ClosedOnce
  BY DEF IInv, ChannelOfHandler, ClosedOnce
<1> QED
  BY <1>1, Inductive, PTL
=============================================================================
