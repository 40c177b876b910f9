----------------------------- MODULE EventStream -----------------------------
(***************************************************************************)
(* The server-sent-events endpoints of services/core and the hub that      *)
(* feeds them: server/hub.go and server/stream.go (GET /api/stream);       *)
(* server/lab_events.go (GET /api/lab/events) is the same protocol on a    *)
(* hub and a counter of its own.                                           *)
(*                                                                         *)
(* A client's request is served by one handler goroutine: it bumps an      *)
(* atomic counter and backs out over the cap, subscribes a buffered        *)
(* channel to the hub, writes a first frame, then selects over ticker,     *)
(* channel, request context and shutdown context.  The deferred            *)
(* unsubscribe and counter decrement run in that order when it returns.    *)
(* Publishers (webhook and lab handlers) range over the subscribers while  *)
(* they hold hub.mu.  hub.mu is not a variable: it is held exactly while   *)
(* some publisher's ppc is "send", and subscribe and unsubscribe, which    *)
(* hold it for one step, wait for MuFree.                                  *)
(***************************************************************************)
EXTENDS Naturals, Sequences, FiniteSets
LOCAL INSTANCE TLC

CONSTANTS
  Clients,      \* connections that may ask for the stream
  Publishers,   \* goroutines that may call hub.publish
  MaxStreams,   \* cfg.MaxStreams
  ChanCap,      \* the subscriber channel's buffer (8 in hub.subscribe)
  MaxPub        \* bound: publishes in a behaviour

ASSUME StreamAssumption ==
  /\ IsFiniteSet(Clients)
  /\ MaxStreams \in Nat
  /\ ChanCap \in Nat \ {0}
  /\ MaxPub \in Nat

\* Clients and publishers are interchangeable: a safety run is checked up to their
\* permutation.
Symmetry == Permutations(Clients) \cup Permutations(Publishers)

VARIABLES
  pc,          \* pc[c]: where the handler serving c is
  gone,        \* clients that dropped their connection (r.Context() is done)
  active,      \* the handler's atomic counter
  subs,        \* hub.subs: the clients whose channel is open and registered
  chan,        \* chan[c]: the messages buffered in c's channel
  taken,       \* taken[c]: the messages c's handler has taken off its channel
  since,       \* since[c]: how many messages were published when c subscribed
  lost,        \* lost[c]: messages dropped for c because its channel was full
  ppc,         \* ppc[p]: where the publisher is
  cur,         \* cur[p]: the message p is publishing (0: none)
  todo,        \* todo[p]: the subscribers p has still to range over
  published,   \* messages published so far; message n is the n-th
  phase        \* the process: "up", "stopping" (SIGTERM), "closed" (listener)

handlerVars == <<pc, gone, active>>
feedVars    == <<subs, chan, taken, since, lost>>
pubVars     == <<ppc, cur, todo, published>>
vars        == <<handlerVars, feedVars, pubVars, phase>>

\* Handlers the counter counts; those past the cap; those with a channel.
Counted    == {c \in Clients : pc[c] \notin {"idle", "enter"}}
Admitted   == {c \in Clients : pc[c] \notin {"idle", "enter", "over"}}
Subscribed == {c \in Clients : pc[c] \in {"write", "select", "unsub"}}

MuFree == \A p \in Publishers : ppc[p] # "send"

Init ==
  /\ pc = [c \in Clients |-> "idle"]
  /\ gone = {}
  /\ active = 0
  /\ subs = {}
  /\ chan = [c \in Clients |-> <<>>]
  /\ taken = [c \in Clients |-> <<>>]
  /\ since = [c \in Clients |-> 0]
  /\ lost = [c \in Clients |-> 0]
  /\ ppc = [p \in Publishers |-> "idle"]
  /\ cur = [p \in Publishers |-> 0]
  /\ todo = [p \in Publishers |-> {}]
  /\ published = 0
  /\ phase = "up"

Goto(c, from, to) ==
  /\ pc[c] = from
  /\ pc' = [pc EXCEPT ![c] = to]

------------------------------------------------------------------------------
(* The environment: a client connects and may vanish; the process is told  *)
(* to stop and then closes its listener.                                   *)

Arrive(c) ==
  /\ phase # "closed"
  /\ Goto(c, "idle", "enter")
  /\ gone' = gone \ {c}
  /\ UNCHANGED <<active, feedVars, pubVars, phase>>

Disconnect(c) ==
  /\ pc[c] # "idle"
  /\ c \notin gone
  /\ gone' = gone \cup {c}
  /\ UNCHANGED <<pc, active, feedVars, pubVars, phase>>

SigTerm ==
  /\ phase = "up"
  /\ phase' = "stopping"
  /\ UNCHANGED <<handlerVars, feedVars, pubVars>>

CloseListener ==
  /\ phase = "stopping"
  /\ phase' = "closed"
  /\ UNCHANGED <<handlerVars, feedVars, pubVars>>

------------------------------------------------------------------------------
(* The handler: admission.                                                 *)

\* Mutant: the cap compares the counter as it was before this request.
CapAddOffByOne(c) ==
  /\ active' = active + 1
  /\ Goto(c, "enter", IF active > MaxStreams THEN "over" ELSE "admitted")
  /\ UNCHANGED <<gone, feedVars, pubVars, phase>>

\* One atomic Add; its result decides.
CapAdd(c) ==
  /\ active' = active + 1
  /\ Goto(c, "enter", IF active + 1 > MaxStreams THEN "over" ELSE "admitted")
  /\ UNCHANGED <<gone, feedVars, pubVars, phase>>

\* Mutant: the 503 path gives the count back, and so does a deferred call.
CapBackTwice(c) ==
  /\ Goto(c, "over", "idle")
  /\ active' = active - 2
  /\ UNCHANGED <<gone, feedVars, pubVars, phase>>

\* The 503 path gives the count back.
CapBack(c) ==
  /\ Goto(c, "over", "idle")
  /\ active' = active - 1
  /\ UNCHANGED <<gone, feedVars, pubVars, phase>>

\* A fresh, empty channel joins the hub; the first frame is then written.
Subscribe(c) ==
  /\ MuFree
  /\ Goto(c, "admitted", "write")
  /\ subs' = subs \cup {c}
  /\ since' = [since EXCEPT ![c] = published]
  /\ UNCHANGED <<gone, active, chan, taken, lost, pubVars, phase>>

------------------------------------------------------------------------------
(* The handler: one frame, and the select loop.                            *)

WriteOk(c) ==
  /\ Goto(c, "write", "select")
  /\ UNCHANGED <<gone, active, feedVars, pubVars, phase>>

\* Mutant: a failed write returns without the deferred unsubscribe.
WriteFailLeaks(c) ==
  /\ Goto(c, "write", "leave")
  /\ UNCHANGED <<gone, active, feedVars, pubVars, phase>>

\* The connection is broken, or the client did not read before the rolling
\* write deadline: the handler returns.
WriteFail(c) ==
  /\ Goto(c, "write", "unsub")
  /\ UNCHANGED <<gone, active, feedVars, pubVars, phase>>

Tick(c) ==
  /\ Goto(c, "select", "write")
  /\ UNCHANGED <<gone, active, feedVars, pubVars, phase>>

Recv(c) ==
  /\ chan[c] # <<>>
  /\ Goto(c, "select", "write")
  /\ chan' = [chan EXCEPT ![c] = Tail(@)]
  /\ taken' = [taken EXCEPT ![c] = Append(@, Head(chan[c]))]
  /\ UNCHANGED <<gone, active, subs, since, lost, pubVars, phase>>

\* Mutant: the loop does not select on r.Context().Done().
CtxDoneIgnored(c) ==
  /\ c \in gone
  /\ Goto(c, "select", "select")
  /\ UNCHANGED <<gone, active, feedVars, pubVars, phase>>

CtxDone(c) ==
  /\ c \in gone
  /\ Goto(c, "select", "unsub")
  /\ UNCHANGED <<gone, active, feedVars, pubVars, phase>>

\* Mutant: the loop does not select on the shutdown context.
SrvDoneIgnored(c) ==
  /\ phase # "up"
  /\ Goto(c, "select", "select")
  /\ UNCHANGED <<gone, active, feedVars, pubVars, phase>>

SrvDone(c) ==
  /\ phase # "up"
  /\ Goto(c, "select", "unsub")
  /\ UNCHANGED <<gone, active, feedVars, pubVars, phase>>

------------------------------------------------------------------------------
(* The handler: its deferred calls, last registered first.                 *)

\* Mutant: unsubscribe deletes and closes the channel without hub.mu.
UnsubscribeUnlocked(c) ==
  /\ Goto(c, "unsub", "leave")
  /\ subs' = subs \ {c}
  /\ chan' = [chan EXCEPT ![c] = <<>>]
  /\ taken' = [taken EXCEPT ![c] = <<>>]
  /\ since' = [since EXCEPT ![c] = 0]
  /\ lost' = [lost EXCEPT ![c] = 0]
  /\ UNCHANGED <<gone, active, pubVars, phase>>

\* delete and close under hub.mu; what was still buffered goes with it.
Unsubscribe(c) ==
  /\ MuFree
  /\ Goto(c, "unsub", "leave")
  /\ subs' = subs \ {c}
  /\ chan' = [chan EXCEPT ![c] = <<>>]
  /\ taken' = [taken EXCEPT ![c] = <<>>]
  /\ since' = [since EXCEPT ![c] = 0]
  /\ lost' = [lost EXCEPT ![c] = 0]
  /\ UNCHANGED <<gone, active, pubVars, phase>>

\* Mutant: the deferred decrement is missing.
LeaveKeepsCount(c) ==
  /\ Goto(c, "leave", "idle")
  /\ UNCHANGED <<gone, active, feedVars, pubVars, phase>>

Leave(c) ==
  /\ Goto(c, "leave", "idle")
  /\ active' = active - 1
  /\ UNCHANGED <<gone, feedVars, pubVars, phase>>

------------------------------------------------------------------------------
(* hub.publish.                                                            *)

PubCall(p) ==
  /\ ppc[p] = "idle"
  /\ published + Cardinality({q \in Publishers : ppc[q] = "lock"}) < MaxPub
  /\ ppc' = [ppc EXCEPT ![p] = "lock"]
  /\ UNCHANGED <<handlerVars, feedVars, cur, todo, published, phase>>

\* Mutant: publish ranges over the subscribers without hub.mu.
PubLockFree(p) ==
  /\ ppc[p] = "lock"
  /\ ppc' = [ppc EXCEPT ![p] = "send"]
  /\ published' = published + 1
  /\ cur' = [cur EXCEPT ![p] = published + 1]
  /\ todo' = [todo EXCEPT ![p] = subs]
  /\ UNCHANGED <<handlerVars, feedVars, phase>>

PubLock(p) ==
  /\ MuFree
  /\ ppc[p] = "lock"
  /\ ppc' = [ppc EXCEPT ![p] = "send"]
  /\ published' = published + 1
  /\ cur' = [cur EXCEPT ![p] = published + 1]
  /\ todo' = [todo EXCEPT ![p] = subs]
  /\ UNCHANGED <<handlerVars, feedVars, phase>>

\* Mutant: the send has no default case, so it waits for room.
PubSendBlocking(p, c) ==
  /\ ppc[p] = "send"
  /\ c \in todo[p]
  /\ Len(chan[c]) < ChanCap
  /\ todo' = [todo EXCEPT ![p] = @ \ {c}]
  /\ chan' = [chan EXCEPT ![c] = Append(@, cur[p])]
  /\ UNCHANGED <<handlerVars, subs, taken, since, lost, ppc, cur, published, phase>>

\* One subscriber, in the map's arbitrary order: a non-blocking send that
\* drops the message when the channel is full.
PubSend(p, c) ==
  /\ ppc[p] = "send"
  /\ c \in todo[p]
  /\ todo' = [todo EXCEPT ![p] = @ \ {c}]
  /\ \/ /\ Len(chan[c]) < ChanCap
        /\ chan' = [chan EXCEPT ![c] = Append(@, cur[p])]
        /\ UNCHANGED lost
     \/ /\ Len(chan[c]) = ChanCap
        /\ lost' = [lost EXCEPT ![c] = @ + 1]
        /\ UNCHANGED chan
  /\ UNCHANGED <<handlerVars, subs, taken, since, ppc, cur, published, phase>>

\* Mutant: the default case returns, and the other subscribers get nothing.
PubUnlockEarly(p) ==
  /\ ppc[p] = "send"
  /\ todo' = [todo EXCEPT ![p] = {}]
  /\ ppc' = [ppc EXCEPT ![p] = "idle"]
  /\ cur' = [cur EXCEPT ![p] = 0]
  /\ UNCHANGED <<handlerVars, feedVars, published, phase>>

PubUnlock(p) ==
  /\ ppc[p] = "send"
  /\ todo[p] = {}
  /\ ppc' = [ppc EXCEPT ![p] = "idle"]
  /\ cur' = [cur EXCEPT ![p] = 0]
  /\ UNCHANGED <<handlerVars, feedVars, todo, published, phase>>

------------------------------------------------------------------------------
Handler(c) ==
  \/ CapAdd(c) \/ CapBack(c) \/ Subscribe(c)
  \/ WriteOk(c) \/ WriteFail(c)
  \/ Tick(c) \/ Recv(c) \/ CtxDone(c) \/ SrvDone(c)
  \/ Unsubscribe(c) \/ Leave(c)

Publisher(p) ==
  \/ PubCall(p) \/ PubLock(p) \/ PubUnlock(p)
  \/ \E c \in Clients : PubSend(p, c)

Environment ==
  \/ SigTerm \/ CloseListener
  \/ \E c \in Clients : Arrive(c) \/ Disconnect(c)

Next ==
  \/ Environment
  \/ \E c \in Clients : Handler(c)
  \/ \E p \in Publishers : Publisher(p)

Spec == Init /\ [][Next]_vars

(***************************************************************************)
(* Fairness.  A goroutine that can run does: WF for straight-line code; a  *)
(* write returns within its deadline, one way or the other.  SF where a    *)
(* mutex is taken (Go's mutex hands over to a waiter starved for 1 ms) and *)
(* where select chooses a ready case (uniformly at random, so a case that  *)
(* is ready over and over is chosen).  A goroutine is at one place at a    *)
(* time, so that the steps of one kind share a condition.  Nothing is      *)
(* assumed of Recv and Tick: a stream may never look at its channel.       *)
(* Clients, SIGTERM and callers of publish owe nothing.                    *)
(***************************************************************************)
HandlerFairness ==
  \A c \in Clients :
    /\ WF_vars(CapAdd(c) \/ CapBack(c) \/ WriteOk(c) \/ WriteFail(c) \/ Leave(c))
    /\ SF_vars(Subscribe(c) \/ Unsubscribe(c))
    /\ SF_vars(CtxDone(c) \/ SrvDone(c))

PublisherFairness ==
  \A p \in Publishers :
    /\ SF_vars(PubLock(p))
    /\ WF_vars(PubUnlock(p) \/ \E c \in Clients : PubSend(p, c))

FairSpec == Spec /\ HandlerFairness /\ PublisherFairness /\ WF_vars(CloseListener)

------------------------------------------------------------------------------
(* Properties.                                                             *)

TypeOK ==
  /\ pc \in [Clients -> {"idle", "enter", "over", "admitted", "write",
                         "select", "unsub", "leave"}]
  /\ gone \in SUBSET Clients
  /\ active \in Nat
  /\ subs \in SUBSET Clients
  /\ chan \in [Clients -> Seq(Nat)]
  /\ taken \in [Clients -> Seq(Nat)]
  /\ since \in [Clients -> Nat]
  /\ lost \in [Clients -> Nat]
  /\ ppc \in [Publishers -> {"idle", "lock", "send"}]
  /\ cur \in [Publishers -> Nat]
  /\ todo \in [Publishers -> SUBSET Clients]
  /\ published \in Nat
  /\ phase \in {"up", "stopping", "closed"}

\* The atomic counter is exactly the number of handlers between their Add(1)
\* and their Add(-1), on every path out of the handler, so no slot is ever
\* lost or freed twice (stream.go:29-34).
SlotAccounting == active = Cardinality(Counted)

\* However many requests race through the Add-then-compare, no more than
\* MaxStreams of them are streaming (stream.go:29-33).
CapHolds == Cardinality(Admitted) <= MaxStreams

\* The hub holds one channel per running stream and none for a request that
\* was turned away or has returned (stream.go:36-38).
NoLeakedSubscriber == subs = Subscribed

\* A publisher never has a closed channel ahead of it: the send-on-closed
\* panic that hub.go:41-42 says cannot happen.
NoSendOnClosed == \A p \in Publishers : todo[p] \subseteq subs

\* Every message published since a stream subscribed has been taken, is
\* buffered, is still to be sent, or was dropped by a full channel: nothing
\* is lost for any other reason (hub.go:22-28, 43-52).
Pending(c) == {p \in Publishers : c \in todo[p]}

NoSilentLoss ==
  \A c \in subs :
    since[c] + Len(taken[c]) + Len(chan[c]) + lost[c] + Cardinality(Pending(c))
      = published

\* The hub implements Broadcast: a stream sees messages published after it
\* joined, in the order all streams see them (hub.go:41-52).
Given(c) == IF taken[c] = <<>> THEN since[c] ELSE taken[c][Len(taken[c])]

Feed == INSTANCE Broadcast WITH
  Readers <- Clients,
  sent    <- published,
  joined  <- subs,
  at      <- [c \in Clients |-> Given(c)]

FeedSpec == Feed!Spec

\* publish returns even if no stream ever takes a message off its channel:
\* "the webhook path must never stall" (hub.go:11-12).
PublishReturns ==
  \A p \in Publishers : (ppc[p] = "lock") ~> (ppc[p] = "idle")

\* A client that goes away gives its slot back, or was replaced by a new
\* request on that connection (stream.go:79-80).
SlotComesBack == \A c \in Clients : (c \in gone) ~> (c \notin Counted)

\* After SIGTERM every stream ends by itself, so http.Server.Shutdown, which
\* waits for handlers and cancels none, returns (stream.go:17-19).
StreamsDrain == (phase = "stopping") ~> [](phase = "closed" /\ Counted = {} /\ active = 0)
==============================================================================
