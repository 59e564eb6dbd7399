---------------------------- MODULE PullConsumer ----------------------------
(***************************************************************************)
(* Messages from publish to their ack: publish, and workers that share one *)
(* durable pull consumer (pull_subscribe, consumer_fetch, consumer_ack and *)
(* consumer_nack of client.py), driven by the loop of                      *)
(* examples/pull_loop.py (fetch a batch; take each message and ack or nack *)
(* it; any exception ends the program, and it is started again).           *)
(*                                                                         *)
(* The broker is external: it hands out ready messages, waits ack_wait for *)
(* their acks, hands them out again, and gives a message up after          *)
(* max_deliver deliveries.                                                 *)
(***************************************************************************)
EXTENDS Naturals, Sequences, FiniteSets, SequencesExt, Http

CONSTANTS
  Workers,      \* programs running the pull loop
  Msgs,         \* sequence numbers of the stream
  Batch,        \* batch argument of fetch
  MaxDeliver,   \* max_deliver of the durable consumer
  MaxFaults     \* bound: failed requests and crashes of the workers

ASSUME PullAssumption ==
  /\ IsFiniteSet(Workers)
  /\ Msgs \subseteq Nat
  /\ {Batch, MaxDeliver} \subseteq Nat \ {0}
  /\ MaxFaults \in Nat

VARIABLES
  poison,       \* messages whose payload is not valid base64: none of publish
  durable,      \* broker: the consumer exists
  status,       \* broker: "absent", "ready", "out", "acked" or "dead"
  deliveries,   \* broker: how often each message was handed out
  pc,           \* workers: "down", "started", "idle", "fetching", "working", "handled"
  reply,        \* messages in the fetch response on its way to a worker
  batch,        \* messages fetched and not yet acked or nacked by a worker
  handled,      \* how often each message was taken by the loop body
  faults,
  overdue,      \* messages whose ack_wait has run out in a worker's hands
  lost          \* hand-outs of each message that no loop body took, by cause

Causes == {"fault", "poison", "blank"}

vars == <<poison, durable, status, deliveries, pc, reply, batch, handled, faults, overdue, lost>>

TypeOK ==
  /\ poison \subseteq Msgs
  /\ durable \in BOOLEAN
  /\ status \in [Msgs -> {"absent", "ready", "out", "acked", "dead"}]
  /\ deliveries \in [Msgs -> 0..MaxDeliver]
  /\ pc \in [Workers -> {"down", "started", "idle", "fetching", "working", "handled"}]
  /\ reply \in [Workers -> Seq(Msgs)]
  /\ batch \in [Workers -> Seq(Msgs)]
  /\ handled \in [Msgs -> 0..MaxDeliver]
  /\ faults \in 0..MaxFaults
  /\ overdue \subseteq Msgs
  /\ lost \in [Causes -> [Msgs -> 0..MaxDeliver]]

Init ==
  /\ poison \in SUBSET Msgs
  /\ durable = FALSE
  /\ status = [m \in Msgs |-> "absent"]
  /\ deliveries = [m \in Msgs |-> 0]
  /\ pc = [w \in Workers |-> "down"]
  /\ reply = [w \in Workers |-> << >>]
  /\ batch = [w \in Workers |-> << >>]
  /\ handled = [m \in Msgs |-> 0]
  /\ faults = 0
  /\ overdue = {}
  /\ lost = [c \in Causes |-> [m \in Msgs |-> 0]]

Held(w) == ToSet(reply[w]) \cup ToSet(batch[w])

\* What it has and has not taken yet: a fetch that has returned nothing, and all of a
\* batch but the message its loop body is at.
Untaken(w) ==
  ToSet(reply[w]) \cup ToSet(IF pc[w] = "handled" THEN Tail(batch[w]) ELSE batch[w])

\* These hand-outs are lost to a cause (history: no guard reads it).
LosesTo(w, cause) ==
  lost' = [lost EXCEPT ![cause] = [m \in Msgs |-> IF m \in Untaken(w) THEN @[m] + 1 ELSE @[m]]]

\* The program ends, and what it had fetched is gone with it.
Exit(w) ==
  /\ pc' = [pc EXCEPT ![w] = "down"]
  /\ reply' = [reply EXCEPT ![w] = << >>]
  /\ batch' = [batch EXCEPT ![w] = << >>]

\* The same through a failed request or a crash.
Fault(w) ==
  /\ faults < MaxFaults
  /\ faults' = faults + 1
  /\ LosesTo(w, "fault")
  /\ Exit(w)

\* publish, of the next message of the stream; whatever its caller is told, it is
\* in the stream or not (a poisoned one comes from elsewhere).
Publish(r) ==
  /\ MayDone(r)
  /\ \E m \in Msgs :
       /\ status[m] = "absent"
       /\ \A k \in Msgs : k < m => status[k] # "absent"
       /\ status' = [status EXCEPT ![m] = "ready"]
  /\ UNCHANGED <<poison, durable, deliveries, pc, reply, batch, handled, faults, overdue, lost>>

\* Slip: a consumer that exists is an error.
Subscribed_OnlyNew(r) == DoJson(r) \in {"object", "odd", "none"}

\* pull_subscribe: create_consumer, where 409 (the durable consumer exists)
\* counts as success; any other outcome ends the program before it has begun.
Subscribed(r) == DoJson(r) \in {"object", "odd", "none", "409"}

Start(w, r) ==
  /\ pc[w] = "down"
  /\ \/ ~ durable /\ MayDone(r) /\ durable' = TRUE
     \/ (durable \/ r # "409") /\ ~ Done(r) /\ UNCHANGED durable
  /\ pc' = IF Subscribed(r) THEN [pc EXCEPT ![w] = "started"] ELSE pc
  /\ UNCHANGED <<poison, status, deliveries, reply, batch, handled, faults, overdue, lost>>

Subscribe(w) == \E r \in Replies : Start(w, r)

\* The loop is over (IOMESH_LOOPS), after one fetch at least.
Stop(w) ==
  /\ pc[w] = "idle"
  /\ Exit(w)
  /\ UNCHANGED <<poison, durable, status, deliveries, handled, faults, overdue, lost>>

Ready == {m \in Msgs : status[m] = "ready"}

\* The messages of a response are in stream order.
Ascending(q) == \A i, j \in 1..Len(q) : i < j => q[i] < q[j]

\* A fetch request reaches the broker, which hands out up to batch messages, and
\* some if there are any; an empty response is the end of this round.
FetchServed(w) ==
  /\ pc[w] \in {"started", "idle"}
  /\ \E q \in BoundedSeq(Ready, Batch) :
       LET B == ToSet(q)
       IN  /\ Ascending(q)
           /\ q = << >> => Ready = {}
           /\ status' = [m \in Msgs |-> IF m \in B THEN "out" ELSE status[m]]
           /\ deliveries' = [m \in Msgs |-> IF m \in B THEN deliveries[m] + 1 ELSE deliveries[m]]
           /\ reply' = [reply EXCEPT ![w] = q]
           /\ pc' = [pc EXCEPT ![w] = IF q = << >> THEN "idle" ELSE "fetching"]
  /\ UNCHANGED <<poison, durable, batch, handled, faults, overdue, lost>>

\* Slip: the last message of the batch is left out.
FetchReturns_DropsLast(w) ==
  /\ pc[w] = "fetching"
  /\ ToSet(reply[w]) \cap poison = {}
  /\ batch' = [batch EXCEPT ![w] = Front(reply[w])]
  /\ reply' = [reply EXCEPT ![w] = << >>]
  /\ pc' = [pc EXCEPT ![w] = IF Len(reply[w]) = 1 THEN "idle" ELSE "working"]
  /\ UNCHANGED <<poison, durable, status, deliveries, handled, faults, overdue, lost>>

\* Slip: the batch is acked when it arrives.
FetchReturns_AutoAck(w) ==
  /\ pc[w] = "fetching"
  /\ ToSet(reply[w]) \cap poison = {}
  /\ status' = [m \in Msgs |-> IF m \in ToSet(reply[w]) THEN "acked" ELSE status[m]]
  /\ batch' = [batch EXCEPT ![w] = reply[w]]
  /\ reply' = [reply EXCEPT ![w] = << >>]
  /\ pc' = [pc EXCEPT ![w] = "working"]
  /\ UNCHANGED <<poison, durable, deliveries, handled, faults, overdue, lost>>

\* The response arrives whole, and every payload decodes.
FetchReturns(w) ==
  /\ pc[w] = "fetching"
  /\ ToSet(reply[w]) \cap poison = {}
  /\ batch' = [batch EXCEPT ![w] = reply[w]]
  /\ reply' = [reply EXCEPT ![w] = << >>]
  /\ pc' = [pc EXCEPT ![w] = "working"]
  /\ UNCHANGED <<poison, durable, status, deliveries, handled, faults, overdue, lost>>

\* One payload of the batch does not decode: ClientError, the whole batch with it.
FetchPoisoned(w) ==
  /\ pc[w] = "fetching"
  /\ ToSet(reply[w]) \cap poison # {}
  /\ LosesTo(w, "poison")
  /\ Exit(w)
  /\ UNCHANGED <<poison, durable, status, deliveries, handled, faults, overdue>>

\* The answer to a fetch that was served is a 2xx without a body, with JSON that is no
\* object, or with an object without messages: an empty list, and no exception.
FetchBlank(w) ==
  /\ pc[w] = "fetching"
  /\ LosesTo(w, "blank")
  /\ reply' = [reply EXCEPT ![w] = << >>]
  /\ pc' = [pc EXCEPT ![w] = "idle"]
  /\ UNCHANGED <<poison, durable, status, deliveries, batch, handled, faults, overdue>>

\* The request or its response fails: an exception, whatever was handed out.
FetchFails(w) ==
  /\ pc[w] \in {"started", "idle", "fetching"}
  /\ Fault(w)
  /\ UNCHANGED <<poison, durable, status, deliveries, handled, overdue>>

\* The loop body takes the next message ...
Handle(w) ==
  /\ pc[w] = "working"
  /\ batch[w] # << >>
  /\ handled' = [handled EXCEPT ![Head(batch[w])] = @ + 1]
  /\ pc' = [pc EXCEPT ![w] = "handled"]
  /\ UNCHANGED <<poison, durable, status, deliveries, reply, batch, faults, overdue, lost>>

\* Slip: the loop stays at the message it has settled.
Settled_NotPopped(w) ==
  /\ pc' = [pc EXCEPT ![w] = "working"]
  /\ UNCHANGED <<batch, faults, lost, reply>>

\* ... and acks or nacks it; then the next one, or the next fetch.
Settled(w) ==
  /\ batch' = [batch EXCEPT ![w] = Tail(@)]
  /\ pc' = [pc EXCEPT ![w] = IF Tail(batch[w]) = << >> THEN "idle" ELSE "working"]
  /\ UNCHANGED <<faults, lost, reply>>

\* The broker's side of an ack, the status it leaves a message in: seqs are acked
\* whoever holds them now.
Acked(m) == IF status[m] \in {"out", "ready"} THEN "acked" ELSE status[m]

Released(m) == IF deliveries[m] = MaxDeliver THEN "dead" ELSE "ready"

Nacked(m) == IF status[m] = "out" THEN Released(m) ELSE status[m]

\* What a helper that drops its value does with the reply: return or raise.
Returns(r) == DoJson(r) \in {"object", "odd", "none"}

Settle(w, to, r) ==
  /\ pc[w] = "handled"
  /\ \/ MayDone(r) /\ status' = [status EXCEPT ![Head(batch[w])] = to]
     \/ ~ Done(r) /\ UNCHANGED status
  /\ IF Returns(r) THEN Settled(w) ELSE Fault(w)
  /\ UNCHANGED <<poison, durable, deliveries, handled, overdue>>

\* Slip: an ack names every message still in the batch.
Ack_WholeBatch(w) == \E r \in Replies :
  /\ pc[w] = "handled"
  /\ \/ /\ MayDone(r)
        /\ status' = [m \in Msgs |-> IF m \in ToSet(batch[w]) THEN Acked(m) ELSE status[m]]
     \/ ~ Done(r) /\ UNCHANGED status
  /\ IF Returns(r) THEN Settled(w) ELSE Fault(w)
  /\ UNCHANGED <<poison, durable, deliveries, handled, overdue>>

Ack(w)  == \E r \in Replies : Settle(w, Acked(Head(batch[w])), r)
Nack(w) == \E r \in Replies : Settle(w, Nacked(Head(batch[w])), r)

Crash(w) ==
  /\ pc[w] # "down"
  /\ Fault(w)
  /\ UNCHANGED <<poison, durable, status, deliveries, handled, overdue>>

\* ack_wait runs out.
Expire(m) ==
  /\ status[m] = "out"
  /\ status' = [status EXCEPT ![m] = Released(m)]
  /\ overdue' = IF \E w \in Workers : m \in Held(w) THEN overdue \cup {m} ELSE overdue
  /\ UNCHANGED <<poison, durable, deliveries, pc, reply, batch, handled, faults, lost>>

Next ==
  \/ \E w \in Workers :
       \/ Subscribe(w)
       \/ Stop(w)
       \/ FetchServed(w)
       \/ FetchReturns(w) \/ FetchPoisoned(w) \/ FetchBlank(w) \/ FetchFails(w)
       \/ Handle(w) \/ Ack(w) \/ Nack(w) \/ Crash(w)
  \/ \E m \in Msgs : Expire(m)
  \/ \E r \in Replies : Publish(r)

Spec == Init /\ [][Next]_vars

\* A program that has ended is started again, a broker that is asked again and again
\* lets it subscribe, a program that runs goes on, and ack_wait runs out.
Fairness ==
  /\ \A w \in Workers :
       /\ WF_vars(Subscribe(w) /\ pc'[w] # "down")
       /\ WF_vars(FetchServed(w))
       /\ WF_vars(FetchReturns(w) \/ FetchPoisoned(w) \/ FetchBlank(w))
       /\ WF_vars(Handle(w))
       /\ WF_vars(Ack(w) \/ Nack(w))
  /\ \A m \in Msgs : WF_vars(Expire(m))

FairSpec == Spec /\ Fairness

-----------------------------------------------------------------------------
\* No message is marked done that no loop body has seen, whoever acked it, in
\* whatever state its worker, its batch or the request ended (consumer_ack sends
\* only the sequence numbers of its own messages).
AckedWasHandled == \A m \in Msgs : status[m] = "acked" => handled[m] > 0

Holders(m) == {w \in Workers : m \in Untaken(w)}

\* A hand-out is taken at most once: several workers, failed acks and lost
\* responses multiply deliveries, never the work done for one of them.
OneHandlingPerDelivery ==
  \A m \in Msgs : handled[m] + Cardinality(Holders(m)) <= deliveries[m]

\* A loop body takes a message only while the broker counts it as handed out, unless
\* its ack_wait has run out in a worker's hands.
TakenWhileOut ==
  [][\A m \in Msgs : handled'[m] # handled[m] => status[m] = "out" \/ m \in overdue]_vars

\* Where the hand-outs of a message went: taken, in somebody's hands, or lost.
Losses(m) == lost["fault"][m] + lost["poison"][m] + lost["blank"][m]

\* A good message that the broker gives up unseen, while no worker has it, has cost
\* all of max_deliver, each hand-out lost to one of three things: a failed request or
\* crash, which costs it one hand-out at most; a payload of its batch that does not
\* decode (lines 587-590 discard that whole batch), which costs it no more than that
\* payload's own message; or an answer without messages, which the caller cannot tell
\* from an empty queue (lines 567-577).  Nothing else loses a message.
UnseenIsAccounted ==
  \A m \in Msgs \ poison :
    status[m] = "dead" /\ handled[m] = 0 /\ Holders(m) = {} =>
      /\ Losses(m) = MaxDeliver
      /\ lost["fault"][m] <= faults
      /\ \A p \in Msgs : poison \subseteq {p} => lost["poison"][m] <= lost["poison"][p]
      /\ poison = {} => lost["poison"][m] = 0

\* The inductive invariant.  A worker has messages where its loop can have them, in
\* stream order, and has taken the one it is about to settle ...
HeldFitsPc ==
  \A w \in Workers :
    /\ Ascending(reply[w]) /\ Ascending(batch[w])
    /\ reply[w] # << >> <=> pc[w] = "fetching"
    /\ batch[w] # << >> <=> pc[w] \in {"working", "handled"}
    /\ pc[w] = "handled" => handled[Head(batch[w])] > 0

\* ... the broker hands out no more than max_deliver times, and that often what it
\* gives up ...
DeliveriesFitStatus ==
  \A m \in Msgs :
    /\ status[m] = "absent" => deliveries[m] = 0
    /\ status[m] = "ready" => deliveries[m] < MaxDeliver
    /\ status[m] = "dead" => deliveries[m] = MaxDeliver

\* ... every hand-out was taken, is in a worker's hands, or is lost ...
HandOutsAreAccounted ==
  \A m \in Msgs : deliveries[m] = handled[m] + Cardinality(Holders(m)) + Losses(m)

\* ... nobody holds a message that is not out, nor two the same, but after an expired
\* ack_wait ...
HeldIsOut == \A w \in Workers : \A m \in Held(w) : status[m] = "out" \/ m \in overdue

TwiceHeldIsOverdue ==
  \A v, w \in Workers : v # w => Held(v) \cap Held(w) \subseteq overdue

\* ... and a fault costs a message one hand-out at most, an undecodable payload no
\* other message more than its own.
LostToFaults == \A m \in Msgs : lost["fault"][m] <= faults

LostToPoison ==
  /\ poison = {} => \A m \in Msgs : lost["poison"][m] = 0
  /\ \A p \in Msgs : poison \subseteq {p} =>
       \A m \in Msgs : lost["poison"][m] <= lost["poison"][p]

\* Inductive: workers, broker, faults and expiries keep it, in any order.
Inv ==
  /\ TypeOK
  /\ HeldFitsPc
  /\ DeliveriesFitStatus
  /\ AckedWasHandled
  /\ HandOutsAreAccounted
  /\ HeldIsOut
  /\ TwiceHeldIsOverdue
  /\ LostToFaults
  /\ LostToPoison

\* What a status of the broker means to who waits for the message.
FateOf(s) ==
  CASE s = "absent" -> "unsent"
    [] s \in {"ready", "out"} -> "waiting"
    [] s = "acked" -> "done"
    [] s = "dead" -> "dead"

Fate == [m \in Msgs |-> FateOf(status[m])]

Queue == INSTANCE Delivery WITH fate <- Fate, taken <- handled

\* Publish and the consumer together keep what Delivery promises, whatever the
\* workers, late acks and lost answers do.
DeliverySpec == Queue!Spec

\* Every message of the stream is done or given up in the end, behind an undecodable
\* one too: a program that an exception has ended subscribes again to the consumer
\* that is there.
EveryMessageSettles ==
  \A m \in Msgs : status[m] # "absent" ~> status[m] \in {"acked", "dead"}
=============================================================================
