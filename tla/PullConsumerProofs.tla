------------------------- MODULE PullConsumerProofs -------------------------
(***************************************************************************)
(* PullConsumer proved for any finite set of workers, any stream, batch    *)
(* size, max_deliver and number of faults.                                 *)
(***************************************************************************)
EXTENDS PullConsumer, TLAPS, SequenceTheorems, FiniteSetTheorems

\* In a sequence that ascends, the head is before the tail and not in it.
LEMMA TailOfAscending ==
  ASSUME NEW q \in Seq(Msgs), q # << >>, Ascending(q)
  PROVE  /\ Head(q) \in Msgs /\ Head(q) \in ToSet(q)
         /\ Tail(q) \in Seq(Msgs) /\ Ascending(Tail(q))
         /\ ToSet(Tail(q)) = ToSet(q) \ {Head(q)}
  <1>0. Msgs \subseteq Nat
    BY PullAssumption
  <1>1. Len(q) \in Nat \ {0} /\ \A i \in 1..Len(q) : q[i] \in Msgs
    BY EmptySeq, ElementOfSeq
  <1>2. /\ Tail(q) \in Seq(Msgs) /\ Head(q) = q[1]
        /\ Len(Tail(q)) = Len(q) - 1
        /\ \A i \in 1..Len(Tail(q)) : Tail(q)[i] = q[i + 1]
    BY <1>1, HeadTailProperties
  <1>3. ToSet(q) = {q[i] : i \in 1..Len(q)}
    BY DEF ToSet
  <1>4. ToSet(Tail(q)) = {q[i + 1] : i \in 1..(Len(q) - 1)}
    <2>1. DOMAIN Tail(q) = 1..(Len(q) - 1)
      BY <1>1, <1>2, LenProperties
    <2> QED
      BY <1>2, <2>1 DEF ToSet
  <1>5. Ascending(Tail(q))
    BY <1>1, <1>2 DEF Ascending
  <1>6. \A i \in 1..(Len(q) - 1) : q[1] # q[i + 1]
    <2> SUFFICES ASSUME NEW i \in 1..(Len(q) - 1) PROVE q[1] # q[i + 1]
      OBVIOUS
    <2>1. 1 \in 1..Len(q) /\ i + 1 \in 1..Len(q) /\ 1 < i + 1
      BY <1>1
    <2>2. q[1] < q[i + 1] /\ q[1] \in Nat /\ q[i + 1] \in Nat
      BY <1>0, <1>1, <2>1 DEF Ascending
    <2> QED
      BY <2>2
  <1>7. \A i \in 1..Len(q) : i = 1 \/ (i - 1 \in 1..(Len(q) - 1) /\ q[i] = q[(i - 1) + 1])
    BY <1>1
  <1>8. ToSet(Tail(q)) = ToSet(q) \ {Head(q)}
    <2>1. ToSet(Tail(q)) \subseteq ToSet(q) \ {Head(q)}
      BY <1>1, <1>2, <1>3, <1>4, <1>6
    <2>2. ToSet(q) \ {Head(q)} \subseteq ToSet(Tail(q))
      BY <1>1, <1>2, <1>3, <1>4, <1>7
    <2> QED
      BY <2>1, <2>2
  <1> QED
    BY <1>1, <1>2, <1>3, <1>5, <1>8

\* The elements of a sequence of messages are messages, and the empty one has none.
LEMMA ElementsOf ==
  /\ ToSet(<< >>) = {}
  /\ Ascending(<< >>)
  /\ \A q \in Seq(Msgs) : ToSet(q) \subseteq Msgs
  <1>1. ToSet(<< >>) = {} /\ Ascending(<< >>)
    BY EmptySeq DEF ToSet, Ascending
  <1>2. \A q \in Seq(Msgs) : ToSet(q) \subseteq Msgs
    BY ElementOfSeq DEF ToSet
  <1> QED
    BY <1>1, <1>2

\* A batch the broker may hand out is a sequence of ready messages.
LEMMA HandedOut ==
  ASSUME TypeOK, NEW q \in BoundedSeq(Ready, Batch)
  PROVE  q \in Seq(Msgs) /\ ToSet(q) \subseteq Ready /\ Ready \subseteq Msgs
  <1>1. PICK n \in 0..Batch : q \in [1..n -> Ready]
    BY DEF BoundedSeq, SeqOf
  <1>2. n \in Nat
    BY PullAssumption
  <1> QED
    BY <1>1, <1>2, SeqDef DEF Ready, ToSet

\* Fewer workers with a message are no more of them.
LEMMA HoldersCount ==
  ASSUME NEW S \in SUBSET Workers
  PROVE  /\ IsFiniteSet(S) /\ Cardinality(S) \in Nat
         /\ \A T \in SUBSET S : Cardinality(T) <= Cardinality(S)
  <1>1. IsFiniteSet(S)
    BY PullAssumption, FS_Subset
  <1> QED
    BY <1>1, FS_CardinalityType, FS_Subset

\* Where a worker stands is a matter of its own pc, response and batch.
LEMMA OwnState ==
  ASSUME NEW v, pc'[v] = pc[v], reply'[v] = reply[v], batch'[v] = batch[v]
  PROVE  Held(v)' = Held(v) /\ Untaken(v)' = Untaken(v)
  BY DEF Held, Untaken

\* Initially nothing is in the stream and nobody holds anything.
LEMMA InitInv == Init => Inv
  <1> SUFFICES ASSUME Init PROVE Inv
    OBVIOUS
  <1> USE DEF Init
  <1>0. MaxDeliver \in Nat \ {0} /\ MaxFaults \in Nat
    BY PullAssumption
  <1>1. TypeOK
    <2>1. reply \in [Workers -> Seq(Msgs)] /\ batch \in [Workers -> Seq(Msgs)]
      BY EmptySeq
    <2>2. deliveries \in [Msgs -> 0..MaxDeliver] /\ handled \in [Msgs -> 0..MaxDeliver]
      BY <1>0
    <2>3. faults \in 0..MaxFaults
      BY <1>0
    <2>4. lost \in [Causes -> [Msgs -> 0..MaxDeliver]]
      BY <1>0
    <2> QED
      BY <2>1, <2>2, <2>3, <2>4 DEF TypeOK
  <1>2. \A w \in Workers : Held(w) = {} /\ Untaken(w) = {}
    BY ElementsOf DEF Held, Untaken
  <1>3. HeldFitsPc
    BY ElementsOf DEF HeldFitsPc
  <1>4. HandOutsAreAccounted
    <2>1. \A m \in Msgs : Holders(m) = {}
      BY <1>2 DEF Holders
    <2>2. \A m \in Msgs : Cardinality(Holders(m)) = 0
      BY <2>1, FS_EmptySet
    <2>3. \A m \in Msgs : Losses(m) = 0
      BY DEF Losses, Causes
    <2> QED
      BY <2>2, <2>3 DEF HandOutsAreAccounted
  <1>5. HeldIsOut /\ TwiceHeldIsOverdue
    BY <1>2 DEF HeldIsOut, TwiceHeldIsOverdue
  <1>6. DeliveriesFitStatus /\ AckedWasHandled /\ LostToFaults /\ LostToPoison
    BY DEF DeliveriesFitStatus, AckedWasHandled, LostToFaults, LostToPoison, Causes
  <1> QED
    BY <1>1, <1>3, <1>4, <1>5, <1>6 DEF Inv

\* A status that moves under messages that workers keep or let go: it is fit for how
\* often the message was handed out and taken, and who still has it is late.
LEMMA StatusMoves ==
  ASSUME Inv, TypeOK', UNCHANGED <<deliveries, handled>>, overdue \subseteq overdue',
         \A v \in Workers : Held(v)' \subseteq Held(v),
         \A m \in Msgs : status'[m] # status[m] =>
           /\ status'[m] \in {"ready", "acked", "dead"}
           /\ status'[m] = "ready" => deliveries[m] < MaxDeliver
           /\ status'[m] = "acked" => handled[m] > 0
           /\ status'[m] = "dead" => deliveries[m] = MaxDeliver
           /\ \A v \in Workers : m \in Held(v)' => m \in overdue'
  PROVE  DeliveriesFitStatus' /\ AckedWasHandled' /\ HeldIsOut' /\ TwiceHeldIsOverdue'
  <1> USE DEF Inv
  <1>1. DeliveriesFitStatus'
    BY DEF DeliveriesFitStatus, TypeOK
  <1>2. AckedWasHandled'
    BY DEF AckedWasHandled
  <1>3. HeldIsOut'
    <2> SUFFICES ASSUME NEW v \in Workers, NEW m \in Held(v)'
                 PROVE  status'[m] = "out" \/ m \in overdue'
      BY DEF HeldIsOut
    <2>1. m \in Held(v) /\ (status[m] = "out" \/ m \in overdue)
      BY DEF HeldIsOut
    <2>2. m \in Msgs
      BY <2>1, ElementsOf DEF Held, TypeOK
    <2> QED
      BY <2>1, <2>2
  <1>4. TwiceHeldIsOverdue'
    BY DEF TwiceHeldIsOverdue
  <1> QED
    BY <1>1, <1>2, <1>3, <1>4

\* A step that takes, hands out and loses no message keeps the invariant.
LEMMA QuietStep ==
  ASSUME Inv, TypeOK', HeldFitsPc',
         UNCHANGED <<poison, deliveries, handled, faults, lost>>,
         overdue \subseteq overdue',
         \A v \in Workers : Held(v)' \subseteq Held(v) /\ Untaken(v)' = Untaken(v),
         \A m \in Msgs : status'[m] # status[m] =>
           /\ status'[m] \in {"ready", "acked", "dead"}
           /\ status'[m] = "ready" => deliveries[m] < MaxDeliver
           /\ status'[m] = "acked" => handled[m] > 0
           /\ status'[m] = "dead" => deliveries[m] = MaxDeliver
           /\ \A v \in Workers : m \in Held(v)' => m \in overdue'
  PROVE  Inv'
  <1>1. DeliveriesFitStatus' /\ AckedWasHandled' /\ HeldIsOut' /\ TwiceHeldIsOverdue'
    BY StatusMoves
  <1>2. HandOutsAreAccounted'
    <2>1. \A m \in Msgs : Holders(m)' = Holders(m)
      BY DEF Holders
    <2> QED
      BY <2>1 DEF Inv, HandOutsAreAccounted, Losses
  <1>3. LostToFaults' /\ LostToPoison'
    BY DEF Inv, LostToFaults, LostToPoison
  <1> QED
    BY <1>1, <1>2, <1>3 DEF Inv

\* A worker that lets go of what it has not taken: it is one hand-out less in hands
\* and one more lost, of each message.  A fault counts one fault for them all, and an
\* undecodable payload is among what its batch loses.
LEMMA LetGo ==
  ASSUME Inv, NEW w \in Workers, NEW cause \in Causes, LosesTo(w, cause),
         UNCHANGED <<poison, deliveries, handled>>,
         faults' = IF cause = "fault" THEN faults + 1 ELSE faults,
         cause = "poison" => Untaken(w) \cap poison # {},
         Untaken(w)' = {},
         \A v \in Workers \ {w} : Untaken(v)' = Untaken(v)
  PROVE  /\ lost' \in [Causes -> [Msgs -> 0..MaxDeliver]]
         /\ HandOutsAreAccounted' /\ LostToFaults' /\ LostToPoison'
  <1> USE DEF Inv
  <1> DEFINE U == Untaken(w)
  <1>1. /\ "fault" \in Causes /\ "poison" \in Causes /\ "blank" \in Causes
        /\ cause \in {"fault", "poison", "blank"}
    BY DEF Causes
  <1>2. /\ \A c \in Causes \ {cause} : lost'[c] = lost[c]
        /\ \A m \in Msgs : lost'[cause][m] = IF m \in U THEN lost[cause][m] + 1 ELSE lost[cause][m]
        /\ lost' = [lost EXCEPT ![cause] = [m \in Msgs |-> IF m \in U THEN @[m] + 1 ELSE @[m]]]
    BY DEF LosesTo, TypeOK
  <1>3. \A c \in Causes : \A m \in Msgs : lost[c][m] \in Nat
    BY PullAssumption DEF TypeOK
  <1>4. faults \in Nat
    BY PullAssumption DEF TypeOK
  <1> HIDE DEF U
  <1>5. \A m \in Msgs :
          /\ Holders(m) \in SUBSET Workers
          /\ m \in U => w \in Holders(m) /\ Holders(m)' = Holders(m) \ {w}
          /\ m \notin U => Holders(m)' = Holders(m)
    BY DEF Holders, U
  <1>6. \A m \in Msgs : IsFiniteSet(Holders(m)) /\ Cardinality(Holders(m)) \in Nat
    BY <1>5, HoldersCount
  <1>7. \A m \in Msgs :
          /\ m \in U => /\ Cardinality(Holders(m)) > 0
                        /\ Cardinality(Holders(m)') = Cardinality(Holders(m)) - 1
          /\ m \notin U => Cardinality(Holders(m)') = Cardinality(Holders(m))
    <2> SUFFICES ASSUME NEW m \in Msgs, m \in U
                 PROVE  /\ Cardinality(Holders(m)) > 0
                        /\ Cardinality(Holders(m)') = Cardinality(Holders(m)) - 1
      BY <1>5
    <2>1. /\ w \in Holders(m) /\ Holders(m)' = Holders(m) \ {w}
          /\ IsFiniteSet(Holders(m)) /\ Cardinality(Holders(m)) \in Nat
      BY <1>5, <1>6
    <2>2. Cardinality(Holders(m)) # 0
      BY <2>1, FS_EmptySet
    <2>3. Cardinality(Holders(m) \ {w}) = Cardinality(Holders(m)) - 1
      BY <2>1, FS_RemoveElement
    <2> HIDE DEF Inv
    <2> QED
      BY <2>1, <2>2, <2>3
  <1>8. \A m \in Msgs : /\ deliveries[m] = handled[m] + Cardinality(Holders(m)) + Losses(m)
                        /\ deliveries[m] \in 0..MaxDeliver /\ handled[m] \in Nat
                        /\ MaxDeliver \in Nat
    BY PullAssumption DEF HandOutsAreAccounted, TypeOK
  <1>9. \A m \in Msgs : Losses(m) \in Nat /\ lost[cause][m] <= Losses(m)
    BY <1>1, <1>3 DEF Losses
  <1>10. \A m \in Msgs : Losses(m)' = IF m \in U THEN Losses(m) + 1 ELSE Losses(m)
    <2>1. CASE cause = "fault"
      BY <1>1, <1>2, <1>3, <2>1 DEF Losses
    <2>2. CASE cause = "poison"
      BY <1>1, <1>2, <1>3, <2>2 DEF Losses
    <2>3. CASE cause = "blank"
      BY <1>1, <1>2, <1>3, <2>3 DEF Losses
    <2> QED
      BY <1>1, <2>1, <2>2, <2>3
  <1>11. lost' \in [Causes -> [Msgs -> 0..MaxDeliver]]
    <2>1. \A m \in Msgs : (IF m \in U THEN lost[cause][m] + 1 ELSE lost[cause][m]) \in 0..MaxDeliver
      BY <1>3, <1>6, <1>7, <1>8, <1>9
    <2> QED
      BY <1>2, <2>1 DEF TypeOK
  <1>12. HandOutsAreAccounted'
    <2> SUFFICES ASSUME NEW m \in Msgs
                 PROVE  deliveries[m] = handled[m] + Cardinality(Holders(m)') + Losses(m)'
      BY DEF HandOutsAreAccounted
    <2> QED
      BY <1>6, <1>7, <1>8, <1>9, <1>10
  <1>13. LostToFaults'
    <2> SUFFICES ASSUME NEW m \in Msgs PROVE lost'["fault"][m] <= faults'
      BY DEF LostToFaults
    <2>1. lost["fault"][m] <= faults
      BY DEF LostToFaults
    <2>2. CASE cause = "fault"
      BY <1>1, <1>2, <1>3, <1>4, <2>1, <2>2
    <2>3. CASE cause # "fault"
      BY <1>1, <1>2, <2>1, <2>3
    <2> QED
      BY <2>2, <2>3
  <1>14. LostToPoison'
    <2>1. CASE cause = "poison"
      <3>1. poison # {} /\ \A p \in Msgs : poison \subseteq {p} => p \in U
        BY <2>1 DEF U
      <3>2. \A p \in Msgs : poison \subseteq {p} =>
              \A m \in Msgs : lost'["poison"][m] <= lost'["poison"][p]
        <4> SUFFICES ASSUME NEW p \in Msgs, poison \subseteq {p}, NEW m \in Msgs
                     PROVE  lost'["poison"][m] <= lost'["poison"][p]
          OBVIOUS
        <4>1. lost["poison"][m] <= lost["poison"][p]
          BY DEF LostToPoison
        <4> QED
          BY <1>1, <1>2, <1>3, <2>1, <3>1, <4>1
      <3> QED
        BY <3>1, <3>2 DEF LostToPoison
    <2>2. CASE cause # "poison"
      BY <1>1, <1>2, <2>2 DEF LostToPoison
    <2> QED
      BY <2>1, <2>2
  <1> QED
    BY <1>11, <1>12, <1>13, <1>14

\* A step that leaves every worker and message alone keeps what workers have fitting.
LEMMA FitsUnchanged ==
  ASSUME HeldFitsPc, UNCHANGED <<pc, reply, batch, handled>>
  PROVE  HeldFitsPc'
  BY DEF HeldFitsPc

\* publish: the new message is in no worker's hands.
LEMMA PublishInv == ASSUME Inv, NEW r \in Replies, Publish(r) PROVE Inv'
  <1>1. PICK k \in Msgs : status[k] = "absent" /\ status' = [status EXCEPT ![k] = "ready"]
    BY DEF Publish
  <1>2. UNCHANGED <<poison, durable, deliveries, pc, reply, batch, handled, faults, overdue, lost>>
    BY DEF Publish
  <1>3. TypeOK'
    BY <1>1, <1>2 DEF Inv, TypeOK
  <1>4. HeldFitsPc'
    BY <1>2, FitsUnchanged DEF Inv
  <1>5. \A v \in Workers : Held(v)' = Held(v) /\ Untaken(v)' = Untaken(v)
    BY <1>2, OwnState
  <1>6. deliveries[k] = 0 /\ \A v \in Workers : k \in Held(v) => k \in overdue
    BY <1>1 DEF Inv, DeliveriesFitStatus, HeldIsOut
  <1>7. \A m \in Msgs : status'[m] # status[m] => m = k /\ status'[m] = "ready"
    BY <1>1 DEF Inv, TypeOK
  <1> QED
    BY <1>2, <1>3, <1>4, <1>5, <1>6, <1>7, QuietStep, PullAssumption

\* pull_subscribe: the worker has nothing yet.
LEMMA SubscribeInv == ASSUME Inv, NEW w \in Workers, Subscribe(w) PROVE Inv'
  <1>0. PICK r \in Replies : Start(w, r)
    BY DEF Subscribe
  <1>1. UNCHANGED <<poison, status, deliveries, reply, batch, handled, faults, overdue, lost>>
    BY <1>0 DEF Start
  <1>2. pc[w] = "down" /\ pc' \in {pc, [pc EXCEPT ![w] = "started"]}
    BY <1>0 DEF Start
  <1>3. TypeOK'
    BY <1>0, <1>1, <1>2 DEF Inv, TypeOK, Start
  <1>4. HeldFitsPc'
    BY <1>1, <1>2 DEF Inv, TypeOK, HeldFitsPc
  <1>5. \A v \in Workers : Held(v)' = Held(v) /\ Untaken(v)' = Untaken(v)
    <2> SUFFICES ASSUME NEW v \in Workers PROVE Held(v)' = Held(v) /\ Untaken(v)' = Untaken(v)
      OBVIOUS
    <2>1. pc'[v] = "handled" <=> pc[v] = "handled"
      BY <1>2 DEF Inv, TypeOK
    <2> QED
      BY <1>1, <2>1 DEF Held, Untaken
  <1> QED
    BY <1>1, <1>3, <1>4, <1>5, QuietStep

\* A program that ends has nothing left, and the others what they had.
LEMMA ExitState ==
  ASSUME Inv, NEW w \in Workers, Exit(w), UNCHANGED handled
  PROVE  /\ pc' \in [Workers -> {"down", "started", "idle", "fetching", "working", "handled"}]
         /\ reply' \in [Workers -> Seq(Msgs)] /\ batch' \in [Workers -> Seq(Msgs)]
         /\ HeldFitsPc'
         /\ Held(w)' = {} /\ Untaken(w)' = {}
         /\ \A v \in Workers \ {w} : Held(v)' = Held(v) /\ Untaken(v)' = Untaken(v)
  <1>1. << >> \in Seq(Msgs)
    BY EmptySeq
  <1>2. reply'[w] = << >> /\ batch'[w] = << >> /\ pc'[w] = "down"
    BY DEF Inv, TypeOK, Exit
  <1>3. \A v \in Workers \ {w} :
          reply'[v] = reply[v] /\ batch'[v] = batch[v] /\ pc'[v] = pc[v]
    BY DEF Inv, TypeOK, Exit
  <1>4. HeldFitsPc'
    BY <1>2, <1>3, ElementsOf DEF Inv, HeldFitsPc
  <1>5. Held(w)' = {} /\ Untaken(w)' = {}
    BY <1>2, ElementsOf DEF Held, Untaken
  <1>6. \A v \in Workers \ {w} : Held(v)' = Held(v) /\ Untaken(v)' = Untaken(v)
    BY <1>3, OwnState
  <1>7. /\ pc' \in [Workers -> {"down", "started", "idle", "fetching", "working", "handled"}]
        /\ reply' \in [Workers -> Seq(Msgs)] /\ batch' \in [Workers -> Seq(Msgs)]
    BY <1>1 DEF Inv, TypeOK, Exit
  <1> QED
    BY <1>4, <1>5, <1>6, <1>7

\* A program that a failure ends loses what it had and has not taken to it; the status
\* of a message may move with it (an ack that reached the broker and raised).
LEMMA ExitInv ==
  ASSUME Inv, NEW w \in Workers, Exit(w), NEW cause \in Causes, LosesTo(w, cause),
         UNCHANGED <<poison, durable, deliveries, handled, overdue>>,
         faults' = IF cause = "fault" THEN faults + 1 ELSE faults,
         faults' \in 0..MaxFaults,
         cause = "poison" => Untaken(w) \cap poison # {},
         status' \in [Msgs -> {"absent", "ready", "out", "acked", "dead"}],
         \A m \in Msgs : status'[m] # status[m] =>
           /\ status'[m] \in {"ready", "acked", "dead"}
           /\ status'[m] = "ready" => deliveries[m] < MaxDeliver
           /\ status'[m] = "acked" => handled[m] > 0
           /\ status'[m] = "dead" => deliveries[m] = MaxDeliver
           /\ \A v \in Workers \ {w} : m \in Held(v) => m \in overdue
  PROVE  Inv'
  <1>1. /\ lost' \in [Causes -> [Msgs -> 0..MaxDeliver]]
        /\ HandOutsAreAccounted' /\ LostToFaults' /\ LostToPoison'
    BY ExitState, LetGo
  <1>2. TypeOK'
    BY <1>1, ExitState DEF Inv, TypeOK
  <1>3. Held(w)' = {} /\ \A v \in Workers \ {w} : Held(v)' = Held(v)
    BY ExitState
  <1>4. /\ \A v \in Workers : Held(v)' \subseteq Held(v)
        /\ \A m \in Msgs : status'[m] # status[m] =>
             \A v \in Workers : m \in Held(v)' => m \in overdue'
    BY <1>3
  <1>5. DeliveriesFitStatus' /\ AckedWasHandled' /\ HeldIsOut' /\ TwiceHeldIsOverdue'
    BY <1>2, <1>4, StatusMoves
  <1> QED
    BY <1>1, <1>2, <1>5, ExitState DEF Inv

\* The loop ends between two batches, with nothing in hand.
LEMMA StopInv == ASSUME Inv, NEW w \in Workers, Stop(w) PROVE Inv'
  <1>1. Held(w) = {} /\ Untaken(w) = {}
    BY ElementsOf DEF Stop, Inv, HeldFitsPc, Held, Untaken
  <1>2. /\ Exit(w)
        /\ UNCHANGED <<poison, durable, status, deliveries, handled, faults, overdue, lost>>
    BY DEF Stop
  <1>3. TypeOK'
    BY <1>2, ExitState DEF Inv, TypeOK
  <1>4. \A v \in Workers : Held(v)' \subseteq Held(v) /\ Untaken(v)' = Untaken(v)
    BY <1>1, <1>2, ExitState
  <1> QED
    BY <1>2, <1>3, <1>4, ExitState, QuietStep

\* A response on its way is all that its worker has.
LEMMA OnTheWay ==
  ASSUME Inv, NEW w \in Workers, pc[w] = "fetching"
  PROVE  batch[w] = << >> /\ Held(w) = ToSet(reply[w]) /\ Untaken(w) = ToSet(reply[w])
  BY ElementsOf DEF Inv, HeldFitsPc, Held, Untaken

\* A batch with an undecodable payload is lost to it.
LEMMA FetchPoisonedInv == ASSUME Inv, NEW w \in Workers, FetchPoisoned(w) PROVE Inv'
  <1>1. Untaken(w) \cap poison # {}
    BY OnTheWay DEF FetchPoisoned
  <1>2. /\ Exit(w) /\ LosesTo(w, "poison") /\ "poison" \in Causes
        /\ UNCHANGED <<poison, durable, status, deliveries, handled, faults, overdue>>
    BY DEF FetchPoisoned, Causes
  <1> QED
    BY <1>1, <1>2, ExitInv DEF Inv, TypeOK

\* An answer without messages loses those that were handed out, and the worker goes on.
LEMMA FetchBlankInv == ASSUME Inv, NEW w \in Workers, FetchBlank(w) PROVE Inv'
  <1>1. /\ LosesTo(w, "blank") /\ "blank" \in Causes /\ pc[w] = "fetching"
        /\ UNCHANGED <<poison, durable, status, deliveries, batch, handled, faults, overdue>>
    BY DEF FetchBlank, Causes
  <1>2. reply'[w] = << >> /\ batch'[w] = << >> /\ pc'[w] = "idle"
    BY <1>1, OnTheWay DEF FetchBlank, Inv, TypeOK
  <1>3. \A v \in Workers \ {w} :
          reply'[v] = reply[v] /\ batch'[v] = batch[v] /\ pc'[v] = pc[v]
    BY <1>1 DEF FetchBlank, Inv, TypeOK
  <1>4. Held(w)' = {} /\ Untaken(w)' = {}
    BY <1>2, ElementsOf DEF Held, Untaken
  <1>5. \A v \in Workers \ {w} : Held(v)' = Held(v) /\ Untaken(v)' = Untaken(v)
    BY <1>3, OwnState
  <1>6. HeldFitsPc'
    BY <1>1, <1>2, <1>3, ElementsOf DEF Inv, HeldFitsPc
  <1>7. /\ lost' \in [Causes -> [Msgs -> 0..MaxDeliver]]
        /\ HandOutsAreAccounted' /\ LostToFaults' /\ LostToPoison'
    BY <1>1, <1>4, <1>5, LetGo
  <1>8. TypeOK'
    <2>1. << >> \in Seq(Msgs)
      BY EmptySeq
    <2> QED
      BY <1>1, <1>7, <2>1 DEF FetchBlank, Inv, TypeOK
  <1>9. DeliveriesFitStatus' /\ AckedWasHandled' /\ HeldIsOut' /\ TwiceHeldIsOverdue'
    BY <1>1, <1>4, <1>5, <1>8, StatusMoves
  <1> QED
    BY <1>6, <1>7, <1>8, <1>9 DEF Inv

\* A failed fetch and a crash cost each message one hand-out.
LEMMA FaultInv ==
  ASSUME Inv, NEW w \in Workers, FetchFails(w) \/ Crash(w)
  PROVE  Inv'
  <1>1. Fault(w) /\ UNCHANGED <<poison, durable, status, deliveries, handled, overdue>>
    BY DEF FetchFails, Crash
  <1>2. /\ Exit(w) /\ LosesTo(w, "fault") /\ "fault" \in Causes
        /\ faults' = faults + 1 /\ faults' \in 0..MaxFaults
    BY <1>1, PullAssumption DEF Fault, Inv, TypeOK, Causes
  <1> QED
    BY <1>1, <1>2, ExitInv DEF Inv, TypeOK

\* A batch that arrives is held as the response was.
LEMMA FetchReturnsInv == ASSUME Inv, NEW w \in Workers, FetchReturns(w) PROVE Inv'
  <1>1. /\ pc[w] = "fetching" /\ batch[w] = << >> /\ reply[w] # << >>
        /\ reply[w] \in Seq(Msgs) /\ Ascending(reply[w])
    BY DEF FetchReturns, Inv, TypeOK, HeldFitsPc
  <1>2. UNCHANGED <<poison, durable, status, deliveries, handled, faults, overdue, lost>>
    BY DEF FetchReturns
  <1>3. pc'[w] = "working" /\ batch'[w] = reply[w] /\ reply'[w] = << >>
    BY DEF FetchReturns, Inv, TypeOK
  <1>4. \A v \in Workers \ {w} :
          reply'[v] = reply[v] /\ batch'[v] = batch[v] /\ pc'[v] = pc[v]
    BY DEF FetchReturns, Inv, TypeOK
  <1>5. TypeOK'
    <2>1. << >> \in Seq(Msgs)
      BY EmptySeq
    <2> QED
      BY <1>1, <1>2, <2>1 DEF FetchReturns, Inv, TypeOK
  <1>6. HeldFitsPc'
    BY <1>1, <1>2, <1>3, <1>4, ElementsOf DEF Inv, HeldFitsPc
  <1>7. Held(w)' = Held(w) /\ Untaken(w)' = Untaken(w)
    BY <1>1, <1>3, ElementsOf DEF Held, Untaken
  <1>8. \A v \in Workers \ {w} : Held(v)' = Held(v) /\ Untaken(v)' = Untaken(v)
    BY <1>4, OwnState
  <1> QED
    BY <1>2, <1>5, <1>6, <1>7, <1>8, QuietStep

\* The batch of a worker that has taken its head: the head is a message that was seen,
\* and what it has not taken is the rest.
LEMMA TakenHead ==
  ASSUME Inv, NEW w \in Workers, pc[w] = "handled"
  PROVE  /\ reply[w] = << >> /\ batch[w] \in Seq(Msgs) /\ batch[w] # << >>
         /\ Head(batch[w]) \in Msgs /\ Head(batch[w]) \in Held(w)
         /\ handled[Head(batch[w])] > 0
         /\ Tail(batch[w]) \in Seq(Msgs) /\ Ascending(Tail(batch[w]))
         /\ ToSet(Tail(batch[w])) = Held(w) \ {Head(batch[w])}
         /\ Untaken(w) = Held(w) \ {Head(batch[w])}
  <1>1. /\ reply[w] = << >> /\ batch[w] \in Seq(Msgs) /\ batch[w] # << >>
        /\ Ascending(batch[w]) /\ handled[Head(batch[w])] > 0
    BY DEF Inv, TypeOK, HeldFitsPc
  <1>2. Held(w) = ToSet(batch[w]) /\ Untaken(w) = ToSet(Tail(batch[w]))
    BY <1>1, ElementsOf DEF Held, Untaken
  <1> QED
    BY <1>1, <1>2, TailOfAscending

\* What the broker makes of an ack or a nack is fit for a message that was seen and
\* that others have only when it is overdue.
LEMMA SettleInv ==
  ASSUME Inv, NEW w \in Workers, NEW r \in Replies, NEW to,
         to \in {Acked(Head(batch[w])), Nacked(Head(batch[w]))}, Settle(w, to, r)
  PROVE  Inv'
  <1> DEFINE k == Head(batch[w])
  <1>0. pc[w] = "handled"
    BY DEF Settle
  <1>1. UNCHANGED <<poison, durable, deliveries, handled, overdue>>
    BY DEF Settle
  <1>2. status' \in {status, [status EXCEPT ![k] = to]}
    BY DEF Settle
  <1>3. k \in Msgs /\ k \in Held(w) /\ handled[k] > 0
    BY <1>0, TakenHead
  <1>4. /\ to \in {status[k], "acked", "dead", "ready"}
        /\ to = "ready" => deliveries[k] < MaxDeliver
        /\ to = "dead" => deliveries[k] = MaxDeliver
    <2>1. /\ deliveries[k] \in 0..MaxDeliver /\ MaxDeliver \in Nat
          /\ status[k] = "ready" => deliveries[k] < MaxDeliver
          /\ status[k] = "dead" => deliveries[k] = MaxDeliver
      BY <1>3, PullAssumption DEF Inv, TypeOK, DeliveriesFitStatus
    <2>2. to = Acked(k) \/ to = Nacked(k)
      OBVIOUS
    <2> HIDE DEF k
    <2> QED
      BY <2>1, <2>2 DEF Acked, Nacked, Released
  <1>5. status' \in [Msgs -> {"absent", "ready", "out", "acked", "dead"}]
    BY <1>2, <1>3, <1>4 DEF Inv, TypeOK
  <1>6. \A m \in Msgs : status'[m] # status[m] => m = k /\ status'[m] = to
    BY <1>2 DEF Inv, TypeOK
  <1>7. \A v \in Workers \ {w} : k \in Held(v) => k \in overdue
    BY <1>3 DEF Inv, TwiceHeldIsOverdue
  <1>8. CASE Fault(w)
    <2>1. /\ Exit(w) /\ LosesTo(w, "fault") /\ "fault" \in Causes
          /\ faults' = faults + 1 /\ faults' \in 0..MaxFaults
      BY <1>8, PullAssumption DEF Fault, Inv, TypeOK, Causes
    <2>2. \A m \in Msgs : status'[m] # status[m] =>
            /\ status'[m] \in {"ready", "acked", "dead"}
            /\ status'[m] = "ready" => deliveries[m] < MaxDeliver
            /\ status'[m] = "acked" => handled[m] > 0
            /\ status'[m] = "dead" => deliveries[m] = MaxDeliver
            /\ \A v \in Workers \ {w} : m \in Held(v) => m \in overdue
      BY <1>3, <1>4, <1>6, <1>7
    <2> HIDE DEF k
    <2> QED
      BY <1>1, <1>5, <2>1, <2>2, ExitInv
  <1>9. CASE Settled(w)
    <2>1. UNCHANGED <<faults, lost, reply>>
      BY <1>9 DEF Settled
    <2>2. /\ batch'[w] = Tail(batch[w])
          /\ pc'[w] = IF Tail(batch[w]) = << >> THEN "idle" ELSE "working"
      BY <1>9 DEF Settled, Inv, TypeOK
    <2>3. \A v \in Workers \ {w} :
            reply'[v] = reply[v] /\ batch'[v] = batch[v] /\ pc'[v] = pc[v]
      BY <1>9 DEF Settled, Inv, TypeOK
    <2>4. TypeOK'
      BY <1>0, <1>1, <1>5, <1>9, <2>1, TakenHead DEF Settled, Inv, TypeOK
    <2>5. HeldFitsPc'
      BY <1>0, <1>1, <2>1, <2>2, <2>3, TakenHead DEF Inv, HeldFitsPc
    <2>6. Held(w)' = Held(w) \ {k} /\ Untaken(w)' = Untaken(w)
      BY <1>0, <2>1, <2>2, TakenHead, ElementsOf DEF Held, Untaken
    <2>7. \A v \in Workers \ {w} : Held(v)' = Held(v) /\ Untaken(v)' = Untaken(v)
      BY <2>3, OwnState
    <2>8. \A m \in Msgs : status'[m] # status[m] =>
            \A v \in Workers : m \in Held(v)' => m \in overdue'
      BY <1>1, <1>6, <1>7, <2>6, <2>7
    <2>9. \A v \in Workers : Held(v)' \subseteq Held(v) /\ Untaken(v)' = Untaken(v)
      BY <2>6, <2>7
    <2> QED
      BY <1>1, <1>3, <1>4, <1>6, <2>1, <2>4, <2>5, <2>8, <2>9, QuietStep
  <1> QED
    BY <1>8, <1>9 DEF Settle

\* ack_wait runs out: whoever still holds the message is late.
LEMMA ExpireInv == ASSUME Inv, NEW m \in Msgs, Expire(m) PROVE Inv'
  <1>1. UNCHANGED <<poison, durable, deliveries, pc, reply, batch, handled, faults, lost>>
    BY DEF Expire
  <1>2. status[m] = "out" /\ status' = [status EXCEPT ![m] = Released(m)]
    BY DEF Expire
  <1>3. /\ Released(m) \in {"dead", "ready"}
        /\ Released(m) = "ready" => deliveries[m] < MaxDeliver
        /\ Released(m) = "dead" => deliveries[m] = MaxDeliver
    BY PullAssumption DEF Released, Inv, TypeOK
  <1>4. /\ overdue' \in {overdue, overdue \cup {m}}
        /\ \A v \in Workers : m \in Held(v) => m \in overdue'
    BY DEF Expire
  <1>5. TypeOK'
    BY <1>1, <1>2, <1>3, <1>4 DEF Inv, TypeOK
  <1>6. HeldFitsPc'
    BY <1>1, FitsUnchanged DEF Inv
  <1>7. \A v \in Workers : Held(v)' = Held(v) /\ Untaken(v)' = Untaken(v)
    BY <1>1, OwnState
  <1>8. \A k \in Msgs : status'[k] # status[k] => k = m /\ status'[k] = Released(m)
    BY <1>2 DEF Inv, TypeOK
  <1> QED
    BY <1>1, <1>3, <1>4, <1>5, <1>6, <1>7, <1>8, QuietStep

\* A fetch that is served gives one worker messages nobody holds, but the overdue.
LEMMA FetchServedInv == ASSUME Inv, NEW w \in Workers, FetchServed(w) PROVE Inv'
  <1> USE DEF Inv
  <1>1. /\ pc[w] \in {"started", "idle"}
        /\ UNCHANGED <<poison, durable, batch, handled, faults, overdue, lost>>
    BY DEF FetchServed
  <1>2. PICK q \in BoundedSeq(Ready, Batch) :
          /\ Ascending(q)
          /\ status' = [m \in Msgs |-> IF m \in ToSet(q) THEN "out" ELSE status[m]]
          /\ deliveries' = [m \in Msgs |-> IF m \in ToSet(q) THEN deliveries[m] + 1 ELSE deliveries[m]]
          /\ reply' = [reply EXCEPT ![w] = q]
          /\ pc' = [pc EXCEPT ![w] = IF q = << >> THEN "idle" ELSE "fetching"]
    BY DEF FetchServed
  <1> DEFINE B == ToSet(q)
  <1>3. /\ q \in Seq(Msgs) /\ B \subseteq Msgs
        /\ \A m \in B : status[m] = "ready"
    BY HandedOut DEF Ready
  <1>4. /\ \A m \in B : status'[m] = "out" /\ deliveries'[m] = deliveries[m] + 1
        /\ \A m \in Msgs \ B : status'[m] = status[m] /\ deliveries'[m] = deliveries[m]
    BY <1>2, <1>3
  <1>5. /\ reply'[w] = q /\ batch'[w] = << >> /\ batch[w] = << >> /\ reply[w] = << >>
        /\ pc'[w] = IF q = << >> THEN "idle" ELSE "fetching"
    BY <1>1, <1>2 DEF TypeOK, HeldFitsPc
  <1>6. \A v \in Workers \ {w} :
          reply'[v] = reply[v] /\ batch'[v] = batch[v] /\ pc'[v] = pc[v]
    BY <1>1, <1>2 DEF TypeOK
  <1> HIDE DEF B
  <1>7. Held(w) = {} /\ Untaken(w) = {} /\ Held(w)' = B /\ Untaken(w)' = B
    BY <1>1, <1>5, ElementsOf DEF Held, Untaken, B
  <1>8. \A v \in Workers \ {w} : Held(v)' = Held(v) /\ Untaken(v)' = Untaken(v)
    BY <1>6, OwnState
  <1>9. \A v \in Workers : Held(v) \subseteq Msgs
    BY ElementsOf DEF Held, TypeOK
  <1>11. TypeOK'
    <2>1. deliveries' \in [Msgs -> 0..MaxDeliver]
      <3>1. \A m \in B : deliveries[m] < MaxDeliver
        BY <1>3 DEF DeliveriesFitStatus
      <3>2. MaxDeliver \in Nat /\ \A m \in Msgs : deliveries[m] \in 0..MaxDeliver
        BY PullAssumption DEF TypeOK
      <3>3. \A m \in Msgs : (IF m \in B THEN deliveries[m] + 1 ELSE deliveries[m]) \in 0..MaxDeliver
        BY <3>1, <3>2
      <3> QED
        BY <1>2, <3>3 DEF B
    <2>2. status' \in [Msgs -> {"absent", "ready", "out", "acked", "dead"}]
      BY <1>2 DEF TypeOK
    <2> QED
      BY <1>1, <1>2, <1>3, <2>1, <2>2 DEF TypeOK
  <1>12. HeldFitsPc'
    BY <1>1, <1>2, <1>5, <1>6, ElementsOf DEF HeldFitsPc
  <1>13. DeliveriesFitStatus'
    BY <1>4 DEF DeliveriesFitStatus
  <1>14. AckedWasHandled'
    BY <1>1, <1>4 DEF AckedWasHandled
  <1>15. HandOutsAreAccounted'
    <2> SUFFICES ASSUME NEW m \in Msgs
                 PROVE  deliveries'[m] = handled'[m] + Cardinality(Holders(m)') + Losses(m)'
      BY DEF HandOutsAreAccounted
    <2>1. /\ handled'[m] = handled[m] /\ handled[m] \in Nat /\ deliveries[m] \in Nat
          /\ deliveries[m] = handled[m] + Cardinality(Holders(m)) + Losses(m)
          /\ Losses(m)' = Losses(m) /\ Losses(m) \in Nat
      <3>1. Losses(m)' = Losses(m) /\ Losses(m) \in Nat
        BY <1>1, PullAssumption DEF Losses, TypeOK, Causes
      <3> QED
        BY <1>1, <3>1, PullAssumption DEF TypeOK, HandOutsAreAccounted
    <2>2. Holders(m) \in SUBSET Workers
      BY DEF Holders
    <2>3. IsFiniteSet(Holders(m)) /\ Cardinality(Holders(m)) \in Nat
      BY <2>2, HoldersCount
    <2>4. CASE m \in B
      <3>1. Holders(m)' = Holders(m) \cup {w} /\ w \notin Holders(m)
        BY <1>7, <1>8, <2>4 DEF Holders
      <3>2. Cardinality(Holders(m)') = Cardinality(Holders(m)) + 1
        BY <2>3, <3>1, FS_AddElement
      <3> QED
        BY <1>4, <2>1, <2>3, <2>4, <3>2
    <2>5. CASE m \notin B
      <3>1. Holders(m)' = Holders(m)
        BY <1>7, <1>8, <2>5 DEF Holders
      <3> QED
        BY <1>4, <2>1, <2>5, <3>1
    <2> QED
      BY <2>4, <2>5
  <1>16. HeldIsOut'
    BY <1>1, <1>4, <1>7, <1>8, <1>9 DEF HeldIsOut
  <1>17. TwiceHeldIsOverdue'
    <2>1. \A v \in Workers : Held(v) \cap B \subseteq overdue
      BY <1>3 DEF HeldIsOut
    <2> QED
      BY <1>1, <1>7, <1>8, <2>1 DEF TwiceHeldIsOverdue
  <1>18. LostToFaults' /\ LostToPoison'
    BY <1>1 DEF LostToFaults, LostToPoison
  <1> QED
    BY <1>11, <1>12, <1>13, <1>14, <1>15, <1>16, <1>17, <1>18

\* The message a loop body is about to take is counted among what its worker has not taken.
LEMMA AboutToTake ==
  ASSUME Inv, NEW w \in Workers, pc[w] = "working"
  PROVE  /\ reply[w] = << >> /\ batch[w] \in Seq(Msgs) /\ batch[w] # << >>
         /\ Head(batch[w]) \in Msgs /\ Head(batch[w]) \in Held(w)
         /\ Untaken(w) = Held(w)
         /\ ToSet(Tail(batch[w])) = Held(w) \ {Head(batch[w])}
         /\ handled[Head(batch[w])] < deliveries[Head(batch[w])]
  <1> DEFINE k == Head(batch[w])
  <1>1. /\ reply[w] = << >> /\ batch[w] \in Seq(Msgs) /\ batch[w] # << >>
        /\ Ascending(batch[w])
    BY DEF Inv, TypeOK, HeldFitsPc
  <1>2. Held(w) = ToSet(batch[w]) /\ Untaken(w) = ToSet(batch[w])
    BY <1>1, ElementsOf DEF Held, Untaken
  <1>3. k \in Msgs /\ k \in Held(w) /\ ToSet(Tail(batch[w])) = Held(w) \ {k}
    BY <1>1, <1>2, TailOfAscending
  <1> HIDE DEF k
  <1>4. Holders(k) \in SUBSET Workers /\ w \in Holders(k)
    BY <1>2, <1>3 DEF Holders
  <1>5. Cardinality(Holders(k)) \in Nat \ {0}
    BY <1>4, HoldersCount, FS_EmptySet
  <1>6. /\ handled[k] \in Nat /\ deliveries[k] \in Nat /\ Losses(k) \in Nat
        /\ deliveries[k] = handled[k] + Cardinality(Holders(k)) + Losses(k)
    <2>1. Losses(k) \in Nat
      BY <1>3, PullAssumption DEF Inv, TypeOK, Losses, Causes
    <2> QED
      BY <1>3, <2>1, PullAssumption DEF Inv, TypeOK, HandOutsAreAccounted
  <1>7. handled[k] < deliveries[k]
    BY <1>5, <1>6
  <1> QED
    BY <1>1, <1>2, <1>3, <1>7 DEF k

\* The loop body takes a message out of those its worker has not taken.
LEMMA HandleInv == ASSUME Inv, NEW w \in Workers, Handle(w) PROVE Inv'
  <1> USE DEF Inv
  <1> DEFINE k == Head(batch[w])
  <1>1. /\ pc[w] = "working"
        /\ UNCHANGED <<poison, durable, status, deliveries, reply, batch, faults, overdue, lost>>
    BY DEF Handle
  <1>2. /\ handled' = [handled EXCEPT ![k] = @ + 1]
        /\ pc' = [pc EXCEPT ![w] = "handled"]
    BY DEF Handle
  <1>3. /\ reply[w] = << >> /\ batch[w] # << >>
        /\ k \in Msgs /\ k \in Held(w) /\ Untaken(w) = Held(w)
        /\ ToSet(Tail(batch[w])) = Held(w) \ {k}
        /\ handled[k] < deliveries[k]
    BY <1>1, AboutToTake
  <1>4. /\ pc'[w] = "handled"
        /\ \A v \in Workers \ {w} : pc'[v] = pc[v]
    BY <1>2 DEF TypeOK
  <1>5. Held(w)' = Held(w) /\ Untaken(w)' = Untaken(w) \ {k}
    BY <1>1, <1>3, <1>4, ElementsOf DEF Held, Untaken
  <1> HIDE DEF k
  <1>6. \A v \in Workers \ {w} : Held(v)' = Held(v) /\ Untaken(v)' = Untaken(v)
    BY <1>1, <1>4, OwnState
  <1>7. /\ \A m \in Msgs : handled[m] \in Nat /\ deliveries[m] \in Nat
        /\ handled'[k] = handled[k] + 1
        /\ \A m \in Msgs \ {k} : handled'[m] = handled[m]
    BY <1>2, <1>3, PullAssumption DEF TypeOK
  <1>8. TypeOK'
    <2>1. handled[k] + 1 \in 0..MaxDeliver
      BY <1>3, <1>7, PullAssumption DEF TypeOK
    <2>2. handled' \in [Msgs -> 0..MaxDeliver]
      BY <1>2, <2>1 DEF TypeOK
    <2> QED
      BY <1>1, <1>2, <2>2 DEF TypeOK
  <1>9. \A m \in Msgs : handled[m] <= handled'[m]
    BY <1>3, <1>7
  <1>10. HeldFitsPc'
    <2> SUFFICES ASSUME NEW v \in Workers
                 PROVE  /\ Ascending(reply[v]) /\ Ascending(batch[v])
                        /\ reply[v] # << >> <=> pc'[v] = "fetching"
                        /\ batch[v] # << >> <=> pc'[v] \in {"working", "handled"}
                        /\ pc'[v] = "handled" => handled'[Head(batch[v])] > 0
      BY <1>1 DEF HeldFitsPc
    <2>1. CASE v = w
      BY <1>1, <1>3, <1>4, <1>7, <2>1 DEF HeldFitsPc, k
    <2>2. CASE v # w /\ pc[v] = "handled"
      <3>1. Head(batch[v]) \in Msgs /\ handled[Head(batch[v])] > 0
        BY <2>2, TakenHead
      <3>2. handled'[Head(batch[v])] > 0
        BY <1>7, <1>9, <3>1
      <3> QED
        BY <1>4, <2>2, <3>2 DEF HeldFitsPc
    <2>3. CASE v # w /\ pc[v] # "handled"
      BY <1>4, <2>3 DEF HeldFitsPc
    <2> QED
      BY <2>1, <2>2, <2>3
  <1>11. DeliveriesFitStatus' /\ AckedWasHandled'
    BY <1>1, <1>7, <1>9 DEF DeliveriesFitStatus, AckedWasHandled
  <1>12. HandOutsAreAccounted'
    <2> SUFFICES ASSUME NEW m \in Msgs
                 PROVE  deliveries[m] = handled'[m] + Cardinality(Holders(m)') + Losses(m)
      BY <1>1 DEF HandOutsAreAccounted, Losses
    <2>1. /\ deliveries[m] = handled[m] + Cardinality(Holders(m)) + Losses(m)
          /\ Losses(m) \in Nat
      BY PullAssumption DEF HandOutsAreAccounted, Losses, Causes, TypeOK
    <2>2. IsFiniteSet(Holders(m)) /\ Cardinality(Holders(m)) \in Nat
      <3>1. Holders(m) \in SUBSET Workers
        BY DEF Holders
      <3> QED
        BY <3>1, HoldersCount
    <2>3. CASE m = k
      <3>1. Holders(m)' = Holders(m) \ {w} /\ w \in Holders(m)
        BY <1>3, <1>5, <1>6, <2>3 DEF Holders
      <3>2. Cardinality(Holders(m)') = Cardinality(Holders(m)) - 1
        BY <2>2, <3>1, FS_RemoveElement
      <3> QED
        BY <1>7, <2>1, <2>2, <2>3, <3>2
    <2>4. CASE m # k
      <3>1. Holders(m)' = Holders(m)
        BY <1>5, <1>6, <2>4 DEF Holders
      <3> QED
        BY <1>7, <2>1, <2>4, <3>1
    <2> QED
      BY <2>3, <2>4
  <1>13. HeldIsOut' /\ TwiceHeldIsOverdue'
    BY <1>1, <1>5, <1>6 DEF HeldIsOut, TwiceHeldIsOverdue
  <1>14. LostToFaults' /\ LostToPoison'
    BY <1>1 DEF LostToFaults, LostToPoison
  <1> QED
    BY <1>8, <1>10, <1>11, <1>12, <1>13, <1>14

\* Every step of a worker or of the broker keeps the invariant.
LEMMA InvStep == Inv /\ [Next]_vars => Inv'
  <1> SUFFICES ASSUME Inv, [Next]_vars PROVE Inv'
    OBVIOUS
  <1>1. ASSUME NEW w \in Workers, Ack(w) PROVE Inv'
    BY <1>1, SettleInv DEF Ack
  <1>2. ASSUME NEW w \in Workers, Nack(w) PROVE Inv'
    BY <1>2, SettleInv DEF Nack
  <1>3. CASE UNCHANGED vars
    BY <1>3 DEF vars, Inv, TypeOK, HeldFitsPc, DeliveriesFitStatus, AckedWasHandled,
                HandOutsAreAccounted, Losses, Holders, Untaken, HeldIsOut,
                TwiceHeldIsOverdue, LostToFaults, LostToPoison, Held
  <1> QED
    BY <1>1, <1>2, <1>3, SubscribeInv, StopInv, FetchServedInv, FetchReturnsInv,
       FetchPoisonedInv, FetchBlankInv, FaultInv, HandleInv, ExpireInv, PublishInv DEF Next

\* Workers, broker and faults never leave the invariant.
THEOREM Invariance == Spec => []Inv
  BY InitInv, InvStep, PTL DEF Spec

\* Only what a loop body has seen is ever marked done, whoever acked it.
THEOREM AckedWereHandled == Spec => []AckedWasHandled
  <1>1. Inv => AckedWasHandled
    BY DEF Inv
  <1> QED
    BY <1>1, Invariance, PTL

\* A hand-out is taken at most once, however many workers share the consumer.
THEOREM HandledOncePerDelivery == Spec => []OneHandlingPerDelivery
  <1>1. Inv => OneHandlingPerDelivery
    <2> SUFFICES ASSUME Inv, NEW m \in Msgs
                 PROVE  handled[m] + Cardinality(Holders(m)) <= deliveries[m]
      BY DEF OneHandlingPerDelivery
    <2>1. handled[m] \in Nat /\ Losses(m) \in Nat
      BY PullAssumption DEF Inv, TypeOK, Losses, Causes
    <2>2. Holders(m) \in SUBSET Workers
      BY DEF Holders
    <2>3. Cardinality(Holders(m)) \in Nat
      BY <2>2, HoldersCount
    <2> QED
      BY <2>1, <2>3 DEF Inv, HandOutsAreAccounted
  <1> QED
    BY <1>1, Invariance, PTL

\* A good message given up unseen has lost every one of its hand-outs to a fault, to an
\* undecodable payload or to an answer without messages, within what these may cost.
THEOREM UnseenAreAccounted == Spec => []UnseenIsAccounted
  <1>1. Inv => UnseenIsAccounted
    <2> SUFFICES ASSUME Inv, NEW m \in Msgs \ poison,
                        status[m] = "dead", handled[m] = 0, Holders(m) = {}
                 PROVE  /\ Losses(m) = MaxDeliver
                        /\ lost["fault"][m] <= faults
                        /\ \A p \in Msgs :
                             poison \subseteq {p} => lost["poison"][m] <= lost["poison"][p]
                        /\ poison = {} => lost["poison"][m] = 0
      BY DEF UnseenIsAccounted
    <2>1. Cardinality(Holders(m)) = 0
      BY FS_EmptySet
    <2>2. deliveries[m] = MaxDeliver
      BY DEF Inv, DeliveriesFitStatus
    <2>3. Losses(m) \in Nat
      BY PullAssumption DEF Inv, TypeOK, Losses, Causes
    <2>4. Losses(m) = MaxDeliver
      BY <2>1, <2>2, <2>3 DEF Inv, HandOutsAreAccounted
    <2> QED
      BY <2>4 DEF Inv, LostToFaults, LostToPoison
  <1> QED
    BY <1>1, Invariance, PTL

\* A step takes a message by the loop body of a worker that holds it, or not at all.
LEMMA OnlyHandleTakes ==
  ASSUME Inv, [Next]_vars, NEW m \in Msgs, handled'[m] # handled[m]
  PROVE  \E w \in Workers : Handle(w) /\ m = Head(batch[w])
  <1>1. CASE \E w \in Workers : Handle(w)
    <2>1. PICK w \in Workers : Handle(w)
      BY <1>1
    <2>2. handled' = [handled EXCEPT ![Head(batch[w])] = @ + 1]
      BY <2>1 DEF Handle
    <2>3. m = Head(batch[w])
      BY <2>2 DEF Inv, TypeOK
    <2> QED
      BY <2>1, <2>3
  <1>2. CASE UNCHANGED handled
    BY <1>2
  <1>3. Next => (\E w \in Workers : Handle(w)) \/ UNCHANGED handled
    BY DEF Next, Subscribe, Start, Stop, FetchServed, FetchReturns, FetchPoisoned, FetchBlank,
           FetchFails, Ack, Nack, Settle, Crash, Expire, Publish
  <1> QED
    BY <1>1, <1>2, <1>3 DEF vars

\* A loop body takes only what the broker counts as handed out, or the overdue.
THEOREM TakenWereOut == Spec => TakenWhileOut
  <1>1. Inv /\ [Next]_vars =>
          [\A m \in Msgs : handled'[m] # handled[m] => status[m] = "out" \/ m \in overdue]_vars
    <2> SUFFICES ASSUME Inv, [Next]_vars, NEW m \in Msgs, handled'[m] # handled[m]
                 PROVE  status[m] = "out" \/ m \in overdue
      OBVIOUS
    <2>1. PICK w \in Workers : Handle(w) /\ m = Head(batch[w])
      BY OnlyHandleTakes
    <2>2. m \in Held(w)
      BY <2>1, AboutToTake DEF Handle
    <2> QED
      BY <2>2 DEF Inv, HeldIsOut
  <1> QED
    BY <1>1, Invariance, PTL DEF Spec, TakenWhileOut

-----------------------------------------------------------------------------
\* A message that changes status alone changes fate alone.
LEMMA FateMoves ==
  ASSUME TypeOK, NEW k \in Msgs, NEW s, status' = [status EXCEPT ![k] = s]
  PROVE  Fate' = [Fate EXCEPT ![k] = FateOf(s)] /\ Fate[k] = FateOf(status[k])
  BY DEF TypeOK, Fate

\* Statuses of the same meaning leave every fate as it is.
LEMMA FateStays ==
  ASSUME \A m \in Msgs : FateOf(status'[m]) = FateOf(status[m])
  PROVE  Fate' = Fate
  BY DEF Fate

\* A message the broker settles alone is finished, given up, or waits on.
LEMMA SettlingMaps ==
  ASSUME Inv, NEW k \in Msgs, NEW s, status' = [status EXCEPT ![k] = s],
         UNCHANGED handled,
         \/ s = status[k]
         \/ status[k] \in {"ready", "out"} /\ s \in {"ready", "out", "dead"}
         \/ status[k] \in {"ready", "out"} /\ s = "acked" /\ handled[k] > 0
  PROVE  [Queue!Next]_(Queue!vars)
  <1>1. Fate' = [Fate EXCEPT ![k] = FateOf(s)] /\ Fate[k] = FateOf(status[k])
    BY FateMoves DEF Inv
  <1>2. CASE FateOf(s) = FateOf(status[k])
    <2>1. Fate' = Fate
      BY <1>1, <1>2 DEF Fate
    <2> QED
      BY <2>1 DEF Queue!vars
  <1>3. CASE status[k] \in {"ready", "out"} /\ s = "dead"
    <2>1. Queue!GiveUp(k)
      BY <1>1, <1>3 DEF Queue!GiveUp, Queue!Becomes, FateOf
    <2> QED
      BY <2>1 DEF Queue!Next
  <1>4. CASE status[k] \in {"ready", "out"} /\ s = "acked" /\ handled[k] > 0
    <2>1. Queue!Finish(k)
      BY <1>1, <1>4 DEF Queue!Finish, Queue!Becomes, FateOf
    <2> QED
      BY <2>1 DEF Queue!Next
  <1> QED
    BY <1>2, <1>3, <1>4 DEF FateOf

\* Every step of workers and broker is a step of the promise, or none.
LEMMA DeliveryStep == Inv /\ [Next]_vars => [Queue!Next]_(Queue!vars)
  <1> SUFFICES ASSUME Inv, [Next]_vars PROVE [Queue!Next]_(Queue!vars)
    OBVIOUS
  <1> USE DEF Inv
  <1>1. ASSUME UNCHANGED <<status, handled>> PROVE UNCHANGED Queue!vars
    BY <1>1 DEF Queue!vars, Fate
  <1>2. ASSUME NEW r \in Replies, Publish(r) PROVE Queue!Next
    <2>1. PICK k \in Msgs : status[k] = "absent" /\ status' = [status EXCEPT ![k] = "ready"]
      BY <1>2 DEF Publish
    <2>2. Fate' = [Fate EXCEPT ![k] = "waiting"] /\ Fate[k] = "unsent"
      BY <2>1, FateMoves DEF FateOf
    <2>3. Queue!Publish(k)
      BY <1>2, <2>2 DEF Publish, Queue!Publish, Queue!Becomes
    <2> QED
      BY <2>3 DEF Queue!Next
  <1>3. ASSUME NEW w \in Workers, FetchServed(w) PROVE UNCHANGED Queue!vars
    <2>1. PICK q \in BoundedSeq(Ready, Batch) :
            status' = [m \in Msgs |-> IF m \in ToSet(q) THEN "out" ELSE status[m]]
      BY <1>3 DEF FetchServed
    <2>2. \A m \in ToSet(q) : status[m] = "ready"
      BY HandedOut DEF Ready
    <2>3. \A m \in Msgs : FateOf(status'[m]) = FateOf(status[m])
      BY <2>1, <2>2 DEF FateOf
    <2> QED
      BY <1>3, <2>3, FateStays DEF Queue!vars, FetchServed
  <1>4. ASSUME NEW w \in Workers, Handle(w) PROVE Queue!Next
    <2> DEFINE k == Head(batch[w])
    <2>1. /\ k \in Msgs /\ handled[k] < deliveries[k]
          /\ handled' = [handled EXCEPT ![k] = @ + 1] /\ status' = status
      BY <1>4, AboutToTake DEF Handle
    <2> HIDE DEF k
    <2>2. handled[k] \in Nat /\ deliveries[k] \in 0..MaxDeliver /\ MaxDeliver \in Nat
      BY <2>1, PullAssumption DEF TypeOK
    <2>3. status[k] # "absent" /\ status[k] \in {"ready", "out", "acked", "dead"}
      BY <2>1, <2>2 DEF DeliveriesFitStatus, TypeOK
    <2>4. Fate[k] # "unsent" /\ Fate' = Fate
      BY <2>1, <2>3 DEF Fate, FateOf
    <2>5. Queue!Take(k)
      BY <2>1, <2>2, <2>4 DEF Queue!Take
    <2> QED
      BY <2>1, <2>5 DEF Queue!Next
  <1>5. ASSUME NEW w \in Workers, Ack(w) \/ Nack(w) PROVE [Queue!Next]_(Queue!vars)
    <2> DEFINE k == Head(batch[w])
    <2>1. PICK r \in Replies, to \in {Acked(k), Nacked(k)} : Settle(w, to, r)
      BY <1>5 DEF Ack, Nack
    <2>2. /\ k \in Msgs /\ handled[k] > 0 /\ UNCHANGED handled
          /\ status' \in {status, [status EXCEPT ![k] = to]}
      BY <2>1, TakenHead DEF Settle
    <2> HIDE DEF k
    <2>3. CASE status' = status
      BY <1>1, <2>2, <2>3
    <2>4. CASE status' = [status EXCEPT ![k] = to]
      <3>1. \/ to = status[k]
            \/ status[k] \in {"ready", "out"} /\ to \in {"ready", "out", "dead"}
            \/ status[k] \in {"ready", "out"} /\ to = "acked" /\ handled[k] > 0
        BY <2>2 DEF Acked, Nacked, Released
      <3> QED
        BY <2>2, <2>4, <3>1, SettlingMaps
    <2> QED
      BY <2>2, <2>3, <2>4
  <1>6. ASSUME NEW m \in Msgs, Expire(m) PROVE [Queue!Next]_(Queue!vars)
    BY <1>6, SettlingMaps DEF Expire, Released
  <1>7. ASSUME NEW w \in Workers,
               \/ Subscribe(w) \/ Stop(w) \/ FetchReturns(w)
               \/ FetchPoisoned(w) \/ FetchBlank(w) \/ FetchFails(w) \/ Crash(w)
        PROVE  UNCHANGED Queue!vars
    BY <1>1, <1>7 DEF Subscribe, Start, Stop, FetchReturns, FetchPoisoned, FetchBlank,
                       FetchFails, Crash
  <1>8. CASE UNCHANGED vars
    BY <1>1, <1>8 DEF vars
  <1> QED
    BY <1>2, <1>3, <1>4, <1>5, <1>6, <1>7, <1>8 DEF Next

\* Publish and the pull consumer implement Delivery, whatever the workers do.
THEOREM KeepsDelivery == Spec => DeliverySpec
  <1>1. Init => Queue!Init
    BY DEF Init, Queue!Init, Fate, FateOf
  <1> QED
    BY <1>1, DeliveryStep, Invariance, PTL DEF DeliverySpec, Queue!Spec, Spec

=============================================================================
