-------------------------- MODULE KafkaClientProofs --------------------------
(***************************************************************************)
(* KafkaClient proved for any set of calls, any size of the correlation id *)
(* space and any bound on abandoned calls smaller than it.                 *)
(***************************************************************************)
EXTENDS KafkaClient, TLAPS, SequenceTheorems

\* Initially nothing is held, sent or logged.
LEMMA InitInv == Init => Inv
  <1> SUFFICES ASSUME Init PROVE Inv
    OBVIOUS
  <1> USE DEF Init
  <1>1. TypeOK
    BY NoneAssumption, CorrAssumption DEF TypeOK, PCs, Exchange
  <1>2. HolderOwnsLock
    BY NoneAssumption DEF HolderOwnsLock, Held
  <1>3. InFlightIsNewest /\ UndialledIsEmpty
    BY DEF InFlightIsNewest, UndialledIsEmpty
  <1>4. ExchangeIsTrue /\ OneExchangePerCall /\ LoggedWereSent /\ StaleIsBehind
    BY DEF ExchangeIsTrue, OneExchangePerCall, LoggedWereSent, StaleIsBehind
  <1>5. OffsetIsOwn /\ AppendedOnce
    BY DEF OffsetIsOwn, AppendedOnce
  <1> QED
    BY <1>1, <1>2, <1>3, <1>4, <1>5 DEF Inv

\* The id drawn next is an id, and one further from every id not MaxCorr behind.
LEMMA NextCorrIsFurther ==
  ASSUME seq \in 0..MaxCorr
  PROVE  /\ NextCorr \in 1..MaxCorr
         /\ \A a \in 1..MaxCorr :
              Dist(a, seq) + 1 < MaxCorr => Dist(a, NextCorr) = Dist(a, seq) + 1
  BY CorrAssumption DEF NextCorr, Dist

\* The distance between two ids is a number.
LEMMA DistInt ==
  ASSUME NEW a \in 0..MaxCorr, NEW b \in 0..MaxCorr
  PROVE  Dist(a, b) \in Int
  BY CorrAssumption DEF Dist

\* A request and a turned exchange are exchanges.
LEMMA RequestType ==
  ASSUME TypeOK, InFlightIsNewest, NEW c \in Calls, pc[c] \in {"send", "recv"},
         NEW st \in Unanswered
  PROVE  Request(c, st) \in Exchange /\ conn \in Calls
  <1>1. corr[c] \in 1..MaxCorr /\ conn \in Calls
    BY CorrAssumption DEF TypeOK, InFlightIsNewest
  <1> QED
    BY <1>1 DEF Request, Exchange

\* Turning an exchange (the broker answers, or an answer loses its head) keeps its type.
LEMMA TurnedType ==
  ASSUME NEW x \in Exchange, NEW st \in Answered, NEW off \in Nat
  PROVE  Turned(x, st, off) \in Exchange
  BY DEF Turned, Exchange

\* Leaving the connection as it is keeps the types of all but the wire.
LEMMA KeepingType ==
  ASSUME TypeOK, NEW c \in Calls, FailKeeping(c),
         UNCHANGED <<seq, corr, offset, born, log>>,
         wire' \in [Calls -> Seq(Exchange)]
  PROVE  TypeOK'
  <1>1. abandoned' \in 0..MaxAbandon
    BY CorrAssumption DEF TypeOK, FailKeeping
  <1>2. pc' \in [Calls -> PCs]
    BY DEF TypeOK, FailKeeping, PCs
  <1> QED
    BY <1>1, <1>2 DEF TypeOK, FailKeeping

\* Every action keeps every variable in its type.
LEMMA TypeStep == TypeOK /\ InFlightIsNewest /\ [Next]_vars => TypeOK'
  <1> SUFFICES ASSUME TypeOK, InFlightIsNewest, [Next]_vars PROVE TypeOK'
    OBVIOUS
  <1> USE DEF TypeOK
  <1>0. MaxCorr \in Nat /\ MaxAbandon \in Nat /\ None \notin Calls
    BY NoneAssumption, CorrAssumption
  <1>1. ASSUME NEW c \in Calls, Refuse(c) PROVE TypeOK'
    BY <1>1 DEF Refuse, broker, PCs
  <1>2. ASSUME NEW c \in Calls, Acquire(c) PROVE TypeOK'
    BY <1>2 DEF Acquire, broker, PCs
  <1>3. ASSUME NEW c \in Calls, Dial(c) PROVE TypeOK'
    BY <1>0, <1>3, SMTT(60) DEF Dial
  <1>4. ASSUME NEW c \in Calls, DialFail(c) PROVE TypeOK'
    BY <1>4 DEF DialFail, broker, PCs
  <1>5. ASSUME NEW c \in Calls, DrawCorr(c) PROVE TypeOK'
    <2>1. NextCorr \in 0..MaxCorr
      BY <1>0, NextCorrIsFurther
    <2>2. corr' \in [Calls -> 0..MaxCorr] /\ born' \in [Calls -> 0..MaxAbandon]
      BY <1>5, <2>1 DEF DrawCorr
    <2>3. pc' \in [Calls -> PCs]
      BY <1>5 DEF DrawCorr, PCs
    <2> QED
      BY <1>5, <2>1, <2>2, <2>3 DEF DrawCorr, broker
  <1>6. ASSUME NEW c \in Calls, Send(c) PROVE TypeOK'
    <2>1. Request(c, "asked") \in Exchange /\ conn \in Calls
      BY <1>6, RequestType DEF Send, Unanswered
    <2>2. wire' \in [Calls -> Seq(Exchange)]
      BY <1>6, <2>1 DEF Send
    <2> QED
      BY <1>6, <2>2 DEF Send, PCs
  <1>7. ASSUME NEW c \in Calls, SendFail(c) \/ RecvReject(c) \/ RecvFail(c)
        PROVE  TypeOK'
    <2>1. FailClosing(c) /\ UNCHANGED <<seq, corr, offset, born, wire, log>>
      BY <1>7 DEF SendFail, RecvReject, RecvFail
    <2> QED
      BY <1>0, <2>1 DEF FailClosing, PCs
  <1>8. ASSUME NEW c \in Calls, SendAbandon(c) PROVE TypeOK'
    <2>1. Request(c, "cut") \in Exchange /\ conn \in Calls
      BY <1>8, RequestType DEF SendAbandon, Unanswered
    <2>2. wire' \in [Calls -> Seq(Exchange)]
      <3>1. CASE wire' = wire
        BY <3>1
      <3>2. CASE wire' = [wire EXCEPT ![conn] = Append(@, Request(c, "cut"))]
        BY <2>1, <3>2
      <3> QED
        BY <1>8, <3>1, <3>2 DEF SendAbandon
    <2> QED
      BY <1>8, <2>2, KeepingType DEF SendAbandon
  <1>9. ASSUME NEW c \in Calls, RecvOk(c) PROVE TypeOK'
    <2>1. conn \in Calls
      BY <1>0, <1>9 DEF RecvOk, InFlightIsNewest
    <2>2. Head(wire[conn]) \in Exchange /\ Tail(wire[conn]) \in Seq(Exchange)
      BY <1>9, <2>1, HeadTailProperties DEF RecvOk
    <2> QED
      BY <1>9, <2>1, <2>2 DEF RecvOk, PCs, Exchange
  <1>10. ASSUME NEW c \in Calls, RecvAbandon(c) PROVE TypeOK'
    <2>0. wire' \in [Calls -> Seq(Exchange)] => TypeOK'
      BY <1>0, <1>10, KeepingType DEF RecvAbandon
    <2>1. conn \in Calls
      BY <1>0, <1>10 DEF RecvAbandon, InFlightIsNewest
    <2>2. CASE wire' = wire
      BY <2>0, <2>2
    <2>3. CASE wire[conn] # << >> /\ wire' = [wire EXCEPT ![conn][1] = Turned(@, "garbled", 0)]
      <3>1. wire[conn] \in Seq(Exchange) /\ 1 \in 1..Len(wire[conn])
        BY <2>1, <2>3, EmptySeq
      <3>2. Turned(wire[conn][1], "garbled", 0) \in Exchange
        <4>1. wire[conn][1] \in Exchange /\ "garbled" \in Answered /\ 0 \in Nat
          BY <3>1 DEF Answered
        <4> QED
          BY <4>1, TurnedType
      <3>3. wire' \in [Calls -> Seq(Exchange)]
        BY <2>1, <2>3, <3>1, <3>2
      <3> QED
        BY <2>0, <3>3
    <2>4. CASE wire[conn] # << >> /\ wire' = [wire EXCEPT ![conn] = Tail(@)]
      <3>1. wire' \in [Calls -> Seq(Exchange)]
        BY <2>1, <2>4, HeadTailProperties
      <3> QED
        BY <2>0, <3>1
    <2> QED
      BY <1>10, <2>2, <2>3, <2>4 DEF RecvAbandon
  <1>11. CASE Close
    BY <1>0, <1>11 DEF Close
  <1>12. ASSUME NEW k \in Calls, BrokerDrop(k) PROVE TypeOK'
    BY <1>12, SMTT(60) DEF BrokerDrop, client
  <1>13. ASSUME NEW k \in Calls, NEW i \in 1..Len(wire[k]),
                BrokerAppend(k, i) \/ BrokerRefuse(k, i)
         PROVE  TypeOK'
    <2>1. wire[k] \in Seq(Exchange) /\ wire[k][i] \in Exchange
      OBVIOUS
    <2>2. CASE BrokerAppend(k, i)
      <3>1. Turned(wire[k][i], "ok", Len(log) + 1) \in Exchange
        <4>1. wire[k][i] \in Exchange /\ "ok" \in Answered /\ Len(log) + 1 \in Nat
          BY <2>1 DEF Answered
        <4> QED
          BY <4>1, TurnedType
      <3>2. wire[k][i].call \in Calls
        BY <2>1 DEF Exchange
      <3>3. log' \in Seq(Calls)
        BY <2>2, <3>2 DEF BrokerAppend
      <3>4. wire' \in [Calls -> Seq(Exchange)]
        BY <2>1, <2>2, <3>1 DEF BrokerAppend
      <3> QED
        BY <2>2, <3>3, <3>4 DEF BrokerAppend, client
    <2>3. CASE BrokerRefuse(k, i)
      <3>1. Turned(wire[k][i], "refused", 0) \in Exchange
        <4>1. wire[k][i] \in Exchange /\ "refused" \in Answered /\ 0 \in Nat
          BY <2>1 DEF Answered
        <4> QED
          BY <4>1, TurnedType
      <3>2. wire' \in [Calls -> Seq(Exchange)]
        BY <2>1, <2>3, <3>1 DEF BrokerRefuse
      <3> QED
        BY <2>3, <3>2 DEF BrokerRefuse, client
    <2> QED
      BY <1>13, <2>2, <2>3
  <1>14. CASE UNCHANGED vars
    BY <1>14 DEF vars, client, broker
  <1> QED
    BY <1>1, <1>2, <1>3, <1>4, <1>5, <1>6, <1>7, <1>8, <1>9, <1>10, <1>11, <1>12,
       <1>13, <1>14 DEF Next, Produce, Broker

-----------------------------------------------------------------------------
(* The invariant step, one lemma per action. *)

\* The parts of the invariant that speak of what is on the wire and in the log.
WireInv ==
  /\ UndialledIsEmpty
  /\ ExchangeIsTrue
  /\ OneExchangePerCall
  /\ LoggedWereSent

\* What is on the wire are exchanges of calls; what is in the log are calls.
LEMMA WireType ==
  ASSUME TypeOK
  PROVE  /\ \A k \in Calls : Len(wire[k]) \in Nat
         /\ \A k \in Calls : \A i \in 1..Len(wire[k]) :
              /\ wire[k][i] \in Exchange
              /\ wire[k][i].call \in Calls
              /\ wire[k][i].corr \in 1..MaxCorr
         /\ \A i \in 1..Len(log) : log[i] \in Calls
  <1>1. \A k \in Calls : wire[k] \in Seq(Exchange)
    BY DEF TypeOK
  <1>2. \A k \in Calls : \A i \in 1..Len(wire[k]) : wire[k][i] \in Exchange
    BY <1>1
  <1>3. \A i \in 1..Len(log) : log[i] \in Calls
    BY DEF TypeOK
  <1> QED
    BY <1>1, <1>2, <1>3, SMTT(60) DEF Exchange

\* A call that is nowhere on the wire nor in the log may go anywhere.
LEMMA UnsentMoves ==
  ASSUME Inv, NEW c \in Calls, pc[c] \in {"new", "held", "send"},
         wire' = wire, log' = log, conn' = conn,
         \A d \in Calls : d # c => corr'[d] = corr[d],
         NEW p \in PCs, pc' = [pc EXCEPT ![c] = p],
         p # "new", p = "held" => pc[c] # "send", conn = c => pc[c] # "new"
  PROVE  WireInv'
  <1>0. TypeOK /\ WireInv /\ pc \in [Calls -> PCs]
    BY DEF Inv, WireInv, TypeOK
  <1>1. UndialledIsEmpty'
    BY <1>0 DEF UndialledIsEmpty, WireInv, TypeOK
  <1>2. \A k \in Calls : \A i \in 1..Len(wire[k]) :
          wire[k][i].call \in Calls /\ wire[k][i].call # c
    BY <1>0, WireType DEF ExchangeIsTrue, WireInv
  <1>3. \A d \in Calls : d # c => pc'[d] = pc[d]
    BY <1>0
  <1>4. ExchangeIsTrue'
    BY <1>0, <1>2, <1>3, SMTT(60) DEF ExchangeIsTrue, Logged, WireInv
  <1>5. OneExchangePerCall'
    BY <1>0 DEF OneExchangePerCall, WireInv
  <1>6. \A i \in 1..Len(log) : log[i] \in Calls /\ log[i] # c
    BY <1>0, WireType DEF LoggedWereSent, WireInv
  <1>7. LoggedWereSent'
    BY <1>0, <1>3, <1>6 DEF LoggedWereSent, WireInv
  <1> QED
    BY <1>1, <1>4, <1>5, <1>7 DEF WireInv

\* The offsets returned so far stay right while the log only grows.
LEMMA ReturnedStay ==
  ASSUME Inv, log' = log, offset' = offset,
         \A c \in Calls : pc'[c] = "ok" => pc[c] = "ok"
  PROVE  OffsetIsOwn' /\ AppendedOnce'
  BY DEF OffsetIsOwn, AppendedOnce, Inv

\* Stale exchanges keep their distance while nothing is drawn or abandoned.
LEMMA StaleKept ==
  ASSUME Inv, UNCHANGED <<conn, seq, corr, born, abandoned>>,
         InFlight' <=> InFlight,
         \A d \in Calls : pc[d] = "recv" => pc'[d] = "recv",
         conn # None =>
           \A i \in 1..Len(wire'[conn]) : \E j \in 1..Len(wire[conn]) :
             wire'[conn][i].call = wire[conn][j].call
  PROVE  StaleIsBehind'
  <1> SUFFICES ASSUME conn # None, NEW i \in 1..Len(wire'[conn]),
                      pc'[wire'[conn][i].call] # "recv"
               PROVE  LET d == wire'[conn][i].call
                      IN  /\ born'[d] < abandoned'
                          /\ Dist(corr'[d], seq') + (IF InFlight' THEN 0 ELSE 1)
                               = abandoned' - born'[d]
    BY DEF StaleIsBehind
  <1>1. PICK j \in 1..Len(wire[conn]) : wire'[conn][i].call = wire[conn][j].call
    OBVIOUS
  <1>2. wire[conn][j].call \in Calls
    BY WireType DEF Inv, TypeOK
  <1> QED
    BY <1>1, <1>2 DEF Inv, StaleIsBehind, Dist

\* Refusing a call that lacks an address or a topic keeps the invariant.
LEMMA RefuseStep ==
  ASSUME Inv, TypeOK', NEW c \in Calls, Refuse(c) PROVE Inv'
  <1>0. TypeOK /\ pc \in [Calls -> PCs]
    BY DEF Inv, TypeOK
  <1>1. pc[c] = "new" /\ pc' = [pc EXCEPT ![c] = "raised"]
    BY DEF Refuse
  <1>2. UNCHANGED <<lock, conn, seq, corr, offset, abandoned, born, wire, log>>
    BY DEF Refuse, broker
  <1>3. HolderOwnsLock' /\ InFlightIsNewest'
    BY <1>0, <1>1, <1>2, NoneAssumption DEF HolderOwnsLock, InFlightIsNewest, Held, Inv
  <1>4. WireInv'
    BY <1>1, <1>2, UnsentMoves, NoneAssumption DEF PCs, Inv, UndialledIsEmpty
  <1>5. InFlight' <=> InFlight
    BY <1>0, <1>1 DEF InFlight
  <1>6. StaleIsBehind'
    BY <1>0, <1>1, <1>2, <1>5, StaleKept
  <1>7. OffsetIsOwn' /\ AppendedOnce'
    BY <1>0, <1>1, <1>2, ReturnedStay
  <1> QED
    BY <1>3, <1>4, <1>6, <1>7 DEF WireInv, Inv

\* Taking the lock keeps the invariant: nobody was in flight.
LEMMA AcquireStep ==
  ASSUME Inv, TypeOK', NEW c \in Calls, Acquire(c) PROVE Inv'
  <1>0. TypeOK /\ pc \in [Calls -> PCs]
    BY DEF Inv, TypeOK
  <1>1. pc[c] = "new" /\ lock = None /\ pc' = [pc EXCEPT ![c] = "held"] /\ lock' = c
    BY DEF Acquire
  <1>2. UNCHANGED <<conn, seq, corr, offset, abandoned, born, wire, log>>
    BY DEF Acquire, broker
  <1>3. HolderOwnsLock' /\ InFlightIsNewest'
    BY <1>0, <1>1, <1>2, NoneAssumption DEF HolderOwnsLock, InFlightIsNewest, Held, Inv
  <1>4. WireInv'
    BY <1>1, <1>2, UnsentMoves, NoneAssumption DEF PCs, Inv, UndialledIsEmpty
  <1>5. StaleIsBehind'
    <2>1. InFlight' <=> InFlight
      BY <1>0, <1>1 DEF InFlight
    <2> QED
      BY <1>0, <1>1, <1>2, <2>1, StaleKept
  <1>6. OffsetIsOwn' /\ AppendedOnce'
    BY <1>0, <1>1, <1>2, ReturnedStay
  <1> QED
    BY <1>3, <1>4, <1>5, <1>6 DEF WireInv, Inv

\* A failed connect keeps the invariant: only the lock changes hands.
LEMMA DialFailStep ==
  ASSUME Inv, TypeOK', NEW c \in Calls, DialFail(c) PROVE Inv'
  <1>0. TypeOK /\ pc \in [Calls -> PCs]
    BY DEF Inv, TypeOK
  <1>1. /\ pc[c] = "held" /\ conn = None
        /\ pc' = [pc EXCEPT ![c] = "raised"] /\ lock' = None
    BY DEF DialFail
  <1>2. UNCHANGED <<conn, seq, corr, offset, abandoned, born, wire, log>>
    BY DEF DialFail, broker
  <1>3. HolderOwnsLock' /\ InFlightIsNewest'
    BY <1>0, <1>1, <1>2, NoneAssumption DEF HolderOwnsLock, InFlightIsNewest, Held, Inv
  <1>4. WireInv'
    BY <1>1, <1>2, UnsentMoves, NoneAssumption DEF PCs, Inv, UndialledIsEmpty
  <1>5. StaleIsBehind'
    BY <1>1, <1>2 DEF StaleIsBehind
  <1>6. OffsetIsOwn' /\ AppendedOnce'
    BY <1>0, <1>1, <1>2, ReturnedStay
  <1> QED
    BY <1>3, <1>4, <1>5, <1>6 DEF WireInv, Inv

\* While c holds the lock no other call is between its acquire and its way out.
LEMMA HolderAlone ==
  ASSUME Inv, NEW c \in Calls, pc[c] \in Held, NEW d \in Calls, pc[d] \in Held
  PROVE  d = c
  BY DEF Inv, HolderOwnsLock

\* A new connection keeps the invariant: it is empty, so nothing on it is stale.
LEMMA DialStep ==
  ASSUME Inv, TypeOK', NEW c \in Calls, Dial(c) PROVE Inv'
  <1>1. pc[c] = "held" /\ conn = None /\ conn' = c /\ abandoned' = 0
    BY DEF Dial
  <1>2. UNCHANGED <<lock, seq, pc, corr, offset, wire, log, born>>
    BY DEF Dial
  <1>3. \A d \in Calls : pc[d] \notin {"send", "recv"}
    BY <1>1, HolderAlone DEF Held
  <1>4. HolderOwnsLock' /\ InFlightIsNewest'
    BY <1>2, <1>3 DEF HolderOwnsLock, InFlightIsNewest, Inv
  <1>5. UndialledIsEmpty' /\ wire[c] = << >>
    BY <1>1, <1>2 DEF UndialledIsEmpty, Inv
  <1>6. ExchangeIsTrue' /\ OneExchangePerCall' /\ LoggedWereSent'
    <2>1. \A k \in Calls : \A i \in 1..Len(wire[k]) : wire[k][i].call \in Calls
      BY WireType DEF Inv
    <2> QED
      BY <1>2, <1>3, <2>1 DEF ExchangeIsTrue, OneExchangePerCall, LoggedWereSent, Logged, Inv
  <1>7. StaleIsBehind'
    BY <1>1, <1>2, <1>5 DEF StaleIsBehind
  <1>8. OffsetIsOwn' /\ AppendedOnce'
    BY <1>2, ReturnedStay
  <1> QED
    BY <1>4, <1>5, <1>6, <1>7, <1>8 DEF Inv

\* Drawing an id keeps the invariant: every stale exchange falls one id further
\* behind, as many as calls were abandoned since.
LEMMA DrawCorrStep ==
  ASSUME Inv, TypeOK', NEW c \in Calls, DrawCorr(c) PROVE Inv'
  <1>0. TypeOK /\ pc \in [Calls -> PCs] /\ corr \in [Calls -> 0..MaxCorr]
        /\ born \in [Calls -> 0..MaxAbandon] /\ seq \in 0..MaxCorr
        /\ abandoned \in 0..MaxAbandon
    BY DEF Inv, TypeOK
  <1>1. /\ pc[c] = "held" /\ conn # None
        /\ pc' = [pc EXCEPT ![c] = "send"]
        /\ seq' = NextCorr
        /\ corr' = [corr EXCEPT ![c] = NextCorr]
        /\ born' = [born EXCEPT ![c] = abandoned]
    BY DEF DrawCorr
  <1>2. UNCHANGED <<lock, conn, offset, abandoned, wire, log>>
    BY DEF DrawCorr, broker
  <1>3. \A d \in Calls : d # c => pc[d] \notin Held
    BY <1>1, HolderAlone DEF Held
  <1>4. NextCorr \in 1..MaxCorr
    BY <1>0, NextCorrIsFurther
  <1>5. HolderOwnsLock' /\ InFlightIsNewest'
    BY <1>0, <1>1, <1>2, <1>3, <1>4 DEF HolderOwnsLock, InFlightIsNewest, Held, Inv
  <1>6. WireInv'
    BY <1>0, <1>1, <1>2, UnsentMoves, NoneAssumption DEF PCs, Inv, UndialledIsEmpty
  <1>7. StaleIsBehind'
    <2> SUFFICES ASSUME NEW i \in 1..Len(wire[conn])
                 PROVE  LET d == wire[conn][i].call
                        IN  /\ born'[d] < abandoned
                            /\ Dist(corr'[d], NextCorr) + (IF InFlight' THEN 0 ELSE 1)
                                 = abandoned - born'[d]
      BY <1>1, <1>2 DEF StaleIsBehind
    <2> DEFINE d == wire[conn][i].call
    <2>0. conn \in Calls
      BY <1>0, <1>1 DEF TypeOK
    <2>1. d \in Calls /\ pc[d] \in {"recv", "raised"} /\ corr[d] \in 1..MaxCorr
      BY <1>0, <2>0, WireType DEF Inv, ExchangeIsTrue
    <2>2. d # c /\ pc[d] = "raised"
      BY <1>1, <1>3, <2>1 DEF Held
    <2>3. ~ InFlight /\ InFlight'
      BY <1>0, <1>1, <1>3 DEF InFlight, Held
    <2>4. born[d] < abandoned /\ Dist(corr[d], seq) + 1 = abandoned - born[d]
      BY <1>1, <2>0, <2>2, <2>3 DEF Inv, StaleIsBehind
    <2>5. born[d] \in 0..MaxAbandon
      BY <1>0, <2>1
    <2>6. Dist(corr[d], seq) \in Int
      BY <1>0, <2>1, CorrAssumption, SMTT(60) DEF Dist
    <2>7. Dist(corr[d], seq) + 1 < MaxCorr
      BY <1>0, <2>4, <2>5, <2>6, CorrAssumption, SMTT(60)
    <2>8. Dist(corr[d], NextCorr) = Dist(corr[d], seq) + 1
      BY <1>0, <2>1, <2>7, NextCorrIsFurther
    <2> QED
      BY <1>0, <1>1, <2>1, <2>2, <2>3, <2>4, <2>8
  <1>8. OffsetIsOwn' /\ AppendedOnce'
    BY <1>0, <1>1, <1>2, ReturnedStay
  <1> QED
    BY <1>5, <1>6, <1>7, <1>8 DEF WireInv, Inv

\* The wire loses the head of some connections (shift), answers turn to less, and
\* a call in flight may leave; what is left on the wire and in the log stays true.
LEMMA WireFades ==
  ASSUME Inv, TypeOK', log' = log, corr' = corr,
         conn' = conn \/ conn' = None,
         NEW shift \in [Calls -> Nat],
         \A k \in Calls : Len(wire'[k]) + shift[k] = Len(wire[k]),
         \A k \in Calls : \A i \in 1..Len(wire'[k]) :
           /\ wire'[k][i].call = wire[k][i + shift[k]].call
           /\ wire'[k][i].corr = wire[k][i + shift[k]].corr
           /\ wire'[k][i].st = "asked" => wire[k][i + shift[k]].st = "asked"
           /\ wire'[k][i].st = "ok" => /\ wire[k][i + shift[k]].st = "ok"
                                       /\ wire[k][i + shift[k]].offset = wire'[k][i].offset,
         \A d \in Calls :
           \/ pc'[d] = pc[d]
           \/ pc[d] \in {"send", "recv"} /\ pc'[d] = "raised"
           \/ /\ pc[d] = "recv" /\ pc'[d] = "ok"
              /\ \A k \in Calls : \A i \in 1..Len(wire'[k]) : wire'[k][i].call # d,
         conn' # conn => \A d \in Calls : pc'[d] # "recv"
  PROVE  WireInv'
  <1>1. \A k \in Calls : Len(wire'[k]) \in Nat /\ Len(wire[k]) \in Nat
    BY WireType, SMTT(60) DEF Inv, TypeOK
  <1>2. \A k \in Calls : \A i \in 1..Len(wire'[k]) : i + shift[k] \in 1..Len(wire[k])
    BY <1>1
  <1>3. \A k \in Calls : \A i \in 1..Len(wire[k]) : wire[k][i].call \in Calls
    BY WireType DEF Inv
  <1>4. UndialledIsEmpty'
    <2>1. \A c \in Calls : pc'[c] \in {"new", "held"} => Len(wire'[c]) = 0
      BY <1>1 DEF Inv, UndialledIsEmpty
    <2>2. \A c \in Calls : wire'[c] \in Seq(Exchange)
      BY DEF TypeOK
    <2>3. conn' # None => pc'[conn'] # "new"
      BY DEF Inv, UndialledIsEmpty, TypeOK
    <2> QED
      BY <2>1, <2>2, <2>3, EmptySeq DEF UndialledIsEmpty
  <1>5. ExchangeIsTrue'
    <2> SUFFICES ASSUME NEW k \in Calls, NEW i \in 1..Len(wire'[k])
                 PROVE  LET x == wire'[k][i]
                        IN  /\ pc'[x.call] \in {"recv", "raised"}
                            /\ x.corr = corr[x.call]
                            /\ pc'[x.call] = "recv" => k = conn' /\ i = Len(wire'[k])
                            /\ x.st = "asked" => x.call \notin Logged
                            /\ x.st = "ok" => x.offset \in 1..Len(log) /\ log[x.offset] = x.call
      BY SMTT(60) DEF ExchangeIsTrue, Logged
    <2> DEFINE y == wire[k][i + shift[k]]
    <2>1. i + shift[k] \in 1..Len(wire[k]) /\ y.call \in Calls
      BY <1>2, <1>3
    <2>2. /\ pc[y.call] \in {"recv", "raised"}
          /\ y.corr = corr[y.call]
          /\ pc[y.call] = "recv" => k = conn /\ i + shift[k] = Len(wire[k])
          /\ y.st = "asked" => y.call \notin Logged
          /\ y.st = "ok" => y.offset \in 1..Len(log) /\ log[y.offset] = y.call
      BY <2>1 DEF Inv, ExchangeIsTrue
    <2>3. shift[k] \in Nat /\ Len(wire'[k]) + shift[k] = Len(wire[k])
      OBVIOUS
    <2>4. i + shift[k] = Len(wire[k]) => i = Len(wire'[k])
      BY <1>1, <2>3
    <2>5. wire'[k][i].call = y.call
      OBVIOUS
    <2> QED
      BY <2>1, <2>2, <2>4, <2>5, ZenonT(60)
  <1>6. OneExchangePerCall'
    <2> SUFFICES ASSUME NEW k \in Calls, NEW m \in Calls,
                        NEW i \in 1..Len(wire'[k]), NEW j \in 1..Len(wire'[m]),
                        wire'[k][i].call = wire'[m][j].call
                 PROVE  k = m /\ i = j
      BY DEF OneExchangePerCall
    <2>1. i + shift[k] \in 1..Len(wire[k]) /\ j + shift[m] \in 1..Len(wire[m])
      BY <1>2
    <2>2. k = m /\ i + shift[k] = j + shift[m]
      <3>1. wire[k][i + shift[k]].call = wire[m][j + shift[m]].call
        OBVIOUS
      <3>2. \A p, q \in Calls : \A a \in 1..Len(wire[p]), b \in 1..Len(wire[q]) :
              wire[p][a].call = wire[q][b].call => p = q /\ a = b
        BY DEF Inv, OneExchangePerCall
      <3> QED
        BY <2>1, <3>1, <3>2, ZenonT(60)
    <2>3. i \in Int /\ j \in Int /\ shift[k] \in Nat
      BY <1>1
    <2> QED
      BY <2>2, <2>3
  <1>7. LoggedWereSent'
    <2>1. \A i \in 1..Len(log) : log[i] \in Calls /\ pc[log[i]] \in {"recv", "ok", "raised"}
      BY WireType DEF Inv, LoggedWereSent
    <2> QED
      BY <2>1 DEF LoggedWereSent
  <1> QED
    BY <1>4, <1>5, <1>6, <1>7 DEF WireInv

\* The special case of a wire that does not change at all.
LEMMA WireStays ==
  ASSUME Inv, TypeOK', log' = log, corr' = corr, wire' = wire,
         conn' = conn \/ conn' = None,
         \A d \in Calls : \/ pc'[d] = pc[d]
                          \/ pc[d] \in {"send", "recv"} /\ pc'[d] = "raised",
         conn' # conn => \A d \in Calls : pc'[d] # "recv"
  PROVE  WireInv'
  <1> DEFINE shift == [k \in Calls |-> 0]
  <1>1. shift \in [Calls -> Nat] /\ \A k \in Calls : shift[k] = 0
    OBVIOUS
  <1>2. \A k \in Calls : Len(wire[k]) \in Nat
    BY WireType DEF Inv
  <1>3. \A k \in Calls : Len(wire'[k]) + shift[k] = Len(wire[k])
    BY <1>1, <1>2
  <1>4. \A k \in Calls : \A i \in 1..Len(wire'[k]) : i + shift[k] = i
    BY <1>1, <1>2
  <1> HIDE DEF shift
  <1> QED
    BY <1>1, <1>3, <1>4, WireFades

\* Every way out that closes the connection.
LEMMA FailClosingStep ==
  ASSUME Inv, TypeOK', NEW c \in Calls, pc[c] \in {"send", "recv"}, FailClosing(c),
         UNCHANGED <<seq, corr, offset, born, wire, log>>
  PROVE  Inv'
  <1>0. TypeOK /\ pc \in [Calls -> PCs]
    BY DEF Inv, TypeOK
  <1>1. lock' = None /\ conn' = None /\ pc' = [pc EXCEPT ![c] = "raised"]
    BY DEF FailClosing
  <1>2. \A d \in Calls : d # c => pc[d] \notin Held
    BY HolderAlone DEF Held
  <1>3. HolderOwnsLock' /\ InFlightIsNewest'
    BY <1>0, <1>1, <1>2, NoneAssumption DEF HolderOwnsLock, InFlightIsNewest, Held
  <1>4. WireInv'
    <2>1. \A d \in Calls : pc'[d] # "recv"
      BY <1>0, <1>1, <1>2 DEF Held
    <2> QED
      BY <1>0, <1>1, <2>1, WireStays
  <1>5. StaleIsBehind'
    BY <1>1 DEF StaleIsBehind
  <1>6. OffsetIsOwn' /\ AppendedOnce'
    BY <1>0, <1>1, ReturnedStay
  <1> QED
    BY <1>3, <1>4, <1>5, <1>6 DEF WireInv, Inv

\* close() keeps the invariant: nobody is in flight when it has the lock.
LEMMA CloseStep ==
  ASSUME Inv, TypeOK', Close PROVE Inv'
  <1>1. lock = None /\ conn' = None
        /\ UNCHANGED <<lock, seq, pc, corr, offset, born, wire, log>>
    BY DEF Close
  <1>2. \A d \in Calls : pc[d] \notin Held
    BY <1>1, NoneAssumption DEF Inv, HolderOwnsLock
  <1>3. HolderOwnsLock' /\ InFlightIsNewest'
    BY <1>1, <1>2 DEF HolderOwnsLock, InFlightIsNewest, Held, Inv
  <1>4. WireInv'
    BY <1>1, <1>2, WireStays DEF Held
  <1>5. StaleIsBehind'
    BY <1>1 DEF StaleIsBehind
  <1>6. OffsetIsOwn' /\ AppendedOnce'
    BY <1>1, ReturnedStay
  <1> QED
    BY <1>3, <1>4, <1>5, <1>6 DEF WireInv, Inv

\* Writing a request (whole or cut) at the end of the kept connection.
LEMMA WireGrows ==
  ASSUME Inv, TypeOK', NEW c \in Calls, pc[c] = "send",
         log' = log, corr' = corr, conn' = conn,
         NEW st \in Unanswered,
         wire' = [wire EXCEPT ![conn] = Append(@, Request(c, st))],
         NEW p \in {"recv", "raised"}, pc' = [pc EXCEPT ![c] = p]
  PROVE  /\ WireInv'
         /\ conn \in Calls
         /\ Len(wire'[conn]) = Len(wire[conn]) + 1
         /\ \A i \in 1..Len(wire[conn]) : wire'[conn][i] = wire[conn][i]
         /\ wire'[conn][Len(wire[conn]) + 1].call = c
  <1>0. TypeOK /\ pc \in [Calls -> PCs] /\ corr \in [Calls -> 0..MaxCorr]
    BY DEF Inv, TypeOK
  <1>1. Request(c, st) \in Exchange /\ conn \in Calls
    BY RequestType DEF Inv
  <1> DEFINE n == Len(wire[conn])
  <1>2. n \in Nat /\ wire[conn] \in Seq(Exchange)
    BY <1>1 DEF Inv, TypeOK
  <1>3. /\ wire'[conn] = Append(wire[conn], Request(c, st))
        /\ \A k \in Calls : k # conn => wire'[k] = wire[k]
    BY <1>0, <1>1 DEF TypeOK
  <1>4. /\ Len(wire'[conn]) = n + 1
        /\ \A i \in 1..n : wire'[conn][i] = wire[conn][i]
        /\ wire'[conn][n + 1] = Request(c, st)
    BY <1>1, <1>2, <1>3
  <1>5. \A d \in Calls : d # c => pc'[d] = pc[d] /\ pc[d] \notin Held
    BY <1>0, HolderAlone DEF Held
  <1>6. \A k \in Calls : \A i \in 1..Len(wire[k]) :
          wire[k][i].call \in Calls /\ wire[k][i].call # c
    BY <1>0, WireType DEF Inv, ExchangeIsTrue
  <1>7. \A k \in Calls : \A i \in 1..Len(wire'[k]) :
          \/ k = conn /\ i = n + 1
          \/ i \in 1..Len(wire[k]) /\ wire'[k][i] = wire[k][i]
    BY <1>1, <1>2, <1>3, <1>4
  <1>8. /\ Request(c, st).call = c /\ Request(c, st).corr = corr[c]
        /\ Request(c, st).st = st
    BY DEF Request
  <1>9. UndialledIsEmpty'
    <2>1. pc[conn] \notin {"new", "held"}
      BY <1>1, <1>5, NoneAssumption DEF Inv, UndialledIsEmpty, Held
    <2>2. \A d \in Calls : pc'[d] \in {"new", "held"} => d # conn /\ pc[d] \in {"new", "held"}
      BY <1>0, <1>5, <2>1
    <2> QED
      BY <1>1, <1>0, <1>3, <2>1, <2>2 DEF UndialledIsEmpty, Inv
  <1>10. ExchangeIsTrue'
    <2> SUFFICES ASSUME NEW k \in Calls, NEW i \in 1..Len(wire'[k])
                 PROVE  LET x == wire'[k][i]
                        IN  /\ pc'[x.call] \in {"recv", "raised"}
                            /\ x.corr = corr'[x.call]
                            /\ pc'[x.call] = "recv" => k = conn' /\ i = Len(wire'[k])
                            /\ x.st = "asked" => x.call \notin Logged'
                            /\ x.st = "ok" => x.offset \in 1..Len(log') /\ log'[x.offset] = x.call
      BY DEF ExchangeIsTrue
    <2>0. Logged' = Logged
      BY DEF Logged
    <2>1. CASE k = conn /\ i = n + 1
      <3>1. c \notin Logged
        BY DEF Inv, LoggedWereSent, Logged
      <3>2. pc'[c] = p /\ wire'[k][i].call = c /\ wire'[k][i].corr = corr[c]
            /\ wire'[k][i].st = st
        BY <1>0, <1>4, <1>8, <2>1
      <3> QED
        BY <1>4, <2>0, <2>1, <3>1, <3>2 DEF Unanswered
    <2>2. CASE i \in 1..Len(wire[k]) /\ wire'[k][i] = wire[k][i]
      <3>1. wire[k][i].call \in Calls /\ wire[k][i].call # c
        BY <1>6, <2>2
      <3>2. pc'[wire[k][i].call] = pc[wire[k][i].call] /\ pc[wire[k][i].call] # "recv"
        BY <1>5, <3>1 DEF Held
      <3> QED
        BY <2>0, <2>2, <3>2 DEF Inv, ExchangeIsTrue
    <2> QED
      BY <1>7, <2>1, <2>2
  <1>11. OneExchangePerCall'
    <2> SUFFICES ASSUME NEW k \in Calls, NEW m \in Calls,
                        NEW i \in 1..Len(wire'[k]), NEW j \in 1..Len(wire'[m]),
                        wire'[k][i].call = wire'[m][j].call
                 PROVE  k = m /\ i = j
      BY DEF OneExchangePerCall
    <2>1. CASE i \in 1..Len(wire[k]) /\ wire'[k][i] = wire[k][i]
               /\ j \in 1..Len(wire[m]) /\ wire'[m][j] = wire[m][j]
      BY <2>1 DEF Inv, OneExchangePerCall
    <2> QED
      BY <1>4, <1>6, <1>7, <1>8, <2>1
  <1>12. LoggedWereSent'
    <2>1. \A i \in 1..Len(log) : log[i] \in Calls /\ pc[log[i]] \in {"recv", "ok", "raised"}
      BY <1>0, WireType DEF Inv, LoggedWereSent
    <2> QED
      BY <1>0, <2>1 DEF LoggedWereSent
  <1> QED
    BY <1>1, <1>4, <1>8, <1>9, <1>10, <1>11, <1>12 DEF WireInv

\* Writing the request keeps the invariant: the call has no other exchange.
LEMMA SendStep ==
  ASSUME Inv, TypeOK', NEW c \in Calls, Send(c) PROVE Inv'
  <1>0. TypeOK /\ pc \in [Calls -> PCs]
    BY DEF Inv, TypeOK
  <1>1. pc[c] = "send" /\ pc' = [pc EXCEPT ![c] = "recv"]
    BY DEF Send
  <1>2. UNCHANGED <<lock, conn, seq, corr, offset, abandoned, born, log>>
    BY DEF Send
  <1>3. HolderOwnsLock' /\ InFlightIsNewest'
    BY <1>0, <1>1, <1>2 DEF HolderOwnsLock, InFlightIsNewest, Held, Inv
  <1>4. InFlight /\ InFlight' /\ conn \in Calls
    BY <1>0, <1>1, NoneAssumption DEF InFlight, Inv, InFlightIsNewest, TypeOK
  <1>5. WireInv' /\ StaleIsBehind'
    <2>1. CASE wire' = wire
      <3>1. WireInv'
        BY <1>1, <1>2, <2>1, UnsentMoves, NoneAssumption DEF PCs, Inv
      <3>2. StaleIsBehind'
        BY <1>0, <1>1, <1>2, <1>4, <2>1, StaleKept
      <3> QED
        BY <3>1, <3>2
    <2>2. CASE wire' = [wire EXCEPT ![conn] = Append(@, Request(c, "asked"))]
      <3>1. /\ WireInv'
            /\ Len(wire'[conn]) = Len(wire[conn]) + 1
            /\ \A i \in 1..Len(wire[conn]) : wire'[conn][i] = wire[conn][i]
            /\ wire'[conn][Len(wire[conn]) + 1].call = c
        BY <1>1, <1>2, <2>2, WireGrows DEF Unanswered
      <3>2. StaleIsBehind'
        <4> SUFFICES ASSUME NEW i \in 1..Len(wire'[conn]),
                            pc'[wire'[conn][i].call] # "recv"
                     PROVE  LET d == wire'[conn][i].call
                            IN  /\ born[d] < abandoned
                                /\ Dist(corr[d], seq) + (IF InFlight' THEN 0 ELSE 1)
                                     = abandoned - born[d]
          BY <1>2 DEF StaleIsBehind, Dist
        <4>1. i # Len(wire[conn]) + 1
          BY <1>0, <1>1, <3>1
        <4>2. Len(wire[conn]) \in Nat
          BY <1>0, <1>4, WireType
        <4>3. i \in 1..Len(wire[conn]) /\ wire'[conn][i] = wire[conn][i]
          BY <3>1, <4>1, <4>2
        <4>4. wire[conn][i].call \in Calls /\ pc[wire[conn][i].call] # "recv"
          BY <1>0, <1>1, <1>4, <4>3, WireType
        <4> QED
          BY <1>4, <4>3, <4>4, NoneAssumption DEF Inv, StaleIsBehind
      <3> QED
        BY <3>1, <3>2
    <2> QED
      BY <2>1, <2>2 DEF Send
  <1>6. OffsetIsOwn' /\ AppendedOnce'
    BY <1>0, <1>1, <1>2, ReturnedStay
  <1> QED
    BY <1>3, <1>5, <1>6 DEF WireInv, Inv

\* An abandoned call leaves its exchange one id behind the next one drawn.
LEMMA StaleAbandoned ==
  ASSUME Inv, TypeOK', NEW c \in Calls, pc[c] \in {"send", "recv"}, FailKeeping(c),
         UNCHANGED <<seq, corr, born>>,
         \A i \in 1..Len(wire'[conn]) :
           \/ wire'[conn][i].call = c
           \/ \E j \in 1..Len(wire[conn]) : wire'[conn][i].call = wire[conn][j].call
  PROVE  StaleIsBehind'
  <1>0. /\ TypeOK /\ pc \in [Calls -> PCs] /\ abandoned \in Nat /\ seq \in 0..MaxCorr
        /\ born \in [Calls -> 0..MaxAbandon] /\ corr \in [Calls -> 0..MaxCorr]
    <2>1. TypeOK
      BY DEF Inv
    <2>2. abandoned \in Nat
      BY <2>1, CorrAssumption DEF TypeOK
    <2> QED
      BY <2>1, <2>2 DEF TypeOK
  <1>1. pc' = [pc EXCEPT ![c] = "raised"] /\ abandoned' = abandoned + 1 /\ conn' = conn
    BY DEF FailKeeping
  <1>2. conn \in Calls /\ conn # None /\ corr[c] = seq /\ born[c] = abandoned
    BY DEF Inv, InFlightIsNewest, TypeOK
  <1>3. \A d \in Calls : d # c => pc[d] \notin Held
    BY HolderAlone DEF Held
  <1>4. InFlight /\ ~ InFlight'
    BY <1>0, <1>1, <1>3 DEF InFlight, Held
  <1> SUFFICES ASSUME NEW i \in 1..Len(wire'[conn])
               PROVE  LET d == wire'[conn][i].call
                      IN  /\ born[d] < abandoned + 1
                          /\ Dist(corr[d], seq) + 1 = (abandoned + 1) - born[d]
    BY <1>1, <1>2, <1>4 DEF StaleIsBehind, Dist
  <1> DEFINE d == wire'[conn][i].call
  <1>5. CASE d = c
    BY <1>0, <1>2, <1>5 DEF Dist
  <1>6. CASE d # c
    <2>1. PICK j \in 1..Len(wire[conn]) : d = wire[conn][j].call
      BY <1>6
    <2>2. d \in Calls
      BY <1>0, <1>2, <2>1, WireType
    <2>3. pc[d] # "recv"
      BY <1>3, <1>6, <2>2 DEF Held
    <2>4. born[d] < abandoned /\ Dist(corr[d], seq) + 0 = abandoned - born[d]
      BY <1>2, <1>4, <2>1, <2>3 DEF Inv, StaleIsBehind
    <2> HIDE DEF d
    <2>5. corr[d] \in 0..MaxCorr /\ born[d] \in 0..MaxAbandon
      BY <1>0, <2>2
    <2>6. born[d] \in Int
      BY <2>5, CorrAssumption
    <2>7. Dist(corr[d], seq) \in Int
      BY <1>0, <2>5, DistInt
    <2>8. born[d] < abandoned + 1 /\ Dist(corr[d], seq) + 1 = (abandoned + 1) - born[d]
      BY <1>0, <2>4, <2>6, <2>7
    <2> QED
      BY <2>8 DEF d
  <1> QED
    BY <1>5, <1>6

\* The lock, the call in flight and the results when a call abandons.
LEMMA AbandonRest ==
  ASSUME Inv, TypeOK', NEW c \in Calls, pc[c] \in {"send", "recv"}, FailKeeping(c),
         UNCHANGED <<seq, corr, offset, born, log>>
  PROVE  /\ HolderOwnsLock' /\ InFlightIsNewest' /\ OffsetIsOwn' /\ AppendedOnce'
         /\ conn' = conn /\ conn \in Calls
         /\ pc' = [pc EXCEPT ![c] = "raised"] /\ pc \in [Calls -> PCs]
         /\ \A d \in Calls : d # c => pc[d] \notin Held /\ pc'[d] = pc[d]
  <1>0. TypeOK /\ pc \in [Calls -> PCs]
    BY DEF Inv, TypeOK
  <1>1. lock' = None /\ pc' = [pc EXCEPT ![c] = "raised"] /\ conn' = conn
    BY DEF FailKeeping
  <1>2. \A d \in Calls : d # c => pc[d] \notin Held
    BY HolderAlone DEF Held
  <1>3. HolderOwnsLock' /\ InFlightIsNewest'
    BY <1>0, <1>1, <1>2, NoneAssumption DEF HolderOwnsLock, InFlightIsNewest, Held
  <1>4. OffsetIsOwn' /\ AppendedOnce'
    BY <1>0, <1>1, ReturnedStay
  <1>5. conn \in Calls
    BY <1>0 DEF Inv, InFlightIsNewest, TypeOK
  <1> QED
    BY <1>0, <1>1, <1>2, <1>3, <1>4, <1>5

\* An interrupted send keeps the invariant: what it leaves is counted as abandoned.
LEMMA SendAbandonStep ==
  ASSUME Inv, TypeOK', NEW c \in Calls, SendAbandon(c) PROVE Inv'
  <1>1. pc[c] = "send" /\ FailKeeping(c) /\ UNCHANGED <<seq, corr, offset, born, log>>
    BY DEF SendAbandon
  <1>2. /\ HolderOwnsLock' /\ InFlightIsNewest' /\ OffsetIsOwn' /\ AppendedOnce'
        /\ conn' = conn /\ conn \in Calls
        /\ pc' = [pc EXCEPT ![c] = "raised"] /\ pc \in [Calls -> PCs]
    BY <1>1, AbandonRest
  <1>3. CASE wire' = wire
    <2>1. WireInv'
      BY <1>1, <1>2, <1>3, UnsentMoves DEF PCs
    <2>2. StaleIsBehind'
      BY <1>1, <1>3, StaleAbandoned
    <2> QED
      BY <1>2, <2>1, <2>2 DEF WireInv, Inv
  <1>4. CASE wire' = [wire EXCEPT ![conn] = Append(@, Request(c, "cut"))]
    <2>1. /\ WireInv'
          /\ Len(wire'[conn]) = Len(wire[conn]) + 1
          /\ \A i \in 1..Len(wire[conn]) : wire'[conn][i] = wire[conn][i]
          /\ wire'[conn][Len(wire[conn]) + 1].call = c
      BY <1>1, <1>2, <1>4, WireGrows DEF Unanswered
    <2>2. Len(wire[conn]) \in Nat
      BY <1>2, WireType DEF Inv
    <2>3. \A i \in 1..Len(wire'[conn]) :
            \/ wire'[conn][i].call = c
            \/ \E j \in 1..Len(wire[conn]) : wire'[conn][i].call = wire[conn][j].call
      BY <2>1, <2>2, SMTT(60)
    <2>4. StaleIsBehind'
      BY <1>1, <2>3, StaleAbandoned
    <2> QED
      BY <1>2, <2>1, <2>4 DEF WireInv, Inv
  <1> QED
    BY <1>3, <1>4 DEF SendAbandon

\* Taking the first exchange of a connection off the wire.
LEMMA PopShift ==
  ASSUME TypeOK, NEW k \in Calls, wire[k] # << >>,
         wire' = [wire EXCEPT ![k] = Tail(@)]
  PROVE  LET shift == [m \in Calls |-> IF m = k THEN 1 ELSE 0]
         IN  /\ shift \in [Calls -> Nat]
             /\ \A m \in Calls : Len(wire'[m]) + shift[m] = Len(wire[m])
             /\ \A m \in Calls : \A i \in 1..Len(wire'[m]) :
                  wire'[m][i] = wire[m][i + shift[m]]
  <1> DEFINE shift == [m \in Calls |-> IF m = k THEN 1 ELSE 0]
  <1>1. wire[k] \in Seq(Exchange) /\ wire'[k] = Tail(wire[k])
    BY DEF TypeOK
  <1>2. /\ Len(wire'[k]) + 1 = Len(wire[k]) /\ Len(wire'[k]) \in Nat
        /\ \A i \in 1..Len(wire'[k]) : wire'[k][i] = wire[k][i + 1]
    <2>1. /\ Tail(wire[k]) \in Seq(Exchange) /\ Len(Tail(wire[k])) = Len(wire[k]) - 1
          /\ \A i \in 1..Len(Tail(wire[k])) : Tail(wire[k])[i] = wire[k][i + 1]
      BY <1>1, HeadTailProperties
    <2>2. Len(wire[k]) \in Nat /\ Len(Tail(wire[k])) \in Nat
      BY <1>1, <2>1
    <2>3. Len(Tail(wire[k])) + 1 = Len(wire[k])
      BY <2>1, <2>2
    <2>4. wire'[k] = Tail(wire[k])
      BY <1>1
    <2> QED
      BY <2>1, <2>2, <2>3, <2>4
  <1>3. \A m \in Calls : m # k => wire'[m] = wire[m] /\ Len(wire[m]) \in Nat
    BY WireType DEF TypeOK
  <1>4. shift \in [Calls -> Nat]
        /\ \A m \in Calls : shift[m] = IF m = k THEN 1 ELSE 0
    OBVIOUS
  <1> HIDE DEF shift
  <1>5. \A m \in Calls : Len(wire'[m]) + shift[m] = Len(wire[m])
    BY <1>2, <1>3, <1>4
  <1>6. \A m \in Calls : \A i \in 1..Len(wire'[m]) : wire'[m][i] = wire[m][i + shift[m]]
    <2> SUFFICES ASSUME NEW m \in Calls, NEW i \in 1..Len(wire'[m])
                 PROVE  wire'[m][i] = wire[m][i + shift[m]]
      OBVIOUS
    <2>1. CASE m = k
      BY <1>2, <1>4, <2>1
    <2>2. CASE m # k
      <3>1. i + shift[m] = i
        BY <1>3, <1>4, <2>2
      <3> QED
        BY <1>3, <2>2, <3>1
    <2> QED
      BY <2>1, <2>2
  <1> QED
    BY <1>4, <1>5, <1>6 DEF shift

Turning(k, i, st, off) == wire' = [wire EXCEPT ![k][i] = Turned(@, st, off)]

\* Turning one exchange of a connection leaves the others, and whose they are.
LEMMA TurnShape ==
  ASSUME TypeOK, NEW k \in Calls, NEW i \in 1..Len(wire[k]), NEW st, NEW off,
         Turning(k, i, st, off)
  PROVE  /\ \A m \in Calls : Len(wire'[m]) = Len(wire[m])
         /\ \A m \in Calls : \A j \in 1..Len(wire[m]) :
              /\ wire'[m][j].call = wire[m][j].call
              /\ wire'[m][j].corr = wire[m][j].corr
              /\ wire'[m][j] = wire[m][j] \/ (m = k /\ j = i)
         /\ wire'[k][i].st = st
         /\ wire'[k][i].offset = off
  <1>1. wire[k] \in Seq(Exchange)
    BY DEF TypeOK
  <1>2. wire'[k] = [wire[k] EXCEPT ![i] = Turned(wire[k][i], st, off)]
        /\ \A m \in Calls : m # k => wire'[m] = wire[m]
    BY DEF TypeOK, Turning
  <1>3. Len(wire'[k]) = Len(wire[k])
        /\ \A j \in 1..Len(wire[k]) :
             wire'[k][j] = IF j = i THEN Turned(wire[k][i], st, off) ELSE wire[k][j]
    BY <1>1, <1>2
  <1> QED
    BY <1>2, <1>3 DEF Turned

\* An answer that is not an offset, wherever it lands, leaves the wire true.
LEMMA TurnFades ==
  ASSUME Inv, TypeOK', log' = log, corr' = corr, conn' = conn,
         NEW k \in Calls, NEW i \in 1..Len(wire[k]), NEW st \in {"refused", "garbled"},
         Turning(k, i, st, 0),
         \A d \in Calls : \/ pc'[d] = pc[d]
                          \/ pc[d] \in {"send", "recv"} /\ pc'[d] = "raised"
  PROVE  WireInv'
  <1> DEFINE shift == [m \in Calls |-> 0]
  <1>1. shift \in [Calls -> Nat] /\ \A m \in Calls : shift[m] = 0
    OBVIOUS
  <1>2. \A m \in Calls : Len(wire[m]) \in Nat
    BY WireType DEF Inv
  <1>3. /\ \A m \in Calls : Len(wire'[m]) = Len(wire[m])
        /\ \A m \in Calls : \A j \in 1..Len(wire[m]) :
             /\ wire'[m][j].call = wire[m][j].call
             /\ wire'[m][j].corr = wire[m][j].corr
             /\ wire'[m][j] = wire[m][j] \/ wire'[m][j].st \in {"refused", "garbled"}
    <2>1. TypeOK
      BY DEF Inv
    <2>2. /\ \A m \in Calls : Len(wire'[m]) = Len(wire[m])
          /\ \A m \in Calls : \A j \in 1..Len(wire[m]) :
               /\ wire'[m][j].call = wire[m][j].call
               /\ wire'[m][j].corr = wire[m][j].corr
               /\ wire'[m][j] = wire[m][j] \/ (m = k /\ j = i)
          /\ wire'[k][i].st = st
      BY <2>1, TurnShape
    <2> QED
      BY <2>2
  <1>4. \A m \in Calls : Len(wire'[m]) + shift[m] = Len(wire[m])
    BY <1>1, <1>2, <1>3
  <1>5. \A m \in Calls : \A j \in 1..Len(wire'[m]) : j + shift[m] = j
    BY <1>1, <1>2, <1>3
  <1> HIDE DEF shift
  <1>6. \A m \in Calls : \A j \in 1..Len(wire'[m]) :
          /\ wire'[m][j].call = wire[m][j + shift[m]].call
          /\ wire'[m][j].corr = wire[m][j + shift[m]].corr
          /\ wire'[m][j].st = "asked" => wire[m][j + shift[m]].st = "asked"
          /\ wire'[m][j].st = "ok" => /\ wire[m][j + shift[m]].st = "ok"
                                      /\ wire[m][j + shift[m]].offset = wire'[m][j].offset
    BY <1>3, <1>5
  <1> QED
    BY <1>1, <1>4, <1>6, WireFades

\* An interrupted receive keeps the invariant, whatever part of the answer it took.
LEMMA RecvAbandonStep ==
  ASSUME Inv, TypeOK', NEW c \in Calls, RecvAbandon(c) PROVE Inv'
  <1>1. pc[c] = "recv" /\ FailKeeping(c) /\ UNCHANGED <<seq, corr, offset, born, log>>
    BY DEF RecvAbandon
  <1>2. /\ HolderOwnsLock' /\ InFlightIsNewest' /\ OffsetIsOwn' /\ AppendedOnce'
        /\ conn' = conn /\ conn \in Calls
        /\ pc' = [pc EXCEPT ![c] = "raised"] /\ pc \in [Calls -> PCs]
        /\ \A d \in Calls : d # c => pc[d] \notin Held /\ pc'[d] = pc[d]
    BY <1>1, AbandonRest
  <1>3. wire[conn] \in Seq(Exchange)
    BY <1>2 DEF Inv, TypeOK
  <1>4. CASE wire' = wire
    <2>1. WireInv'
      BY <1>1, <1>2, <1>4, WireStays
    <2>2. StaleIsBehind'
      BY <1>1, <1>4, StaleAbandoned
    <2> QED
      BY <1>2, <2>1, <2>2 DEF WireInv, Inv
  <1>5. CASE wire[conn] # << >> /\ Turning(conn, 1, "garbled", 0)
    <2>1. 1 \in 1..Len(wire[conn])
      BY <1>3, <1>5, EmptySeq
    <2>2. WireInv'
      BY <1>1, <1>2, <1>5, <2>1, TurnFades
    <2>3. \A i \in 1..Len(wire'[conn]) :
            \E j \in 1..Len(wire[conn]) : wire'[conn][i].call = wire[conn][j].call
      <3>1. TypeOK
        BY DEF Inv
      <3>2. /\ \A m \in Calls : Len(wire'[m]) = Len(wire[m])
            /\ \A m \in Calls : \A j \in 1..Len(wire[m]) : wire'[m][j].call = wire[m][j].call
        BY <1>2, <1>5, <2>1, <3>1, TurnShape
      <3> QED
        BY <1>2, <3>2
    <2>4. StaleIsBehind'
      BY <1>1, <2>3, StaleAbandoned
    <2> QED
      BY <1>2, <2>2, <2>4 DEF WireInv, Inv
  <1>6. CASE wire[conn] # << >> /\ wire' = [wire EXCEPT ![conn] = Tail(@)]
    <2> DEFINE shift == [m \in Calls |-> IF m = conn THEN 1 ELSE 0]
    <2>1. /\ shift \in [Calls -> Nat]
          /\ \A m \in Calls : Len(wire'[m]) + shift[m] = Len(wire[m])
          /\ \A m \in Calls : \A i \in 1..Len(wire'[m]) : wire'[m][i] = wire[m][i + shift[m]]
          /\ shift[conn] = 1
      BY <1>2, <1>6, PopShift DEF Inv
    <2> HIDE DEF shift
    <2>2. WireInv'
      <3>1. log' = log /\ corr' = corr /\ conn' = conn
        BY <1>1, <1>2
      <3>2. \A m \in Calls : \A i \in 1..Len(wire'[m]) :
              /\ wire'[m][i].call = wire[m][i + shift[m]].call
              /\ wire'[m][i].corr = wire[m][i + shift[m]].corr
              /\ wire'[m][i].st = "asked" => wire[m][i + shift[m]].st = "asked"
              /\ wire'[m][i].st = "ok" => /\ wire[m][i + shift[m]].st = "ok"
                                          /\ wire[m][i + shift[m]].offset = wire'[m][i].offset
        BY <2>1
      <3>3. \A d \in Calls :
              pc'[d] = pc[d] \/ (pc[d] \in {"send", "recv"} /\ pc'[d] = "raised")
        BY <1>1, <1>2
      <3> QED
        BY <2>1, <3>1, <3>2, <3>3, WireFades
    <2>3. \A i \in 1..Len(wire'[conn]) :
            \E j \in 1..Len(wire[conn]) : wire'[conn][i].call = wire[conn][j].call
      <3>1. Len(wire'[conn]) \in Nat /\ Len(wire'[conn]) + 1 = Len(wire[conn])
        BY <1>2, <2>1, SMTT(60) DEF TypeOK
      <3>2. \A i \in 1..Len(wire'[conn]) :
              i + 1 \in 1..Len(wire[conn]) /\ wire'[conn][i] = wire[conn][i + 1]
        BY <1>2, <2>1, <3>1, SMTT(60)
      <3> QED
        BY <3>2
    <2>4. StaleIsBehind'
      BY <1>1, <2>3, StaleAbandoned
    <2> QED
      BY <1>2, <2>2, <2>4 DEF WireInv, Inv
  <1> QED
    BY <1>4, <1>5, <1>6 DEF RecvAbandon, Turning

\* Returning an offset keeps the invariant: an answer that carries our id is ours.
LEMMA RecvOkStep ==
  ASSUME Inv, TypeOK', NEW c \in Calls, RecvOk(c)
  PROVE  Inv' /\ wire'[conn] = << >>
  <1>0. /\ TypeOK /\ pc \in [Calls -> PCs] /\ seq \in 0..MaxCorr
        /\ offset \in [Calls -> Nat]
    BY DEF Inv, TypeOK
  <1>1. /\ pc[c] = "recv" /\ pc' = [pc EXCEPT ![c] = "ok"] /\ lock' = None
        /\ wire[conn] # << >> /\ wire' = [wire EXCEPT ![conn] = Tail(@)]
        /\ offset' = [offset EXCEPT ![c] = Head(wire[conn]).offset]
        /\ Head(wire[conn]).corr = corr[c] /\ Head(wire[conn]).st = "ok"
    BY DEF RecvOk, Accepts
  <1>2. UNCHANGED <<conn, seq, corr, abandoned, born, log>>
    BY DEF RecvOk
  <1>3. conn \in Calls /\ conn # None /\ corr[c] = seq /\ seq # 0
    BY <1>0, <1>1 DEF Inv, InFlightIsNewest, TypeOK
  <1>4. \A d \in Calls : d # c => pc[d] \notin Held
    BY <1>1, HolderAlone DEF Held
  <1> DEFINE x == wire[conn][1]
  <1>5. /\ wire[conn] \in Seq(Exchange) /\ 1 \in 1..Len(wire[conn])
        /\ Head(wire[conn]) = x /\ x.call \in Calls
    <2>1. wire[conn] \in Seq(Exchange)
      BY <1>0, <1>3 DEF TypeOK
    <2>2. 1 \in 1..Len(wire[conn])
      BY <1>1, <2>1, EmptySeq
    <2> QED
      BY <1>0, <1>3, <2>1, <2>2, WireType
  \* The answer whose id is ours is ours: a stale one is fewer ids behind than wrap.
  <1>6. x.call = c
    <2> SUFFICES ASSUME x.call # c PROVE FALSE
      OBVIOUS
    <2> DEFINE d == x.call
    <2>1. d \in Calls /\ pc[d] # "recv"
      BY <1>4, <1>5 DEF Held
    <2>2. InFlight
      BY <1>1 DEF InFlight
    <2>3. born[d] < abandoned /\ Dist(corr[d], seq) + 0 = abandoned - born[d]
      BY <1>3, <1>5, <2>1, <2>2 DEF Inv, StaleIsBehind
    <2>4. corr[d] = seq
      BY <1>1, <1>3, <1>5, SMTT(60) DEF Inv, ExchangeIsTrue
    <2>5. Dist(corr[d], seq) = 0
      BY <1>0, <2>4 DEF Dist
    <2>6. abandoned \in Nat /\ born[d] \in Nat
      <3>1. abandoned \in Nat
        BY <1>0, CorrAssumption DEF TypeOK
      <3>2. born \in [Calls -> 0..MaxAbandon]
        BY <1>0 DEF TypeOK
      <3>3. born[d] \in 0..MaxAbandon
        BY <2>1, <3>2
      <3> QED
        BY <3>1, <3>3
    <2> QED
      BY <2>3, <2>5, <2>6
  <1>7. /\ Len(wire[conn]) = 1 /\ x.offset \in 1..Len(log) /\ log[x.offset] = c
    BY <1>1, <1>3, <1>5, <1>6, ZenonT(60) DEF Inv, ExchangeIsTrue
  <1> DEFINE shift == [m \in Calls |-> IF m = conn THEN 1 ELSE 0]
  <1>8. /\ shift \in [Calls -> Nat]
        /\ \A m \in Calls : Len(wire'[m]) + shift[m] = Len(wire[m])
        /\ \A m \in Calls : \A i \in 1..Len(wire'[m]) : wire'[m][i] = wire[m][i + shift[m]]
        /\ \A m \in Calls : shift[m] = IF m = conn THEN 1 ELSE 0
    BY <1>0, <1>1, <1>3, PopShift
  <1> HIDE DEF shift
  <1>9. Len(wire'[conn]) = 0 /\ wire'[conn] = << >>
    <2>1. Len(wire'[conn]) \in Nat /\ wire'[conn] \in Seq(Exchange)
      BY <1>3 DEF TypeOK
    <2>2. Len(wire'[conn]) + 1 = 1
      BY <1>3, <1>7, <1>8
    <2> QED
      BY <2>1, <2>2, EmptySeq
  <1>10. \A k \in Calls : \A i \in 1..Len(wire'[k]) : wire'[k][i].call # c
    <2> SUFFICES ASSUME NEW k \in Calls, NEW i \in 1..Len(wire'[k]), wire'[k][i].call = c
                 PROVE  FALSE
      OBVIOUS
    <2>1. k # conn
      BY <1>9
    <2>2. Len(wire[k]) \in Nat /\ shift[k] = 0
      BY <1>0, <1>8, <2>1, WireType
    <2>3. i \in 1..Len(wire[k]) /\ wire'[k][i] = wire[k][i]
      <3>1. wire' [k] = wire[k]
        BY <1>0, <1>1, <2>1 DEF TypeOK
      <3> QED
        BY <3>1
    <2> QED
      BY <1>3, <1>5, <1>6, <2>1, <2>3 DEF Inv, OneExchangePerCall
  <1>11. WireInv'
    <2>1. \A d \in Calls : d # c => pc'[d] = pc[d]
      BY <1>0, <1>1
    <2>2. pc'[c] = "ok"
      BY <1>0, <1>1
    <2>3. \A d \in Calls :
            \/ pc'[d] = pc[d]
            \/ pc[d] \in {"send", "recv"} /\ pc'[d] = "raised"
            \/ /\ pc[d] = "recv" /\ pc'[d] = "ok"
               /\ \A k \in Calls : \A i \in 1..Len(wire'[k]) : wire'[k][i].call # d
      BY <1>1, <1>10, <2>1, <2>2, SMTT(60)
    <2> QED
      BY <1>2, <1>8, <2>3, WireFades, SMTT(60)
  <1>12. HolderOwnsLock' /\ InFlightIsNewest'
    BY <1>0, <1>1, <1>4, NoneAssumption DEF HolderOwnsLock, InFlightIsNewest, Held
  <1>13. StaleIsBehind'
    BY <1>2, <1>9 DEF StaleIsBehind
  <1>14. OffsetIsOwn' /\ AppendedOnce'
    BY <1>0, <1>1, <1>2, <1>5, <1>7 DEF OffsetIsOwn, AppendedOnce, Inv
  <1> QED
    BY <1>9, <1>11, <1>12, <1>13, <1>14 DEF WireInv, Inv

\* An error answer of the broker keeps the invariant.
LEMMA BrokerRefuseStep ==
  ASSUME Inv, TypeOK', NEW k \in Calls, NEW i \in 1..Len(wire[k]), BrokerRefuse(k, i)
  PROVE  Inv'
  <1>1. /\ Turning(k, i, "refused", 0)
        /\ UNCHANGED <<lock, conn, seq, pc, corr, offset, abandoned, born, log>>
    BY DEF BrokerRefuse, Turning, client
  <1>2. WireInv'
    BY <1>1, TurnFades
  <1>3. HolderOwnsLock' /\ InFlightIsNewest'
    BY <1>1 DEF HolderOwnsLock, InFlightIsNewest, Inv
  <1>4. \A m \in Calls : /\ Len(wire'[m]) = Len(wire[m])
                         /\ \A j \in 1..Len(wire[m]) : wire'[m][j].call = wire[m][j].call
    BY <1>1, TurnShape DEF Inv
  <1>5. conn # None => conn \in Calls
    BY DEF Inv, TypeOK
  <1>6. InFlight' <=> InFlight
    BY <1>1 DEF InFlight
  <1>7. StaleIsBehind'
    BY <1>1, <1>4, <1>5, <1>6, StaleKept
  <1>8. OffsetIsOwn' /\ AppendedOnce'
    BY <1>1, ReturnedStay
  <1> QED
    BY <1>2, <1>3, <1>7, <1>8 DEF WireInv, Inv

\* A connection lost with all that is on it keeps the invariant.
LEMMA BrokerDropStep ==
  ASSUME Inv, TypeOK', NEW k \in Calls, BrokerDrop(k) PROVE Inv'
  <1>1. /\ wire' = [wire EXCEPT ![k] = << >>]
        /\ UNCHANGED <<lock, conn, seq, pc, corr, offset, abandoned, born, log>>
    BY DEF BrokerDrop, client
  <1>2. wire'[k] = << >> /\ \A m \in Calls : m # k => wire'[m] = wire[m]
    BY <1>1 DEF Inv, TypeOK
  <1>3. \A m \in Calls : Len(wire[m]) \in Nat
    BY WireType DEF Inv
  <1> DEFINE shift == [m \in Calls |-> IF m = k THEN Len(wire[m]) ELSE 0]
  <1>4. shift \in [Calls -> Nat]
        /\ \A m \in Calls : shift[m] = IF m = k THEN Len(wire[m]) ELSE 0
    BY <1>3
  <1> HIDE DEF shift
  <1>5. \A m \in Calls : Len(wire'[m]) + shift[m] = Len(wire[m])
    BY <1>2, <1>3, <1>4
  <1>6. \A m \in Calls : \A i \in 1..Len(wire'[m]) : i + shift[m] = i /\ wire'[m] = wire[m]
    BY <1>2, <1>3, <1>4
  <1>7. WireInv'
    BY <1>1, <1>4, <1>5, <1>6, WireFades, ZenonT(60)
  <1>8. HolderOwnsLock' /\ InFlightIsNewest'
    BY <1>1 DEF HolderOwnsLock, InFlightIsNewest, Inv
  <1>9. InFlight' <=> InFlight
    BY <1>1 DEF InFlight
  <1>10. conn # None => conn \in Calls
    BY DEF Inv, TypeOK
  <1>11. StaleIsBehind'
    <2>1. conn # None => \A i \in 1..Len(wire'[conn]) : \E j \in 1..Len(wire[conn]) :
             wire'[conn][i].call = wire[conn][j].call
      BY <1>6, <1>10
    <2> QED
      BY <1>1, <1>9, <2>1, StaleKept
  <1>12. OffsetIsOwn' /\ AppendedOnce'
    BY <1>1, ReturnedStay
  <1> QED
    BY <1>7, <1>8, <1>11, <1>12 DEF WireInv, Inv

\* An append, even of a call that has raised, keeps the invariant.
LEMMA BrokerAppendStep ==
  ASSUME Inv, TypeOK', NEW k \in Calls, NEW i \in 1..Len(wire[k]), BrokerAppend(k, i)
  PROVE  Inv'
  <1> DEFINE e == wire[k][i].call
  <1>0. TypeOK /\ Len(log) \in Nat /\ log \in Seq(Calls)
    <2>1. TypeOK
      BY DEF Inv
    <2>2. log \in Seq(Calls)
      BY <2>1 DEF TypeOK
    <2> QED
      BY <2>1, <2>2
  <1>1. /\ Turning(k, i, "ok", Len(log) + 1) /\ wire[k][i].st = "asked"
        /\ log' = Append(log, e)
        /\ UNCHANGED <<lock, conn, seq, pc, corr, offset, abandoned, born>>
    BY DEF BrokerAppend, Turning, client, FirstUnanswered
  <1>2. e \in Calls /\ pc[e] \in {"recv", "raised"} /\ e \notin Logged
    BY <1>0, <1>1, WireType DEF Inv, ExchangeIsTrue
  <1>3. /\ \A m \in Calls : Len(wire'[m]) = Len(wire[m])
        /\ \A m \in Calls : \A j \in 1..Len(wire[m]) :
             /\ wire'[m][j].call = wire[m][j].call
             /\ wire'[m][j].corr = wire[m][j].corr
             /\ wire'[m][j] = wire[m][j] \/ (m = k /\ j = i)
        /\ wire'[k][i].st = "ok"
        /\ wire'[k][i].offset = Len(log) + 1
    BY <1>0, <1>1, TurnShape, SMTT(60)
  <1>4. /\ Len(log') = Len(log) + 1 /\ log'[Len(log) + 1] = e
        /\ \A j \in 1..Len(log) : log'[j] = log[j]
    BY <1>0, <1>1, <1>2
  <1>5. Logged' = Logged \cup {e}
    BY <1>0, <1>4 DEF Logged
  <1>6. UndialledIsEmpty'
    <2>1. \A m \in Calls : wire[m] = << >> => wire'[m] = << >>
      BY <1>3, EmptySeq DEF TypeOK
    <2> QED
      BY <1>1, <2>1 DEF Inv, UndialledIsEmpty
  <1>7. ExchangeIsTrue'
    <2> SUFFICES ASSUME NEW m \in Calls, NEW j \in 1..Len(wire'[m])
                 PROVE  LET x == wire'[m][j]
                        IN  /\ pc'[x.call] \in {"recv", "raised"}
                            /\ x.corr = corr'[x.call]
                            /\ pc'[x.call] = "recv" => m = conn' /\ j = Len(wire'[m])
                            /\ x.st = "asked" => x.call \notin Logged'
                            /\ x.st = "ok" => x.offset \in 1..Len(log') /\ log'[x.offset] = x.call
      BY DEF ExchangeIsTrue
    <2>1. j \in 1..Len(wire[m]) /\ Len(wire'[m]) = Len(wire[m])
      BY <1>3
    <2> DEFINE x == wire'[m][j]
               y == wire[m][j]
    <2>2. x.call = y.call /\ x.corr = y.corr
      BY <1>3, <2>1
    <2>3. /\ pc[y.call] \in {"recv", "raised"}
          /\ y.corr = corr[y.call]
          /\ pc[y.call] = "recv" => m = conn /\ j = Len(wire[m])
          /\ y.st = "asked" => y.call \notin Logged
          /\ y.st = "ok" => y.offset \in 1..Len(log) /\ log[y.offset] = y.call
      BY <2>1 DEF Inv, ExchangeIsTrue
    <2>4. x.st = "asked" => x.call \notin Logged'
      <3> SUFFICES ASSUME x.st = "asked" PROVE x.call \notin Logged'
        OBVIOUS
      <3>1. x = y /\ ~ (m = k /\ j = i)
        BY <1>3, <2>1
      <3>2. y.call # e
        BY <2>1, <3>1 DEF Inv, OneExchangePerCall
      <3> QED
        BY <1>5, <2>3, <3>1, <3>2
    <2>5. x.st = "ok" => x.offset \in 1..Len(log') /\ log'[x.offset] = x.call
      <3>1. CASE m = k /\ j = i
        BY <1>0, <1>3, <1>4, <2>2, <3>1
      <3>2. CASE x = y
        BY <1>0, <1>4, <2>3, <3>2
      <3> QED
        BY <1>3, <2>1, <3>1, <3>2
    <2> QED
      BY <1>1, <2>1, <2>2, <2>3, <2>4, <2>5
  <1>8. OneExchangePerCall'
    <2> SUFFICES ASSUME NEW p \in Calls, NEW q \in Calls,
                        NEW a \in 1..Len(wire'[p]), NEW b \in 1..Len(wire'[q]),
                        wire'[p][a].call = wire'[q][b].call
                 PROVE  p = q /\ a = b
      BY DEF OneExchangePerCall
    <2>1. a \in 1..Len(wire[p]) /\ b \in 1..Len(wire[q])
      BY <1>3
    <2>2. wire[p][a].call = wire[q][b].call
      BY <1>3, <2>1
    <2> QED
      BY <2>1, <2>2 DEF Inv, OneExchangePerCall
  <1>9. LoggedWereSent'
    <2> SUFFICES ASSUME NEW j \in 1..Len(log') PROVE pc'[log'[j]] \in {"recv", "ok", "raised"}
      BY DEF LoggedWereSent
    <2>1. j \in 1..Len(log) \/ j = Len(log) + 1
      BY <1>0, <1>4
    <2> QED
      BY <1>1, <1>2, <1>4, <2>1 DEF Inv, LoggedWereSent
  <1>10. HolderOwnsLock' /\ InFlightIsNewest'
    BY <1>1 DEF HolderOwnsLock, InFlightIsNewest, Inv
  <1>11. StaleIsBehind'
    <2>1. conn # None => conn \in Calls
      BY <1>0 DEF TypeOK
    <2>2. InFlight' <=> InFlight
      BY <1>1 DEF InFlight
    <2> QED
      BY <1>1, <1>3, <2>1, <2>2, StaleKept, SMTT(60)
  <1>12. OffsetIsOwn'
    BY <1>0, <1>1, <1>4 DEF Inv, OffsetIsOwn
  <1>13. AppendedOnce'
    <2> SUFFICES ASSUME NEW a \in 1..Len(log'), NEW b \in 1..Len(log'), log'[a] = log'[b]
                 PROVE  a = b
      BY DEF AppendedOnce
    <2>1. /\ a \in 1..Len(log) \/ a = Len(log) + 1
          /\ b \in 1..Len(log) \/ b = Len(log) + 1
      BY <1>0, <1>4
    <2>2. \A j \in 1..Len(log) : log'[j] # e
      BY <1>2, <1>4 DEF Logged
    <2> QED
      BY <1>4, <2>1, <2>2 DEF Inv, AppendedOnce
  <1> QED
    BY <1>6, <1>7, <1>8, <1>9, <1>10, <1>11, <1>12, <1>13 DEF Inv

\* Steps that change nothing.
LEMMA StutterStep == ASSUME Inv, UNCHANGED vars PROVE Inv'
  BY DEF vars, client, broker, Inv, TypeOK, HolderOwnsLock, InFlightIsNewest,
         UndialledIsEmpty, ExchangeIsTrue, OneExchangePerCall, LoggedWereSent,
         StaleIsBehind, OffsetIsOwn, AppendedOnce, Logged, InFlight, Dist

\* The invariant is inductive: every step of the specification preserves it.
LEMMA InvStep == Inv /\ [Next]_vars => Inv'
  <1> SUFFICES ASSUME Inv, [Next]_vars PROVE Inv'
    OBVIOUS
  <1>0. TypeOK'
    BY TypeStep DEF Inv
  <1>1. ASSUME NEW c \in Calls, Produce(c) PROVE Inv'
    <2>1. CASE SendFail(c) \/ RecvReject(c) \/ RecvFail(c)
      BY <1>0, <2>1, FailClosingStep DEF SendFail, RecvReject, RecvFail
    <2> QED
      BY <1>0, <1>1, <2>1, AcquireStep, DialStep, DialFailStep, DrawCorrStep, SendStep,
         RecvOkStep DEF Produce
  <1>2. ASSUME NEW c \in Calls, Refuse(c) \/ SendAbandon(c) \/ RecvAbandon(c) PROVE Inv'
    BY <1>0, <1>2, RefuseStep, SendAbandonStep, RecvAbandonStep
  <1>3. CASE Close
    BY <1>0, <1>3, CloseStep
  <1>4. CASE Broker
    BY <1>0, <1>4, BrokerDropStep, BrokerAppendStep, BrokerRefuseStep DEF Broker
  <1>5. CASE UNCHANGED vars
    BY <1>5, StutterStep
  <1> QED
    BY <1>1, <1>2, <1>3, <1>4, <1>5 DEF Next

-----------------------------------------------------------------------------
(* The theorems. *)

\* Every reachable state satisfies the inductive invariant.
THEOREM Invariance == Spec => []Inv
  <1>1. Init => Inv
    BY InitInv
  <1>2. Inv /\ [Next]_vars => Inv'
    BY InvStep
  <1> QED
    BY <1>1, <1>2, PTL DEF Spec

\* The variables keep their types (module KafkaClient, TypeOK).
THEOREM TypeCorrect == Spec => []TypeOK
  <1>1. Inv => TypeOK
    BY DEF Inv
  <1> QED
    BY <1>1, Invariance, PTL

\* An offset returned is the offset of the caller's own record.
THEOREM Attribution == Spec => []OffsetIsOwn
  <1>1. Inv => OffsetIsOwn
    BY DEF Inv
  <1> QED
    BY <1>1, Invariance, PTL

\* No call's record is appended twice.
THEOREM NoDuplicate == Spec => []AppendedOnce
  <1>1. Inv => AppendedOnce
    BY DEF Inv
  <1> QED
    BY <1>1, Invariance, PTL

\* Between calls the connection owes nothing unless a call abandoned it.
THEOREM CleanWhenIdle == Spec => []IdleConnectionIsClean
  <1>1. Inv => IdleConnectionIsClean
    <2> SUFFICES ASSUME Inv, lock = None, conn # None, abandoned = 0
                 PROVE  wire[conn] = << >>
      BY DEF IdleConnectionIsClean
    <2>0. TypeOK
      BY DEF Inv
    <2>1. conn \in Calls /\ wire[conn] \in Seq(Exchange) /\ born \in [Calls -> 0..MaxAbandon]
      BY <2>0 DEF TypeOK
    <2>2. ASSUME wire[conn] # << >> PROVE FALSE
      <3> DEFINE d == wire[conn][1].call
      <3>1. 1 \in 1..Len(wire[conn])
        BY <2>1, <2>2, EmptySeq
      <3>2. d \in Calls
        BY <2>1, <3>1, WireType DEF Inv
      <3>3. pc[d] # "recv"
        BY <3>2, NoneAssumption DEF Inv, HolderOwnsLock, Held
      <3>4. born[d] < abandoned
        BY <3>1, <3>3 DEF Inv, StaleIsBehind
      <3>5. born[d] \in 0..MaxAbandon
        BY <2>1, <3>2
      <3> QED
        BY <3>4, <3>5, CorrAssumption
    <2> QED
      BY <2>2
  <1> QED
    BY <1>1, Invariance, PTL

\* A call that succeeds leaves nothing on the connection: a stale connection never
\* serves another success.
THEOREM StaleDropped == Spec => StaleConnectionIsDropped
  <1>1. Inv /\ [Next]_vars =>
          [\A c \in Calls : pc[c] = "recv" /\ pc'[c] = "ok" => wire'[conn] = << >>]_vars
    <2> SUFFICES ASSUME Inv, Next, NEW c \in Calls, pc[c] = "recv", pc'[c] = "ok"
                 PROVE  wire'[conn] = << >>
      BY DEF vars
    <2>1. RecvOk(c)
      <3>0. pc \in [Calls -> PCs]
        BY DEF Inv, TypeOK
      <3>1. ASSUME NEW d \in Calls, NEW p \in PCs \ {"ok"}, pc' = [pc EXCEPT ![d] = p]
            PROVE  FALSE
        BY <3>0, <3>1 DEF PCs
      <3>2. ASSUME pc' = pc PROVE FALSE
        BY <3>2
      <3>3. ASSUME NEW d \in Calls,
                   Refuse(d) \/ DialFail(d) \/ SendFail(d) \/ SendAbandon(d)
                   \/ RecvReject(d) \/ RecvFail(d) \/ RecvAbandon(d)
            PROVE  FALSE
        <4>1. pc' = [pc EXCEPT ![d] = "raised"]
          BY <3>3 DEF Refuse, DialFail, SendFail, SendAbandon, RecvReject, RecvFail,
                      RecvAbandon, FailClosing, FailKeeping
        <4> QED
          BY <3>1, <4>1 DEF PCs
      <3>4. ASSUME NEW d \in Calls, Acquire(d) \/ DrawCorr(d) \/ Send(d) PROVE FALSE
        BY <3>1, <3>4 DEF Acquire, DrawCorr, Send, PCs
      <3>5. ASSUME NEW d \in Calls, Dial(d) PROVE FALSE
        BY <3>2, <3>5 DEF Dial
      <3>6. ASSUME Close \/ Broker PROVE FALSE
        BY <3>2, <3>6 DEF Close, Broker, BrokerDrop, BrokerAppend, BrokerRefuse, client
      <3>7. ASSUME NEW d \in Calls, RecvOk(d) PROVE d = c
        BY <3>0, <3>7 DEF RecvOk
      <3> QED
        BY <3>3, <3>4, <3>5, <3>6, <3>7 DEF Next, Produce
    <2> QED
      BY <2>1, TypeStep, RecvOkStep DEF Inv
  <1> QED
    BY <1>1, Invariance, PTL DEF StaleConnectionIsDropped, Spec

-----------------------------------------------------------------------------
(* Implementation of the promise. *)

\* What a caller sees, by where its call is.
LEMMA OutcomeOf ==
  ASSUME TypeOK, NEW c \in Calls
  PROVE  /\ Outcome[c] = "none" <=> pc[c] = "new"
         /\ Outcome[c] = "pending" <=> pc[c] \in Held
         /\ Outcome[c] = "ok" <=> pc[c] = "ok"
         /\ Outcome[c] = "raised" <=> pc[c] = "raised"
  <1>1. pc[c] \in PCs
    BY DEF TypeOK
  <1> QED
    BY <1>1 DEF Outcome, PCs, Held

\* A call that moves where its caller sees no difference makes no difference.
LEMMA OutcomeSame ==
  ASSUME TypeOK, \A c \in Calls : pc'[c] = pc[c] \/ {pc[c], pc'[c]} \subseteq Held
  PROVE  Outcome' = Outcome
  <1>1. \A c \in Calls : pc[c] \in PCs
    BY DEF TypeOK
  <1>2. \A c \in Calls : (pc[c] = "new" <=> pc'[c] = "new")
                     /\ (pc[c] \in Held <=> pc'[c] \in Held)
                     /\ (pc[c] = "ok" <=> pc'[c] = "ok")
                     /\ (pc[c] = "raised" <=> pc'[c] = "raised")
    BY <1>1 DEF Held
  <1> QED
    BY <1>2 DEF Outcome

\* A call that moves to p shows its caller o, and no other caller sees anything.
LEMMA OutcomeMoves ==
  ASSUME TypeOK, NEW c \in Calls, NEW p, pc' = [pc EXCEPT ![c] = p],
         NEW o, \/ p = "held" /\ o = "pending"
                \/ p = "ok" /\ o = "ok"
                \/ p = "raised" /\ o = "raised"
  PROVE  Outcome' = [Outcome EXCEPT ![c] = o]
  <1>1. pc'[c] = p /\ \A d \in Calls : d # c => pc'[d] = pc[d]
    BY DEF TypeOK
  <1>2. Outcome'[c] = o
    BY <1>1 DEF Outcome, Held
  <1>3. \A d \in Calls : d # c => Outcome'[d] = Outcome[d]
    BY <1>1 DEF Outcome
  <1>4. Outcome = [d \in Calls |-> Outcome[d]] /\ Outcome' = [d \in Calls |-> Outcome'[d]]
    BY DEF Outcome
  <1> QED
    BY <1>2, <1>3, <1>4

\* A call that raises, however and whenever, is a Raise.
LEMMA RaiseMaps ==
  ASSUME TypeOK, NEW c \in Calls, pc[c] \in Held \cup {"new"},
         pc' = [pc EXCEPT ![c] = "raised"], log' = log, offset' = offset
  PROVE  Promise!Raise(c)
  <1>1. Outcome' = [Outcome EXCEPT ![c] = "raised"]
    BY OutcomeMoves
  <1>2. Outcome[c] \in {"none", "pending"}
    BY OutcomeOf
  <1> QED
    BY <1>1, <1>2 DEF Promise!Raise

\* Every step of the client and the broker is a step of the promise, or none.
LEMMA PromiseStep == Inv /\ [Next]_vars => [Promise!Next]_(Promise!vars)
  <1> SUFFICES ASSUME Inv, [Next]_vars PROVE [Promise!Next]_(Promise!vars)
    OBVIOUS
  <1>0. TypeOK /\ TypeOK' /\ Inv'
    BY TypeStep, InvStep DEF Inv
  <1>1. ASSUME NEW c \in Calls, Promise!Raise(c) PROVE Promise!Next
    BY <1>1 DEF Promise!Next
  <1>2. ASSUME Outcome' = Outcome, log' = log, offset' = offset
        PROVE  UNCHANGED Promise!vars
    BY <1>2 DEF Promise!vars
  <1>3. ASSUME NEW c \in Calls,
               Refuse(c) \/ DialFail(c) \/ SendFail(c) \/ SendAbandon(c)
               \/ RecvReject(c) \/ RecvFail(c) \/ RecvAbandon(c)
        PROVE  Promise!Next
    <2>1. /\ pc[c] \in Held \cup {"new"} /\ pc' = [pc EXCEPT ![c] = "raised"]
          /\ log' = log /\ offset' = offset
      BY <1>3 DEF Refuse, DialFail, SendFail, SendAbandon, RecvReject, RecvFail, RecvAbandon,
                  FailClosing, FailKeeping, Held, broker
    <2> QED
      BY <1>0, <1>1, <2>1, RaiseMaps
  <1>4. ASSUME NEW c \in Calls, Acquire(c) PROVE Promise!Next
    <2>1. pc[c] = "new" /\ pc' = [pc EXCEPT ![c] = "held"] /\ UNCHANGED <<log, offset>>
      BY <1>4 DEF Acquire, broker
    <2>2. Outcome' = [Outcome EXCEPT ![c] = "pending"] /\ Outcome[c] = "none"
      BY <1>0, <2>1, OutcomeMoves, OutcomeOf
    <2> QED
      BY <2>1, <2>2 DEF Promise!Begin, Promise!Next
  <1>5. ASSUME NEW c \in Calls, Dial(c) \/ DrawCorr(c) \/ Send(c)
        PROVE  UNCHANGED Promise!vars
    <2>1. /\ \A d \in Calls : pc'[d] = pc[d] \/ {pc[d], pc'[d]} \subseteq Held
          /\ UNCHANGED <<log, offset>>
      BY <1>0, <1>5 DEF Dial, DrawCorr, Send, Held, broker, TypeOK
    <2> QED
      BY <1>0, <1>2, <2>1, OutcomeSame
  <1>6. ASSUME NEW c \in Calls, RecvOk(c) PROVE Promise!Next
    <2>1. /\ pc[c] = "recv" /\ pc' = [pc EXCEPT ![c] = "ok"] /\ log' = log
          /\ offset' = [offset EXCEPT ![c] = Head(wire[conn]).offset]
      BY <1>6 DEF RecvOk
    <2>2. Outcome' = [Outcome EXCEPT ![c] = "ok"] /\ Outcome[c] = "pending"
      BY <1>0, <2>1, OutcomeMoves, OutcomeOf, ZenonT(60) DEF Held
    <2>3. pc'[c] = "ok" /\ offset'[c] = Head(wire[conn]).offset
      BY <1>0, <2>1 DEF TypeOK
    <2>4. offset'[c] \in 1..Len(log) /\ log[offset'[c]] = c
      BY <1>0, <2>1, <2>3 DEF Inv, OffsetIsOwn
    <2>5. offset' = [offset EXCEPT ![c] = offset'[c]]
      BY <2>1, <2>3
    <2> QED
      BY <2>1, <2>2, <2>4, <2>5 DEF Promise!Return, Promise!Next
  <1>7. CASE Close
    BY <1>0, <1>2, <1>7, OutcomeSame DEF Close
  <1>8. ASSUME NEW k \in Calls, BrokerDrop(k) PROVE UNCHANGED Promise!vars
    BY <1>0, <1>2, <1>8, OutcomeSame DEF BrokerDrop, client
  <1>9. ASSUME NEW k \in Calls, NEW i \in 1..Len(wire[k]), BrokerRefuse(k, i)
        PROVE  UNCHANGED Promise!vars
    BY <1>0, <1>2, <1>9, OutcomeSame DEF BrokerRefuse, client
  <1>10. ASSUME NEW k \in Calls, NEW i \in 1..Len(wire[k]), BrokerAppend(k, i)
         PROVE  Promise!Next
    <2> DEFINE e == wire[k][i].call
    <2>1. /\ wire[k][i].st = "asked" /\ log' = Append(log, e)
          /\ pc' = pc /\ offset' = offset
      BY <1>10 DEF BrokerAppend, FirstUnanswered, client
    <2>2. e \in Calls /\ pc[e] \in {"recv", "raised"} /\ e \notin Logged
      BY <1>0, <2>1, WireType DEF Inv, ExchangeIsTrue
    <2>3. Outcome' = Outcome /\ Outcome[e] \in {"pending", "raised"}
      BY <1>0, <2>1, <2>2, OutcomeSame, OutcomeOf DEF Held
    <2> QED
      BY <2>1, <2>2, <2>3 DEF Promise!Land, Promise!Next, Promise!Logged, Logged
  <1>11. CASE UNCHANGED vars
    BY <1>0, <1>2, <1>11, OutcomeSame DEF vars, client, broker
  <1> QED
    BY <1>3, <1>4, <1>5, <1>6, <1>7, <1>8, <1>9, <1>10, <1>11 DEF Next, Produce, Broker

\* The client implements its promise: every step is a step of KafkaProduce or none.
THEOREM KeepsPromise == Spec => PromiseSpec
  <1>1. Init => Promise!Init
    <2> SUFFICES ASSUME Init PROVE Promise!Init
      OBVIOUS
    <2>1. \A c \in Calls : pc[c] = "new"
      BY DEF Init
    <2>2. Outcome = [c \in Calls |-> "none"]
      BY <2>1 DEF Outcome, Held
    <2> QED
      BY <2>2 DEF Init, Promise!Init
  <1> QED
    BY <1>1, PromiseStep, Invariance, PTL DEF PromiseSpec, Promise!Spec, Spec

\* An offset that produce returned stands: later calls, failures and late appends leave the
\* record of that call where it was told to be.
THEOREM OffsetStands ==
  Spec => [][\A c \in Calls : pc[c] = "ok" => /\ pc'[c] = "ok" /\ offset'[c] = offset[c]
                                              /\ log'[offset'[c]] = c]_vars
  <1>1. Inv /\ [Next]_vars =>
          [\A c \in Calls : pc[c] = "ok" => /\ pc'[c] = "ok" /\ offset'[c] = offset[c]
                                            /\ log'[offset'[c]] = c]_vars
    <2> SUFFICES ASSUME Inv, [Next]_vars, NEW c \in Calls, pc[c] = "ok"
                 PROVE  pc'[c] = "ok" /\ offset'[c] = offset[c] /\ log'[offset'[c]] = c
      OBVIOUS
    <2>1. [Promise!Next]_(Promise!vars)
      BY PromiseStep
    <2>2. /\ Outcome[c] = "ok" /\ offset[c] \in 1..Len(log) /\ log[offset[c]] = c
          /\ log \in Seq(Calls) /\ DOMAIN Outcome = Calls /\ DOMAIN offset = Calls
      BY OutcomeOf DEF Inv, TypeOK, OffsetIsOwn, Outcome
    <2>3. Outcome'[c] = "ok" /\ offset'[c] = offset[c] /\ log'[offset[c]] = c
      <3> HIDE DEF Outcome
      <3>1. CASE UNCHANGED Promise!vars
        BY <2>2, <3>1 DEF Promise!vars
      <3>2. ASSUME NEW d \in Calls,
                   Promise!Begin(d) \/ Promise!Land(d) \/ Promise!Return(d) \/ Promise!Raise(d)
            PROVE  Outcome'[c] = "ok" /\ offset'[c] = offset[c] /\ log'[offset[c]] = c
        <4>1. CASE Promise!Land(d)
          BY <2>2, <4>1 DEF Promise!Land
        <4>2. CASE Promise!Begin(d)
          BY <2>2, <4>2 DEF Promise!Begin
        <4>3. CASE Promise!Return(d)
          BY <2>2, <4>3 DEF Promise!Return
        <4>4. CASE Promise!Raise(d)
          BY <2>2, <4>4 DEF Promise!Raise
        <4> QED
          BY <3>2, <4>1, <4>2, <4>3, <4>4
      <3> QED
        BY <2>1, <3>1, <3>2 DEF Promise!Next
    <2>4. pc'[c] = "ok"
      BY <2>3 DEF Outcome
    <2> QED
      BY <2>3, <2>4
  <1> QED
    BY <1>1, Invariance, PTL DEF Spec
=============================================================================
