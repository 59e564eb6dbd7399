----------------------------- MODULE KafkaClient -----------------------------
(***************************************************************************)
(* kafka/client.py: one KafkaClient object shared by the threads of a      *)
(* program.  produce() takes the client's lock, dials if it must, draws a  *)
(* correlation id, writes one request frame and reads one response frame   *)
(* from the one connection the object keeps.                               *)
(*                                                                         *)
(* Every element of Calls is one invocation of produce, from any thread.   *)
(* A connection is named by the call that dialled it (a call dials at most *)
(* once).  The broker and the network are external: they are modelled from *)
(* what the client does with them.                                         *)
(***************************************************************************)
EXTENDS Naturals, Sequences

CONSTANTS
  Calls,        \* invocations of produce
  None,         \* no lock holder, no connection
  MaxCorr,      \* largest correlation id, 0x7FFFFFFF in the code
  MaxAbandon    \* bound: calls that leave an open connection by an exception
                \* the except clause does not name, per connection

ASSUME NoneAssumption == None \notin Calls

\* Between two successes fewer calls are abandoned than there are ids: with the
\* code's 2^31 - 1 ids the other case needs 2^31 - 1 interrupted calls in a row.
ASSUME CorrAssumption ==
  /\ MaxCorr \in Nat \ {0}
  /\ MaxAbandon \in Nat
  /\ MaxAbandon < MaxCorr

VARIABLES
  lock,         \* self._lock: the call that holds it, or None
  conn,         \* self._conn: the connection kept, or None
  seq,          \* self._seq
  pc,           \* where each call is
  corr,         \* the local corr of each call, 0 before it has one
  offset,       \* what a call returned (1-based position in log), 0 before
  alive,        \* connections whose broker end is open (external)
  wire,         \* exchanges of each connection, in the order they were written
  log,          \* the partition: the calls whose record it holds (external)
  abandoned,    \* calls that abandoned the current connection (history)
  born          \* value of abandoned when a call drew its corr (history)

client == <<lock, conn, seq, pc, corr, offset, abandoned, born>>
broker == <<alive, wire, log>>
vars   == <<client, broker>>

\* An exchange is a request and what has become of it: still unanswered, cut
\* short by an exception inside sendall, answered with an offset, answered with
\* an error code or without our topic/partition, or answered but with the first
\* bytes of the answer already taken from the socket by an abandoned call.
Unanswered == {"asked", "cut"}
Answered   == {"ok", "refused", "garbled"}
Exchange   == [call : Calls, corr : 1..MaxCorr,
               st : Unanswered \cup Answered, offset : Nat]

PCs  == {"new", "held", "send", "recv", "ok", "raised"}
Held == {"held", "send", "recv"}

TypeOK ==
  /\ lock \in Calls \cup {None}
  /\ conn \in Calls \cup {None}
  /\ seq \in 0..MaxCorr
  /\ pc \in [Calls -> PCs]
  /\ corr \in [Calls -> 0..MaxCorr]
  /\ offset \in [Calls -> Nat]
  /\ alive \in SUBSET Calls
  /\ wire \in [Calls -> Seq(Exchange)]
  /\ log \in Seq(Calls)
  /\ abandoned \in 0..MaxAbandon
  /\ born \in [Calls -> 0..MaxAbandon]

Init ==
  /\ lock = None
  /\ conn = None
  /\ seq = 0
  /\ pc = [c \in Calls |-> "new"]
  /\ corr = [c \in Calls |-> 0]
  /\ offset = [c \in Calls |-> 0]
  /\ alive = {}
  /\ wire = [c \in Calls |-> << >>]
  /\ log = << >>
  /\ abandoned = 0
  /\ born = [c \in Calls |-> 0]

-----------------------------------------------------------------------------
(* Ways out of produce.  Every one of them leaves the with block. *)

\* Slip: the connection stays open after an error.
FailClosing_KeepsOpen(c) ==
  /\ lock' = None
  /\ pc' = [pc EXCEPT ![c] = "raised"]
  /\ UNCHANGED <<conn, abandoned, alive>>

\* The exception is one the except clause names: the connection is closed.
FailClosing(c) ==
  /\ lock' = None
  /\ pc' = [pc EXCEPT ![c] = "raised"]
  /\ conn' = None
  /\ abandoned' = 0
  /\ alive' = alive \ {conn}

\* The exception is any other one: the connection stays as it is.
FailKeeping(c) ==
  /\ abandoned < MaxAbandon
  /\ abandoned' = abandoned + 1
  /\ lock' = None
  /\ pc' = [pc EXCEPT ![c] = "raised"]
  /\ UNCHANGED <<conn, alive>>

-----------------------------------------------------------------------------
(* produce *)

\* An empty addr or topic raises before the lock is asked for.
Refuse(c) ==
  /\ pc[c] = "new"
  /\ pc' = [pc EXCEPT ![c] = "raised"]
  /\ UNCHANGED <<lock, conn, seq, corr, offset, abandoned, born, broker>>

Acquire(c) ==
  /\ pc[c] = "new"
  /\ lock = None
  /\ lock' = c
  /\ pc' = [pc EXCEPT ![c] = "held"]
  /\ UNCHANGED <<conn, seq, corr, offset, abandoned, born, broker>>

Dial(c) ==
  /\ pc[c] = "held"
  /\ conn = None
  /\ conn' = c
  /\ alive' = alive \cup {c}
  /\ abandoned' = 0
  /\ UNCHANGED <<lock, seq, pc, corr, offset, wire, log, born>>

\* A bad address, a refused or timed-out connect: raised outside the try.
DialFail(c) ==
  /\ pc[c] = "held"
  /\ conn = None
  /\ lock' = None
  /\ pc' = [pc EXCEPT ![c] = "raised"]
  /\ UNCHANGED <<conn, seq, corr, offset, abandoned, born, broker>>

\* Slip: one fixed correlation id.
NextCorr_Constant == 1

NextCorr == IF seq + 1 > MaxCorr THEN 1 ELSE seq + 1

DrawCorr(c) ==
  /\ pc[c] = "held"
  /\ conn # None
  /\ seq' = NextCorr
  /\ corr' = [corr EXCEPT ![c] = NextCorr]
  /\ born' = [born EXCEPT ![c] = abandoned]
  /\ pc' = [pc EXCEPT ![c] = "send"]
  /\ UNCHANGED <<lock, conn, offset, abandoned, broker>>

Turned(x, st, off) == [call |-> x.call, corr |-> x.corr, st |-> st, offset |-> off]

Request(c, st) == [call |-> c, corr |-> corr[c], st |-> st, offset |-> 0]

\* sendall returned.  Bytes written to a connection the broker has left are lost.
Send(c) ==
  /\ pc[c] = "send"
  /\ pc' = [pc EXCEPT ![c] = "recv"]
  /\ wire' = IF conn \in alive
               THEN [wire EXCEPT ![conn] = Append(@, Request(c, "asked"))]
               ELSE wire
  /\ UNCHANGED <<lock, conn, seq, corr, offset, abandoned, born, alive, log>>

\* A ValueError of the encoders or an OSError of sendall.
SendFail(c) ==
  /\ pc[c] = "send"
  /\ FailClosing(c)
  /\ UNCHANGED <<seq, corr, offset, born, wire, log>>

\* struct.error of write_int32 (nothing was written), or an interrupt inside
\* sendall (part of the frame was written).
SendAbandon(c) ==
  /\ pc[c] = "send"
  /\ FailKeeping(c)
  /\ \/ wire' = wire
     \/ /\ conn \in alive
        /\ wire' = [wire EXCEPT ![conn] = Append(@, Request(c, "cut"))]
  /\ UNCHANGED <<seq, corr, offset, born, log>>

\* Slip: the correlation id of the answer is not looked at.
Accepts_AnyCorr(c, x) == x.st = "ok"

Accepts(c, x) == x.corr = corr[c] /\ x.st = "ok"

\* The first unread response is ours and carries an offset: return it.
RecvOk(c) ==
  /\ pc[c] = "recv"
  /\ wire[conn] # << >>
  /\ LET x == Head(wire[conn])
     IN  /\ x.st \in Answered
         /\ Accepts(c, x)
         /\ offset' = [offset EXCEPT ![c] = x.offset]
  /\ wire' = [wire EXCEPT ![conn] = Tail(@)]
  /\ lock' = None
  /\ pc' = [pc EXCEPT ![c] = "ok"]
  /\ UNCHANGED <<conn, seq, corr, abandoned, born, alive, log>>

\* A response with another correlation id, an error code, or not a response.
RecvReject(c) ==
  /\ pc[c] = "recv"
  /\ wire[conn] # << >>
  /\ LET x == Head(wire[conn]) IN x.st \in Answered /\ ~ Accepts(c, x)
  /\ FailClosing(c)
  /\ UNCHANGED <<seq, corr, offset, born, wire, log>>

\* Slip: produce sends again after a timeout.
RecvFail_Resend(c) ==
  /\ pc[c] = "recv"
  /\ pc' = [pc EXCEPT ![c] = "send"]
  /\ UNCHANGED <<lock, conn, seq, corr, offset, abandoned, born, broker>>

\* Slip: no timeout on the socket, only a closed connection ends a recv.
RecvFail_NoTimeout(c) ==
  /\ pc[c] = "recv"
  /\ conn \notin alive
  /\ FailClosing(c)
  /\ UNCHANGED <<seq, corr, offset, born, wire, log>>

\* A recv that timed out, end of file, a reset.
RecvFail(c) ==
  /\ pc[c] = "recv"
  /\ FailClosing(c)
  /\ UNCHANGED <<seq, corr, offset, born, wire, log>>

\* An interrupt between the two halves of the exchange: nothing was read, the
\* whole answer was read, or the first bytes of it.
RecvAbandon(c) ==
  /\ pc[c] = "recv"
  /\ FailKeeping(c)
  /\ \/ wire' = wire
     \/ /\ wire[conn] # << >>
        /\ Head(wire[conn]).st \in Answered
        /\ wire' = [wire EXCEPT ![conn][1] = Turned(@, "garbled", 0)]
     \/ /\ wire[conn] # << >>
        /\ Head(wire[conn]).st \in Answered
        /\ wire' = [wire EXCEPT ![conn] = Tail(@)]
  /\ UNCHANGED <<seq, corr, offset, born, log>>

-----------------------------------------------------------------------------
\* Slip: close does not take the lock.
Close_NoLock ==
  /\ conn # None
  /\ conn' = None
  /\ abandoned' = 0
  /\ alive' = alive \ {conn}
  /\ UNCHANGED <<lock, seq, pc, corr, offset, born, wire, log>>

\* close(), from any thread: it waits for the lock.
Close ==
  /\ lock = None
  /\ conn # None
  /\ conn' = None
  /\ abandoned' = 0
  /\ alive' = alive \ {conn}
  /\ UNCHANGED <<lock, seq, pc, corr, offset, born, wire, log>>

-----------------------------------------------------------------------------
(* The broker.  It answers the requests of a connection in order, and may   *)
(* still read those of a connection the client has closed.                  *)

FirstUnanswered(k, i) ==
  /\ i \in 1..Len(wire[k])
  /\ wire[k][i].st = "asked"
  /\ \A j \in 1..(i - 1) : wire[k][j].st \in Answered

BrokerAppend(k, i) ==
  /\ FirstUnanswered(k, i)
  /\ log' = Append(log, wire[k][i].call)
  /\ wire' = [wire EXCEPT ![k][i] = Turned(@, "ok", Len(log) + 1)]
  /\ UNCHANGED <<client, alive>>

BrokerRefuse(k, i) ==
  /\ FirstUnanswered(k, i)
  /\ wire' = [wire EXCEPT ![k][i] = Turned(@, "refused", 0)]
  /\ UNCHANGED <<client, alive, log>>

\* The connection is lost, or the broker reads a frame that was cut short and
\* closes it.
BrokerDrop(k) ==
  /\ k \in alive \/ wire[k] # << >>
  /\ alive' = alive \ {k}
  /\ wire' = [wire EXCEPT ![k] = << >>]
  /\ UNCHANGED <<client, log>>

-----------------------------------------------------------------------------
Produce(c) ==
  \/ Acquire(c) \/ Dial(c) \/ DialFail(c) \/ DrawCorr(c)
  \/ Send(c) \/ SendFail(c)
  \/ RecvOk(c) \/ RecvReject(c) \/ RecvFail(c)

Broker == \E k \in Calls :
  \/ BrokerDrop(k)
  \/ \E i \in 1..Len(wire[k]) : BrokerAppend(k, i) \/ BrokerRefuse(k, i)

Next ==
  \/ \E c \in Calls : Produce(c) \/ Refuse(c) \/ SendAbandon(c) \/ RecvAbandon(c)
  \/ Close
  \/ Broker

Spec == Init /\ [][Next]_vars

\* A thread inside produce keeps running: create_connection and recv carry a
\* timeout, so each blocking call ends.  Nothing is assumed of the broker.
FairSpec == Spec /\ \A c \in Calls : WF_vars(Produce(c))

-----------------------------------------------------------------------------
\* The calls behind the records of the partition, and what a caller may believe.
Logged == {log[i] : i \in 1..Len(log)}

\* A call that returned an offset returned the offset of its own record: no
\* answer to another thread's call, nor a late answer to an abandoned one, is
\* ever taken for ours (the correlation check, lines 150-152).
OffsetIsOwn ==
  \A c \in Calls : pc[c] = "ok" => /\ offset[c] \in 1..Len(log)
                                   /\ log[offset[c]] = c

\* However a call ended, its record is in the partition at most once: produce
\* never sends twice (retrying is left to the caller).
AppendedOnce ==
  \A i, j \in 1..Len(log) : log[i] = log[j] => i = j

\* Between calls the kept connection owes no answer, unless a call left it by an
\* exception the except clause does not name (lines 83-87 close it otherwise).
IdleConnectionIsClean ==
  lock = None /\ conn # None /\ abandoned = 0 => wire[conn] = << >>

\* Every call that has taken the lock returns or raises, whatever the broker
\* does, and so does every call waiting for the lock (the timeouts of 119-120,
\* 133 and the release of the with block).
EveryCallEnds == \A c \in Calls : <>(pc[c] \in {"ok", "raised"})

\* A connection with an unanswered, abandoned request never gets a second
\* successful call: one mismatch closes it.
StaleConnectionIsDropped ==
  [][\A c \in Calls : pc[c] = "recv" /\ pc'[c] = "ok" => wire'[conn] = << >>]_vars

-----------------------------------------------------------------------------
(* The inductive invariant.                                                *)

\* Steps of seq from id a to id b, around the wrap.
Dist(a, b) == IF a <= b THEN b - a ELSE (b + MaxCorr) - a

InFlight == \E c \in Calls : pc[c] \in {"send", "recv"}

\* The lock is held exactly by the call between its acquire and its way out.
HolderOwnsLock == \A c \in Calls : lock = c <=> pc[c] \in Held

\* The call in flight has the connection, and the newest correlation id.
InFlightIsNewest ==
  \A c \in Calls : pc[c] \in {"send", "recv"} =>
    /\ conn # None
    /\ corr[c] = seq
    /\ seq # 0
    /\ born[c] = abandoned

\* A connection is empty until the call that dials it has sent.
UndialledIsEmpty ==
  /\ \A c \in Calls : pc[c] \in {"new", "held"} => wire[c] = << >>
  /\ conn # None => pc[conn] # "new"

\* An exchange belongs to a call that has written its request; an answered one
\* points at the caller's record, an unanswered one is not in the log yet.
ExchangeIsTrue ==
  \A k \in Calls : \A i \in 1..Len(wire[k]) :
    LET x == wire[k][i]
    IN  /\ pc[x.call] \in {"recv", "raised"}
        /\ x.corr = corr[x.call]
        /\ pc[x.call] = "recv" => k = conn /\ i = Len(wire[k])
        /\ x.st = "asked" => x.call \notin Logged
        /\ x.st = "ok" => x.offset \in 1..Len(log) /\ log[x.offset] = x.call

OneExchangePerCall ==
  \A k, m \in Calls : \A i \in 1..Len(wire[k]), j \in 1..Len(wire[m]) :
    wire[k][i].call = wire[m][j].call => k = m /\ i = j

LoggedWereSent == \A i \in 1..Len(log) : pc[log[i]] \in {"recv", "ok", "raised"}

\* Every stale exchange of the kept connection is as many ids behind seq as calls
\* were abandoned since: all of them are fewer than MaxCorr behind.
StaleIsBehind ==
  conn # None =>
    \A i \in 1..Len(wire[conn]) :
      LET d == wire[conn][i].call
      IN  pc[d] # "recv" =>
            /\ born[d] < abandoned
            /\ Dist(corr[d], seq) + (IF InFlight THEN 0 ELSE 1) = abandoned - born[d]

\* Inductive: calls, abandoned ones included, the counter that wraps and the broker keep it.
Inv ==
  /\ TypeOK
  /\ HolderOwnsLock
  /\ InFlightIsNewest
  /\ UndialledIsEmpty
  /\ ExchangeIsTrue
  /\ OneExchangePerCall
  /\ LoggedWereSent
  /\ StaleIsBehind
  /\ OffsetIsOwn
  /\ AppendedOnce

-----------------------------------------------------------------------------
\* produce implements its promise.
Outcome == [c \in Calls |-> IF pc[c] \in Held THEN "pending"
                            ELSE IF pc[c] = "new" THEN "none" ELSE pc[c]]

Promise == INSTANCE KafkaProduce WITH outcome <- Outcome

PromiseSpec == Promise!Spec
=============================================================================
