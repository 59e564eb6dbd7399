# Formal model of the I/O Mesh client SDK for Python

TLA+ specifications of `iomeshclient` (the package under `src/iomeshclient/` of the
repository), the TLC configurations that check them on small instances, and proofs
for TLAPS. The modules are translated from the code; where a doc, a comment or a
docstring says something else, a run shows the difference (see *Findings*).

To check a run: `tlc -config <cfg> <module>`. To check the proofs: `tlapm <module>` for
`KafkaClientProofs`, `KafkaCodecProofs`, `PullConsumerProofs`, `ResourcesProofs`,
`MemoryTurnProofs`, `WaitReadyProofs`, `FailOpenProofs` and `PayloadProofs`.

## The system

The package is a client library. It keeps little state; what makes it hard is that
every operation is one or more requests to a server that may have done the work and
not said so, and that several programs or threads share the server, or one client.

| Component | Code | State it keeps | Operations | What is hard |
|---|---|---|---|---|
| Kafka produce client | `kafka/client.py` | lock, one TCP connection, correlation counter | `produce`, `close` | threads share one connection; late answers; exceptions that leave the connection half used; the counter wraps |
| Kafka codec | `kafka/codec.py` | none | encode, decode, CRC-32C | lengths read from the wire, null against empty, damage |
| HTTP requests | `client.py` `_do_json`, `_get_status` | none | one request | which failures are wrapped, which are not; what a failure says about the server |
| Readiness | `client.py` `health`, `ready`, `wait_ready` | loop variables, clock | poll until ready | deadline tests at three places, probes that take time, zero timeout |
| Durable pull consumer | `client.py` consumers, `Subscription`, `Msg`; `examples/pull_loop.py` | the fetched batch | subscribe, fetch, ack, nack | redelivery, crashes between fetch and ack, undecodable payloads, answers without messages, several workers, subscribing again to a consumer that exists |
| Streams | `client.py` streams | none | create/ensure, get, list, delete, replay | create is two requests when the first says 409; other programs in between |
| KV buckets | `kv.py` | none | create/ensure, put, get, delete, list keys | writers of one key overwrite each other; 409 as success; lenient decoding |
| Live views | `liveview.py` | none | register processor, list views | 409 as success |
| Publish | `client.py` `publish` | none | one POST | no way to tell a lost answer from a lost message |
| Memory helpers | `memory.py` | none | ingest, retrieve, related, digest, dual write | path cascade over requests that write; two writes in order |
| Catalog | `catalog.py` | none | list, get | cascade of up to six requests that must never raise |
| Org gate, connect | `client.py` | options | fail closed without an org | called by hand in each method |
| Policy, context, status | `policy.py`, `context.py`, `status.py` | none | `evaluate_policy`, `query_context`, `context_snippet`, `connection_status` | must return whatever happens, and must not turn an intact answer into its opposite |
| Metering | `metering.py` | none | fills in an event and publishes it | - |
| Connector SDK, formatters, examples | `connectorsdk/`, `*_format.py`, `examples/` | none | pure text and JSON | - |

They interact by calls: every HTTP component goes through `_do_json` or `_get_status`
(catalog has its own copy of that request), `pull_subscribe` through `create_consumer`,
the memory dual write through `publish` and the ingest cascade, metering through
`publish`. `publish` and `put` write payloads that three differently lenient readers
decode (`consumer_fetch`, `list_stream_messages`, `get`). The Kafka client is
independent of the HTTP client.

## Modules

`Http` is used by all HTTP modules. It says what a request can come to on the wire
(`Replies`) and what the two helpers make of it for their caller (`DoJson`,
`GetStatus`): a value, an `APIError` named by its status (`5xx` stands for every status
that is neither 2xx nor 4xx), a `ClientError`, or `raw`, an exception the helper does
not wrap (the body of an error answer that tears while it is read is one: `unread`).
`Done` and `MayDone` say what the caller can know about the server.

| Module | Models | Variables and actions, in the code's terms |
|---|---|---|
| `KafkaProduce` | the promise of `produce` | a log, and for each call its outcome and offset |
| `KafkaClient` | `kafka/client.py` | `lock`, `conn`, `seq` are `_lock`, `_conn`, `_seq`; `corr`, `offset` the locals of a call; `wire[k]` the exchanges on connection k; `alive` and `log` belong to the broker. `Acquire`, `Dial`, `DrawCorr`, `Send`, `RecvOk` are the lines of `produce` in order; each of its ways out is an action (`...Fail` closes the connection as the except clause does, `...Abandon` leaves it) |
| `KafkaCodec` | `kafka/codec.py` messages and sets | operators with the code's structure, byte for byte; a 32-bit word of the CRC is the set of its bits that are 1; a faulty medium between encoder and decoder |
| `WaitReady` | `health`, `ready`, `wait_ready` | `now` is `monotonic() - start`; the head of the loop (`GiveUp`, `Attempt`), the probes, the test after them (`TimeOut`) and the sleep are actions |
| `Delivery` | the promise of publish and a durable consumer together | the fate of each message and how often it was taken |
| `PullConsumer` | publish, consumers, and the pull loop | `status`, `deliveries`, `durable` (the consumer exists) belong to the broker; `reply` is a fetch response under way, `batch` what `consumer_fetch` returned and the loop has not settled; `poison` is the set of messages whose payload does not decode, any set; a fetch that was served returns its batch (`FetchReturns`), an exception (`FetchPoisoned`, `FetchFails`) or, for an answer without messages, an empty list (`FetchBlank`); `lost` and `overdue` are history: which hand-outs no loop body took, and why, and whose `ack_wait` ran out in a worker's hands |
| `MemoryTurn` | the cascades and the dual write of `memory.py` | one action per request (`Publish`, `Try`) and for each place between and behind the halves of a dual write (`Acked`, `Return`), and `Interrupt` at all of them; `lastErr` is `last_err`, `ack` is `async_ack`, `half` how the synchronous half ended (`sync` or `sync_err`) |
| `Resources` | streams, KV buckets and keys, processors, live views | `thing` is whose write the named thing at the broker is now; the request of a call is served (`PostServed`, `PutServed`, ...) and its answer acted on (`Answer`) in separate steps, so that other calls and programs (`Elsewhere`) come in between; one operator per method says what it makes of an answer |
| `Payload` | the encoding of `publish` and `put`, the decoding of `consumer_fetch`, `list_stream_messages`, `get` | base64 with its lenient and its validating decoder as operators; `Read` lets each reader read one text |
| `Catalog` | `list_catalog`, `get_catalog_product` | `next` is the index into the path list `pc` names; one action per request, and `EmptyId` for a product id that is not asked for |
| `FailOpen` | `evaluate_policy`, `query_context`, `context_snippet`, `connection_status` | `pc` is the request under way; `server` changes between the steps, `saw` is what it was when it served each request, `answer` and `body` are what it came to and said; the readers of the answers (`Allows`, `ResultFromBody`, `FormatSnippet`) are operators |
| `...Proofs` | theorems about the module they are named after | see *Proofs*; `FailOpenProofs` is about `Catalog` too, and about the turn of `MCFailOpen` |
| `MC...` | small instances | model values, symmetry; `MCFailOpen` puts `FailOpen` and `Catalog` together (a turn calls a helper of either) |

Definitions called `X_Something` with a comment that begins with *Slip* are wrong
variants of X: plausible mistakes in the code the definition models. No
specification uses them. Put in the place of X, each one breaks the property that
`PROJECT.json` lists beside it, which shows that the property can fail.

## Runs

| Run | Instance | What it shows |
|---|---|---|
| `kafka_client` | 3 calls, ids 1..2, 1 abandoned call per connection | attribution of offsets, no double append, a clean connection between calls, the inductive invariant; every call ends; one mismatch closes a stale connection; `KafkaClient` implements `KafkaProduce` |
| `kafka_codec` | sets of up to 2 messages over 2 keys and 3 values; every bit, every length | round trip; one flipped bit or a cut never yields other values |
| `wait_ready` | timeout 9, interval 4, probes up to 1, wake-ups up to 1 late | when it gives up, what success rests on, how late it returns, how often it probes |
| `wait_ready_zero`, `wait_ready_hung` | the same with timeout 0; the same | two findings |
| `pull_consumer` | 2 workers, 2 messages, any of them undecodable, batches up to 2, 2 deliveries, 2 faults | nothing acked unseen, no delivery taken twice, to which causes the deliveries of a message given up unseen were lost, the inductive invariant; the whole implements `Delivery`; every message is settled in the end |
| `memory_turn` | 2 calls of any kind, interrupted anywhere | order of the two writes, the ack survives all but an interrupt outside of the `try`, a refusal is final, when a turn is written twice, the inductive invariant |
| `streams` | 2 calls of any methods on a stream, bucket, key, processor or live view, and other programs | what a caller is told was true during the call; a put tells of its own write; a thing missing from a list was gone, or the 2xx brought no list; the inductive invariant |
| `payload` | values of up to 4 bytes out of 3; texts of up to 5 characters out of 6 | own values come back from every reader; the readers of a stream do not contradict each other |
| `fail_open` | one call of any kind, every wording of a verdict, contexts of up to 2 items over 2 references, snippets of 2 references; catalog answers of up to 2 products on 6 paths | an agent is stopped under enforce by a whole answer only, and by one in booleans exactly when it denies; a snippet shows the texts it is made of and their lineage, no other, or says it was cut; what "ok" means; what a list, a product and "not found" of the catalog rest on |
| `catalog_torn`, `catalog_org` | one catalog call, 2 products, 6 paths | two findings |

**Bounds.** `MaxCorr` stands for 2^31 - 1: with 2 ids and 3 calls the counter wraps and
meets old ids. `MaxAbandon` bounds how many calls in a row may leave a connection by an
exception that does not close it, and is smaller than `MaxCorr` (`CorrAssumption`): for
the code the other case needs 2^31 - 1 interrupted calls between two successes. Three
calls are enough for a stale exchange, one call in flight and one waiting, and the
proofs cover every other number. In `PullConsumer` two messages are one that is lost and
one that is lost with it, two deliveries and two faults are enough for a lost ack, its
redelivery to the other worker, a late ack of the first, and for a message whose
deliveries are lost to two different causes; `MaxFaults` bounds failures of workers
only, while a fetch that meets an undecodable payload, or whose answer brings no
messages, may do so any number of times, up to `MaxDeliver`. In `Resources` two calls
and the other programs are enough: a property speaks of one call and of what the thing
was meanwhile. The letters 0 and 63, the padding, an ignored character, a non-ASCII one
and half a surrogate pair cover each branch of the decoders; four bytes cover a full
group and each of the shorter ones, five characters a full group and what comes after
it. `Horizon` is past every instant at which `wait_ready` may still run (the clock stops
there, so `ProbesAreSpaced` speaks of the instants before it; the proofs are for every
horizon), and the timeout is no multiple of the interval so that the last sleep is cut.
In `MemoryTurn` and `Resources` the calls are finite and end: deadlock is not checked
there, nor where a finite set of Kafka calls or a single cascade, helper call or read
ends. In `PullConsumer` it is: a worker can always start again.

**Fairness.** `KafkaClient` assumes weak fairness of the steps of each call and nothing
of the broker: `create_connection` and every `recv` carry a timeout, so a step of
the client (a failure, if nothing else) is always possible, and a thread that can run does.
That a thread waiting for the lock gets it follows because the calls are finitely
many and each one releases it. `WaitReady` assumes that the loop runs and every request
ends by its timeout. `PullConsumer` assumes that a program that has ended is started
again and in the end gets through `pull_subscribe`, that one that runs goes on to its
next request and its next message (each request ends by its timeout), that a broker
with ready messages hands some out, and that `ack_wait` runs out; nothing makes anyone
publish, and nothing is assumed of which messages a fetch brings. The other modules
state no liveness.

**What the abstractions leave out.** A frame whose first bytes an interrupted call has
taken from the socket is assumed not to parse as an answer with the right correlation
id. A request's timeout is taken to bound the whole request, while the code bounds each
wait on the socket: a server that trickles bytes can stretch a request (the codec and
HTTP modules do not depend on it, the overshoot bound of `WaitReady` does). JSON objects
are taken to have the fields the code reads, where a module does not say otherwise. In
`FailOpen` a broker that words a verdict in JSON booleans does not contradict itself;
what it means by any other value, which the code takes by its truth (`bool`), is not
known; a snippet's limit of 12 references is the constant `MaxRefs`. A fetch is served at once:
`max_wait_ms` is the broker's. In `Resources` the broker answers a read with the thing
as it is when the read is served, and a list tells of one name (prefixes and ranges are
left out). `Payload` models the strings of JSON, not the numbers and arrays that `get`
also accepts, and validating decoding as Python had it before 3.11 (later versions
refuse a few more texts, which replay then reads as text).

## Proofs

Each `...Proofs` module proves its module for every value of the constants that the
module's ASSUME allows. All follow one pattern: an inductive invariant, a lemma for each
action, `Invariance: Spec => []Inv`, and the properties as consequences. `Inv` is defined
at the end of the component's module where a run checks it (`KafkaClient`,
`PullConsumer`, `Resources`, `MemoryTurn`), and in the proof module otherwise (`Payload`'s
is called `IInv`, `Catalog`'s `CatInv`); TLC has checked those as invariants of the same
instances. The assumptions are those the code meets: finitely many workers, message
numbers that are naturals, at least one message to a batch and one delivery; a positive
interval (an `interval_sec` of 0 or less is replaced by the default, `client.py:270`);
keys and values of at most `MaxBytes` (10^9) bytes each, so that the size of a message
fits the field `write_int32` writes; constants that stand for different things differ.
No bound of a run is used: calls, workers, messages, deliveries, faults, products,
timeouts, the length of a context answer, of a payload, of a text and of a set of
messages are arbitrary, and so are the bytes in them.

| Module | Theorems | For every |
|---|---|---|
| `KafkaClientProofs` | `Invariance`, `TypeCorrect`, `Attribution` (`OffsetIsOwn`), `NoDuplicate` (`AppendedOnce`), `CleanWhenIdle`, `StaleDropped`, `KeepsPromise` (implements `KafkaProduce`), `OffsetStands` (from the promise) | set of calls, `MaxCorr`, `MaxAbandon < MaxCorr` |
| `PullConsumerProofs` | `Invariance`, `AckedWereHandled`, `HandledOncePerDelivery`, `UnseenAreAccounted` (`UnseenIsAccounted`), `TakenWereOut` (an action property), `KeepsDelivery` (implements `Delivery`) | finite set of workers, set of message numbers, `Batch`, `MaxDeliver`, `MaxFaults` |
| `ResourcesProofs` | `Invariance`, `ToldTheTruth` (`InfoWasTrue`), `EnsuredThing`, `OwnPut`, `TrulyAbsent` | set of calls |
| `MemoryTurnProofs` | `Invariance`, `StreamFirst`, `AckIsKept`, `RefusalStands`, `NoIdleSecondWrite` | set of calls |
| `WaitReadyProofs` | `Invariance`, `TimeoutWasDue`, `ReadyNow`, `BoundedOvershoot`, `SpacedProbes` | timeout, interval, length of a probe, lateness of a wake-up, horizon |
| `FailOpenProofs` | `Invariance`, `BlocksOnDenial`, `TrueStatus`, `TracedSnippet` (`SnippetIsTraced`); of `Catalog`: `CatalogInvariance`, `HonestList`, `HonestGet`; of the composition that `fail_open` runs: `TurnInvariance`, `TurnFailsOpen`, `TurnListIsHonest`, `TurnGetIsHonest` | set of references, bound on items, bound on a snippet, sets of products and of those asked for |
| `PayloadProofs` | `Invariance`, `ValuesReturn` (`OwnValuesReturn`), `Agreement` (`ReadersAgree`) | set of bytes, set of letters, lengths |
| `KafkaCodecProofs` | `Invariance`, `EncodedReturns` (`RoundTrip`), `FlipNoticed`, `CutNoticed` | keys and values, number of messages |

*KafkaClient.* `OffsetIsOwn` is not inductive: a state in which a stale answer on the
connection carries the id of the call in flight satisfies it and the next step breaks
it. What excludes that state is `StaleIsBehind`: the distance of a stale exchange's id
from the counter, around the wrap, equals the number of calls abandoned since
(`abandoned - born`), which `CorrAssumption` keeps below `MaxCorr`. It is kept because
every call that draws an id either is abandoned (both sides grow by one), succeeds (then the
first answer on the connection was its own, so nothing stale is left) or closes the
connection. `ExchangeIsTrue` ties an answer to the record of the call that asked,
`OneExchangePerCall` and `LoggedWereSent` give at most one append,
`HolderOwnsLock` and `InFlightIsNewest` make the call in flight unique.

*PullConsumer.* `AckedWasHandled` needs that a worker about to settle has taken the head
of its batch (`HeldFitsPc`). `OneHandlingPerDelivery` and `UnseenIsAccounted` are two
readings of one account (`HandOutsAreAccounted`): the deliveries of a message are the
times it was taken, the workers that have it and have not taken it, and the hand-outs
lost, by cause. For that a batch must have no message twice, which follows from its
order (`Ascending`, also in `HeldFitsPc`). A message given up was handed out
`MaxDeliver` times (`DeliveriesFitStatus`); unseen and with nobody, it has lost all of
them. How many a fault may cost (`LostToFaults`: each fault ends one worker, which has
the message once) and how many an undecodable payload (`LostToPoison`: that payload is
in every batch spoiled by it, and loses what its mates lose) are kept beside it; an
answer without messages costs without any bound but `MaxDeliver`, because nothing in the
code notices it. What is taken was out (`HeldIsOut`) because a message held by two, or
held and no longer out, is overdue (`TwiceHeldIsOverdue`): the acks and nacks of one
worker do not reach what another one properly holds. The refinement maps the broker's
status to the fate of a message and `handled` to `taken`; each action of the model is
shown to be one step of `Delivery` or a stutter (handing out, expiring and releasing
leave a message waiting).

*Resources.* All four properties are about the end of a call, so the invariant says what
must be known before: a running call has seen what the thing is now (`RunningSees`), what is
on its way back to it is of an instant of that call (`AnswersAreTrue`, by the kind of
request and of answer), and a create that asks again was told of a thing that it has seen
(`ConflictSawIt`). Steps of other calls and programs only add to `seen`. The answers
share one lemma: a call that ends with what `Tells` allows keeps the invariant.

*MemoryTurn.* `BeforeItsTurn` says that nothing is sent, written, answered or acked before
its place in the cascade, that a dual write comes to the sidecar with its ack only,
and that behind its second half it knows how that half ended, which is what `AckSurvives` needs;
`SecondBehindFailure` remembers why the second path is asked: behind a failure that falls
through, and behind a 404 nothing was written.

*WaitReady.* `OvershootIsOneAttempt` needs the clock at every point of an attempt
(`LateByRequests`: each request adds one `ProbeTime` at most to a start before the deadline),
and `ProbesAreSpaced` that whoever may begin another attempt has slept an interval for each one
before it, unless its last sleep was cut, after which none begins (`SleptBefore`).

*FailOpen, Catalog.* Of `Catalog`, `AskedInOrder` gives the exact set of paths asked at
any point, and that those before had nothing to give. In FailOpen `AsksInOrder` keeps
each request single, so that what the server saw when it served it stands, and
`HealthIsTrue` is the half of the status that is known between the probes;
`VerdictIsHeard` shows that every wording of a verdict in booleans is read as meant.
`SnippetIsTraced` speaks of sequences of any length that are flattened, filtered and
cut: what `FlattenSeq` returns is proved by an induction on the number of sequences
joined, and filtering keeps what it does not drop.

*Inductions over data.* The library's induction theorems take a predicate as a parameter.
The proof modules state induction over the naturals as a fact about a set instead
(`SetInduction`: a set that has 0 and with n also n + 1 has every natural), from the
well-foundedness of <; recursion in the model is by recursive functions, and for each
of them one lemma shows that the function exists and is what its equation says.

*Payload.* A text of the library is groups of four letters with at most two paddings at
its end. The lenient decoder (`Scan`) is followed letter by letter; the validating one
accepts exactly the texts of that shape, on which the two agree. One group is arithmetic: the
six-bit values of its letters give back the three bytes they were made of.

*KafkaCodec.* Decoding what was encoded is followed field by field: lengths are read back
as written (`ReadsWritten`), a field of a message ends where the next begins (`FieldRead`),
and a message of a set lies behind those before it (`EntryLies`). For damage the CRC
matters: the high byte of an entry of the table tells which entry it is (`TableEntries`), so adding
a byte to a checksum is injective in the byte and in the checksum, and two bodies of one length
that differ in one byte have different checksums (`CrcNoticesByte`). A byte changed in the
checksum field, or in the body, is noticed that way (`MessageDamaged`). A changed size is noticed
without the CRC: the message would have to be parsed to its end in another number
of bytes (`Parsed`). A changed offset field is not read. A cut leaves whole messages, which are
read, and a part of one, whose size exceeds what is left (`CutRead`). `ReadOn` puts the messages
together: if the first k of a set are whole, what is decoded is their values and what
the rest gives, or nothing.

*Through the refinement.* `OffsetStands` is a consequence of `KafkaProduce`, carried to the
variables of the code by `KeepsPromise`'s steps.

*Only model-checked:* liveness (`EveryCallEnds`, `ComesBack`, `EveryMessageSettles`), since
the prover does not do fairness. Every other property of a passing run is a theorem.

## Findings

- **Catalog ignores `require_org`** (`catalog_org`): `catalog.py` never calls the org gate,
  although `ConnectOptions.require_org` (`client.py:65`), the README and the API notes
  name catalog as covered.
- **Catalog can raise** (`catalog_torn`): `http.client.HTTPException` (a body cut short, a
  bad status line) is caught by no clause of `_catalog_get`, against "ok=False on
  404/non-OK/transport/decode" (`catalog.py:169`).
- **`wait_ready(timeout_sec=0)` never ends** (`wait_ready_zero`) while the broker is not
  ready, against the comment "zero budget before first probe — still try once"
  (`client.py:289`).
- **A hung probe ends `wait_ready` early** (`wait_ready_hung`) with an exception that is
  neither `ClientError` nor `APIError`, against "Poll until success or *timeout_sec*
  elapses" (`client.py:260`).

## Plan

Done: every module of the plan, and proofs of every safety and action property the runs
check, and of both refinements.

What could follow: several damaged bytes at once. The CRC does not notice all of those, so the
theorem would be about bursts of up to 32 bits, for which `CrcNoticesByte` is the first step.

## Not modelled, and why

Formatting of tables and text, JSON field reshaping and subject building are pure layout.
Metering (which fills in a body) and the examples other than the pull loop add no
control to `publish`. The HMAC
check is one comparison of digests. `connect` and `connect_from_env` validate and copy
their arguments.
