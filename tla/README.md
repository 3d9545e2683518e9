# A verification project for dd-trace-go

TLA+ models of the concurrent core of the Datadog tracer for Go, TLC runs that
check them on small instances, and TLAPS proofs of what matters most for every
size of the instance. Line numbers refer to `src/`. `PROJECT.json` maps every
definition to the lines it models and lists runs, mutants, findings, hazards and
theorems.

## 1. The system

An application starts and finishes spans. The spans of a trace meet in a buffer;
a complete chunk of them goes through a channel to one worker goroutine, which
collects chunks into a payload and sends it to the agent. Next to it run the
concentrator of statistics, the continuous profiler, the telemetry client, AppSec
with its rate limiter, and the remote configuration client. Each has goroutines of
its own, timers, a bounded queue, a way to fail and a Stop.

| Component | State | Operations | Interacts with | What is hard |
|---|---|---|---|---|
| Trace buffer (`spancontext.go`, `span.go`) | spans, finished counter, priority, lock, sampling decision, propagating tags, root | StartSpan, SetTag, Finish, push, keep, finishedOne | worker (pushTrace), samplers, concentrator | any goroutine starts and finishes spans; the decision is an atomic outside the lock; `trace.root` has no lock at all; the buffer is reused after a flush |
| Worker, Flush, Stop (`tracer.go`) | channel `out`, `stop`, `flush` channel, wait group | pushTrace, worker loop, flushSync, Stop | buffer, writer, global tracer | unordered select, test of stop and send in two steps, drain on Stop |
| Trace writer, transport (`writer.go`, `transport.go`, `payload.go`) | payload, connection semaphore, dropped-P0 counters | add, flush, stop, send | worker, agent | concurrent sends that fail, all connections in use, counters moved into requests |
| Concentrator (`stats.go`) | channel `In`, buckets, ticker | add, flushAndSend, Stop | Finish, transport | ingester and flusher share buckets; stale ticks; spans in flight at Stop |
| Profiler (`profiler/`) | active profiler, queue `out`, pending profiles, sequence number | Start, Stop, collect, enqueueUpload, send, upload | runtime profilers, agent | Start and Stop in any order, CPU profile last, queue overflow against the sender, retries |
| Telemetry client (`internal/telemetry`) | metrics, sequence number, timers | Start, Stop, Gauge, Count, flush, timer functions | agent | timer functions that come late, posts in goroutines of their own |
| AppSec limiter (`internal/appsec/limiter.go`) | tokens, ticker | Start, Stop, Allow, updateBucket | WAF listeners | lock-free compare-and-swaps, late ticks, exact increments |
| AppSec, WAF, dyngo (`internal/appsec`) | active instance, WAF handle with its readers, event registers, events of a request | Start, Stop, listeners, start and finish of operations, Run | integrations, limiter, remote configuration | a handle released while in use, contexts that cannot be made, limits on events, Start and Stop from several goroutines |
| Samplers (`sampler.go`, `rules_sampler.go`) | rates by service, rules, limiter with two periods | sample, apply, readRatesJSON, allowOne | buffer, transport | precedence of rules and rates, periods of a second that begin when somebody asks |
| Propagation (`textmap.go`, `sqlcomment.go`) | none | Inject, Extract | buffer (extracted traces), integrations | services configured apart, limits of header sizes, malformed headers, order of propagators |
| Integrations (`contrib/`, some sixty packages) | a span per call; spans waiting for a report | around every call of a library | tracer, propagation, AppSec | early returns, panics, deferred order, errors that are excused, options against environment, reports that come later |
| Remote configuration (`internal/remoteconfig`) | repository, callbacks, last error | Start, Stop, updateState, applyUpdate | AppSec | poll against Stop, files of several products |
| Log, health metrics, options, log writer, mock tracer, OpenTracing bridge | see PROJECT.json | | | little shared state |

What makes the components correct, in a sentence each: a finished span leaves in
exactly one chunk, and the sampling decision of a trace is coherent and final; an
accepted trace is sent once or accounted for, and Stop and Flush keep their word; a
span is counted in exactly one exported bucket; one profiler works at a time and a
batch has one fate; messages of the telemetry client are numbered once and runs do
not mix; no token is handed out twice and the rate is kept; a WAF handle outlives
its users and an AppSec instance leaves nothing behind; a trace is kept in all of
its services or in none; a wrapper finishes its span once, below the right parent and
with the right error, whatever the traced call does.

## 2. The modules

Every action is a critical section, an atomic operation, a channel operation or an
unsynchronised access of the code: what no other goroutine can see is merged.
`Mut...` operators before a definition are plausible bugs of it, one for each
checked property; nothing else uses them. `MC...` modules only add symmetry sets and
constants for TLC.

### TraceBuffer

One trace and the spans that may be started in it. `pc[s]` is how far the calls
on span `s` have come: `new`, `context` (StartSpan read the parent's priority),
`root` (found no root and is about to write itself), `push`, `sample`, `apply`,
`live`, `keep` (finish wants the trace kept), `ack` (before finishedOne), `done`.
`StartSpan`, `NewSpanContext`, `SetRoot`, `Push`, `CheckSampled`, `SampleDrop` and
`SampleApply` are the steps of starting a span, `SetTagPriority` and `SetTagError`
the tags that matter here, `Finish`, `Keep` and `FinishedOne` those of finishing it.
`Remote` chooses between a local trace and one that was extracted: its priority and
decision maker are then arbitrary, as the headers bring them. `trace.spans` is a set
and its first element, which is all that the code uses.

### TracerPipeline and TraceDelivery

`Push*` is pushTrace in the goroutine that finished a chunk, in three steps (read
the global tracer, look at stop, send). `Receive`, `Tick`, `FlushTake`, `WorkerStop`
and `WorkerExit` are the cases of the worker's select and its drain loop,
`WorkerFlush`/`StartSend` the swap of the payload when a connection is free,
`SendRequest`, `SendOK` and `SendFail` the goroutine of a request, and `Stop*` the
steps of Stop. A trace is an identifier with a sampling decision; `PayloadLimit`
stands for the size that triggers a flush. The counter `droppedP0Traces`, its copy in the
header of a request and what the agent was told are the sets of the traces they count;
the code adds one and swaps for zero, which is all that is done to them. The select is unordered, as in Go, and a
set of queued traces over-approximates the channel's order. `TraceDelivery` is the
promise: each trace goes `open -> queued -> buffered -> sending -> delivered | lost`
or is dropped, never back. `ImplementsDelivery` says that the pipeline refines it.

### Concentrator

Producers (`FindTracer`, `SendIn`) are the part of span.finish that feeds the
channel. `Ingest*`, `Flush*` and `Stop*` are the goroutines. Time is an
integer clock; the channel of a `time.Ticker` holds one tick and drops others. A
bucket is its start and the set of spans it counted: what CountedOnce is about.

### Profiler

`Call` and the `Return` actions are the two exported functions under the package's
lock, `Spawn`, `Collect`, `StartCPUProfile`, `StopCPUProfile`, `BatchReady`,
`Enqueue`, `Evict`, `NextBatch` and `CollectExit` the collecting loop with its
profile goroutines, and `Send*`, `Output`, `Try`, `Request*`, `Backoff`, `GiveUp` and
`Abandon` the sender. A batch is a profiler and a sequence number; the zero batch is
what a receive from the closed queue yields. `AppCPUProfile` is the application that
uses the runtime's CPU profiler itself.

### Telemetry

Each operation under `c.mu` is one step, but the heartbeat, which posts with the lock
held, is two. A timer that fires leaves a call waiting for the lock (`flushes`,
`beats`); it may get it after Stop or after the next Start.

### TokenTicker

Loads and compare-and-swaps of `t.tokens` by the updater (`LoadTokens`, `AddTokens`)
and by any number of callers of Allow (`Load`, `Take`). The clock advances by the
period of the ticker; a late updater misses ticks. `allowed`, `added`, `startTime`
and `capped` are history variables.

### AppSec

`StartTracer` and `StopTracer` are tracer.Start and tracer.Stop as far as AppSec is
concerned, from several goroutines. A caller makes and starts a new instance without
any lock (newAppSec, start); setActiveAppSec then stops the instance before it and puts
the new one in its place under the package's lock. An instance has listeners on the root
operation, a WAF handle, a limiter and the loop of a remote configuration client, which
may be missing because it could not be made. The handle is a C object whose users hold a RWMutex for
reading: Close asks for it for writing, and as in Go no reader gets the lock while a
writer waits. An operation is an HTTP or gRPC request with a register of listeners:
those on the root register on it when it starts, and hear of its messages and of its
end. The WAF itself answers anything, and making a context may fail.

### Wrapper, Instrumentation and the integrations

The wrappers of `contrib/` differ in names and resemble each other in what they do:
they look at options, start a span, inject its context, call the library, tag, mark
an error, finish. `Wrapper` is the vocabulary: an instruction with the outcomes or
circumstances it applies to. `HTTPIntegrations`, `RPCIntegrations`,
`StoreIntegrations` and `QueueIntegrations` write each wrapper of the repository as a
short program in it, in the order of its Go code; where several methods of a type do
the same around different calls, one program stands for all. `Instrumentation`
executes one program for one call, under every combination of circumstances the
wrapper can meet (a parent, headers, AppSec, options, environment, global settings)
and every outcome of the call, panics included; deferred blocks run when the wrapper
is left, the last first. The sets `LeftOpen`, `Lax`, `Sticky`, `Dangling` and
`Borrowing` in `Instrumentation.cfg` name the wrappers that fall short of a
property and how (section 4): for these the run shows what they do, for all others
that they do not.

### Producers

Kafka producers that learn later what became of a message: the goroutine of the
sarama wrapper, which hands messages on and reads reports in one select, and the
goroutine per message of the confluent wrapper. The libraries are external: they take
a bounded number of messages, decide about each, report when there is room, close
their channels when they are told to. `returns` are the results that sarama is configured
to report; the wrapper looks at successes only, so the span of a failure that is not
reported stays in its map (`Unreported`). `Stuck` is the state in which goroutine and
library wait for each other.

### Samplers, Propagation and DistributedTrace

`Samplers` and `Propagation` are the algorithms: sampledByRate with its
multiplication modulo the number of identifiers, rules from options, environment and
file, the limiter, the rates of the agent; Inject and Extract of each style with
limits and malformed values, comments in SQL. A name in a list of styles that stands for no
propagator is kept as `"none"`, which extracts nothing; the length of a header is the number of
its characters and separators; an origin is empty, the one that needs no parent, or another.
The limiter counts time in halves of a second and its limit in halves of a trace per second,
so that limits need not be whole numbers; the burst is the limit rounded up
(`rules_sampler.go:315`). The time of a request is read before the limiter is locked
(`rules_sampler.go:266`, `397`): the model lets a request come with a time that is up to
`MaxDelay` old, so that requests arrive in any order of their times.
`DistributedTrace` composes them. A
trace enters the first of three services with any of the headers of the instance;
`Arrive` extracts, starts a span and samples if nothing is decided, `Manual` and
`Annotate` are the application, `Send` injects, `CallDB` comments a query, and
`FinishTrace` says what becomes of the last span. Each service has its own styles and
limits. `path` is a history of what each service made of the trace, `asked` one of what
the limiter was asked. With one service (`far = 1`) `Tick`,
`ReadRates`, `SetRate` and a sequence of traces exercise samplers and limiter.

## 3. The runs

| Run | Instance | Shows |
|---|---|---|
| `buffer_local` | local trace, 3 spans, buffer of 2, P0s may be dropped, manual drop and automatic keep | the counter of finished spans is exact, no chunk is stranded, spans leave once and health counters add up (`Accounted`), errors decide chunks, only the finished root locks the priority, chunks report the propagated decision maker, which goes with positive priorities only |
| `buffer_remote` | extracted trace, 2 spans, all priorities | no chunk leaves undecided when the client may not drop; a locked priority never moves |
| `pipeline` | 3 traces (2 of them may be dropped), channel of 2, payload limit of 1, 2 connections, 1 Flush, 1 Stop | Stop loses nothing that was accepted before it, Flush hands over what was buffered, dropped-P0 counts are neither doubled nor lost with successful requests, Stop returns, Flush returns unless the worker exits first, refinement of TraceDelivery |
| `stats` | 2 spans in 2 buckets, channel of 1, buckets of 2 time units, clock to 5 | each span counted once, Stop exports all, a current bucket is not torn apart, Stop returns |
| `profiler` | 2 profilers, 2 types with CPU, 3 batches and 1, queue of 2, 2 tries | one profiler at work and one owner of the CPU profiler; a batch has one fate, the oldest is evicted, batches arrive in order; the CPU profile ends last; Start and Stop return |
| `telemetry` | 2 runs of the client, 2 metrics, 2 updates, 1 heartbeat | numbers are given once, runs do not mix, what is not new is reported, new metrics are flushed in the end |
| `limiter` | 2 callers, 3 tokens of 3 units, ticks of 2, clock to 12 | tokens conserved, increments worth the time that passed, bounded rate |
| `appsec` | 2 callers, 2 starts, with and without remote configuration, one request (HTTP or gRPC), 2 messages, 1 event | no context of a closed handle is used, nothing of a replaced instance stays, events stay within their limit, nobody waits for ever unless a context could not be made |
| `integrations` | all wrappers, all circumstances and outcomes | the span is finished once, never touched afterwards, marked as the call ended, below the right parent and in what is sent; options beat environment beat global settings |
| `distributed` | 3 services with 5 styles each, 7 kinds of headers; 4 traces through one service, two and a half seconds, limit of one and a half traces per second, times up to a second old | services linked by shared styles work on one trace and abide by what was decided first, unless a user decides otherwise, and the last span and its query tell the same; tags arrive whole or not at all, the decision maker goes with positive priorities, the limiter counts what it says |
| `producers` | 3 messages, room for one in the library and one report, deadlock checked | spans match reports, the map has exactly what is under way, every report finishes its span |
| `stale_priority` | 3 spans, manual keep only | violated: see below |

**Bounds.** Each is the smallest that lets the interesting cases meet. Three spans
and a buffer of two give an overflow with a span left outside, and a second chunk
after a flush; two remote spans suffice for a race between two roots. Three traces
fill a channel of two and find it full; with a payload limit of one the second trace
that a payload takes makes it too large, and it is flushed by its size, while a payload
of one trace waits for the ticker, for Flush or for Stop. Each needs a connection, and
two sends may be under way. Two spans,
two buckets and a clock of five give spans that are on time and late, in the same
bucket and in different ones, and a tick that is received after the next one was
dropped. Three batches overflow the profiler's queue of two, also while the sender has
taken the first between the two selects and retries it; one batch of a second
profiler is enough to see two at work. Two runs of the telemetry client let a call of
a timer of the first run into the second. In the limiter a token is worth one and a
half ticks, so remainders occur, and twelve units refill the bucket after it was
empty. Two callers and two starts replace an AppSec instance while another goroutine
stops it and a request holds its handle; two messages exceed a limit of one event.
Three services suffice for a context that is received and passed on, and the lengths
of tags are chosen so that the limits are met, missed by one and by two. Four traces
in five half seconds, with times up to two of them old, meet a limiter's period, the next
and a gap, also in reverse order, and a limit of one and a half fills the bucket in between. Three messages fill the
library, its report channel and the hand of the wrapper, which is the circle of the
deadlock. A call of a wrapper is finite, and that run is exhaustive. Clocks and
numbers of calls are bounded in the guards (`MaxTime`, `MaxStarts`, `MaxBatches`,
`MaxUpdates`, `MaxBeats`, `MaxRequests`, `MaxMessages`, `MaxTraces`, `MaxClock`,
`MaxAnswers`, `MaxDelay`). Deadlock is checked for `producers`; the other systems end, when every
span has finished or Stop has returned, and there `StopReturns`, `CallReturns` and
`NobodyStuck` say who must have come to an end.

**Fairness.** Weak fairness of every goroutine that can run (the Go scheduler is
preemptive and fair); requests end, because clients have a timeout
(`transport.go:59`, the profiler's positive upload timeout, five seconds in
telemetry). Strong fairness only for a case of a select that is ready again and
again, because Go's select picks at random, and for a goroutine that waits for a
mutex, because Go's mutexes hand over to a starving waiter. In `Producers` the library
decides about every message it took and writes a report when there is room, which is
what sarama and confluent document; a message or report that waits for a channel that
becomes free again and again gets its turn. No fairness for the application: it need
not finish spans, call Flush, call Stop or send messages.

## 4. What was found

One run refutes what a comment says. `stale_priority`: StartSpan copies the priority of
the trace into the child (`tracer.go:434`) and push writes it back later
(`spancontext.go:286`): a ManualKeep in between is undone.

Other disagreements between the code and what one expects of it. The properties are
stated so that they hold, which means that they name these exceptions.

* Tracer. pushTrace looks at `stop` and sends later, so a trace may enter the channel
  after the worker drained it, although `tracer.go:313` says that no traces are lost;
  what holds is `StopDelivers`. flushSync sends without regard to `stop`
  (`tracer.go:285`) and blocks for ever if the worker exits first. Two spans started
  from one extracted context both may become the root (`spancontext.go:66`). A trace
  that the sampler rejected is not sent although ManualKeep is set (`tracer.go:581`).
  Flush may be served before traces waiting in the channel (`tracer.go:303`).
* Samplers and propagation. SpanNameServiceRule compares names exactly, so that its
  globs never match (`rules_sampler.go:157`). A trace rule of the environment with
  neither name nor service is dropped without a word. An answer of the agent without a
  default keeps the old one (`sampler.go:121`). The limit on propagated tags does not
  count separators, so a header may exceed it by two, and at the largest limit the
  receiver then refuses all tags (`textmap.go:290`). A rejection by the application's
  rate sampler is not propagated, so that the next service decides anew: a decision in the
  sense of KeepAgreed is a priority. The limiter may be set back by a request with an
  earlier time and then counts the time in between twice (`rules_sampler.go:266`):
  LimiterCounts bounds what passes by the time it has counted. The mode of SQL comments is
  what the environment holds (`contrib/database/sql/option.go:42`); for one that is not known
  commentQuery has no tags and returns an empty query (`sqlcomment.go:143`), although
  injectComments is said to return the query (`conn.go:185`). In the modes that there are the
  query arrives, which is part of KeepAgreed.
* AppSec. NewContext keeps the read lock when the C library gives it no context
  (`waf.go:236`): Close, and every Start and Stop after it, waits for ever. The test
  for a rate limit of zero looks at the default and not at the parsed value
  (`config.go:131`). The count of events is tested for equality and raised later
  (`internal/appsec/waf.go:192`), which is sound only because a gRPC call has one
  receiver. A start that fails leaves its limiter ticking.
* Limiter. Time that passes while the bucket is full is kept (`limiter.go:71`), so that
  after an idle second a burst is followed by a full refill. `RateBounded` holds.
* Integrations. The wrappers in `LeftOpen` do not defer the end of their span and lose
  it to a panic. `Lax`: mgo's Pipe evaluates the error before the call (`pipe.go:40`), the
  pipelines of redis v7 and v8 report the last error only, gocql's Iter does not ask
  the error check of the application, twirp's server does not look at the error.
  `Sticky`: with analytics switched off by option, the rate of the environment or of the
  global configuration stays (`contrib/net/http/option.go:74`); in all others it does not, and
  in all wrappers the option that switches on beats the environment and that the global rate.
  `Dangling`: database/sql sends the
  identifier of a span that is not started when the driver declines (`conn.go:132`).
  `Borrowing`: the AWS handler finishes the span it finds in the context, which is the
  caller's when the request failed before it was sent (`aws.go:77`). Chi, echo and
  negroni mark a 5xx as an error even if their status check says it is none
  (`httptrace.go:82`). mgo reads `DD_TRACE_GIN_ANALYTICS_ENABLED`. TraceAndServe appends
  to a slice of options that requests share.
* Producers. The goroutine of sarama's wrapper and the library can wait for each other
  (`sarama.go:213`); when one channel of reports is closed, what is in the other is not
  passed on (`sarama.go:224`); with successes returned and errors not, the spans of failed
  messages are never finished and stay in the map (`sarama.go:214`). confluent's Produce that fails with a delivery channel
  leaves a goroutine and a span for ever (`kafka.go:253`).
* Remote configuration. The map of a product's files is made anew for each file of the
  update (`remoteconfig.go:194`), so callbacks get the files of the last path only,
  although `remoteconfig.go:59` promises all of them. No callback is registered yet.
* Profiler and telemetry. The sender may take a zero batch from the closed queue
  (`profiler.go:406`); `maxRetries` counts requests, not retries (`upload.go:35`); the
  app-closing message is numbered before the last metrics (`client.go:231`); metrics
  that were sent stay in the map of "un-sent metrics" (`client.go:130`); the heartbeat
  posts with the lock held (`client.go:452`).

## 5. The proofs

TLAPS checks the following for every value of the constants, from the ASSUMEs of the
modules alone (finite sets of spans, positive capacities, priorities of the API, model
values that are no other value). Where a theorem needs more it says so in its statement;
these cases are named below. Each inductive invariant was an INVARIANT of a run before it
was proved.

* **TraceBuffer_proofs.** `TypeCorrect`, with `ErrorsInv` (an error flag is counted).
  `Accounting`: the four parts of Accounted are inductive only together with `BufferInv`,
  which says that while the trace is not full the buffer holds all spans that are pushed
  and not acknowledged. `LockIsFinal` is an action property, for local and extracted
  traces. `RootHoldsLock` needs `LocalRootInv`: a local root runs alone until its StartSpan
  returned, so the unsynchronised writes to `trace.root` do not race; it is assumed that
  the trace is local, because the theorem is false otherwise. `ChunksReportDecisionMaker`
  adds `ChunkTagInv`: the root leads the first chunk, and no chunk leaves before it.
  `ErrorsDecide` and `AllChunksDecided` rest on `KeepInv`: a span whose Finish has come to
  finishedOne found the decision made, or made it, if it had an error or the client may not
  drop P0s; the decision is never taken back, and a chunk has only such spans.
  `AllChunksDecided` assumes that the client may not drop P0s. `DecisionMakerIsPositive` is
  inductive by itself and assumes a local trace: an extracted one may bring a decision maker
  along with any priority.
* **TracerPipeline_proofs.** `TypeCorrect`; `TracesConserved` (Conservation is
  inductive with `WriterInv`); `StopIsClean` with `StopInv`, which bounds for each
  stage of Stop what can still be at work; `FlushIsEffective` with `FlushInv`;
  `DropsAreAccounted`, from Conservation (a trace that is dropped was not dropped before)
  and WriterInv (a request is built once, and a failed one loses at least one trace). For
  it the counters of dropped traces are the sets of the traces they count: a sum over the
  requests under way is a recursion over a set, which the provers cannot reason about.
  `PipelineImplementsDelivery`, the refinement, action by action, from Conservation.
* **Concentrator_proofs.** `TypeCorrect`, `SpansCountedOnce` and `StopIsClean` from
  `ControlInv`; `BucketsExportedWhole` from `BucketInv` and `OverInv`: a bucket that was
  exported is over, so what it gets since is late. It is why the comparison at
  `stats.go:189` must be what it is.
* **TokenTicker_proofs.** `TypeCorrect`, `Exactness` and `RateLimited`
  from one invariant: the time stamps are ordered (`StampInv`), the updater swaps only
  into a bucket that was not full (`UpdaterInv`), and IncrementPrecise. The lemma
  `IncrementFits` is about the remainder at `limiter.go:77`.
* **Profiler_proofs.** `RunInv`: profilers are made one after the other and only the
  goroutines of the active one run; goroutines of a round are over outside of it,
  pendingProfiles is the number of those whose profile is to come, and the goroutine that
  profiles the CPU owns the profiler of the runtime. From it `OneProfilerRuns` and the
  action property `CPUProfileLast`. `SenderInv` says when the sender works on the zero batch
  that it gets from a closed exit: it never posts it. `BatchesStayOrdered` adds `OrderInv`
  (queue, sender and agent are in the order of the batches, and what was evicted is older
  than the queue) and BatchOnce (`Places`: each number has one place). The eviction is two
  selects against a sender that may have drained the queue in between; the cases are apart
  in the proof.
* **Telemetry_proofs.** `RunsAreBracketed` and `MetricsAreReported` from `TimerInv` (a run
  sets off one chain of calls for each timer, so that at most as many are under way as there
  were runs), `LogInv` (the messages made are numbered without gap or repetition, and a run
  with an app-closing is over), PostedOnce (a message is in one goroutine, in the timer
  function or posted) and `Latest` (what was last said about a metric). The lemmas
  `LogGrows` and `LatestGrows` are about any log and one more message.
* **AppSec_proofs.** `InstancesAreOwned` from `CallerInv`, `InstanceInv` and `OverlapInv`:
  what each call of Start or Stop holds at each of its steps, for any number of overlapping
  calls. `ContextsAreSafe`: on top of them NoUseAfterRelease, which is about all that hold the
  read lock of a handle, is inductive with the types of operations. `EventsStayBounded` from `EventInv`: a listener that is about to
  count is below the limit, and an instance has reported to an operation at most once. It
  assumes one receiving goroutine for a call, as gRPC demands of its users; with two the
  comparison for equality can be passed by both. `AppSecTyped`.
* **DistributedTrace_proofs.** Any number of services with any lists of styles, limits, rates
  and headers. `TracesInvariant`: `PathInv` (a service works on a valid context below the one it
  was called with, and a decision maker goes with a positive priority), `FateInv` (the history
  of a path tells of the context of the service, and the end of its span), `AllAgree` (the part
  of KeepAgreed about all pairs of services; it is inductive because a service compares with the
  one before it and that with all earlier ones), `CarrierInv` (until the
  next call the headers are those the caller's context gives, and what arrived is one of the
  readings of them), `QueryInv` and `LimiterInv` are inductive with the types. From it
  * `LimiterTellsTruth`. `Tally` relates tokens and counts to the requests so far: for every
    request that passed, what passed since and the tokens left are within a burst and what
    time has brought, on a clock that is never set back: each request adds to `back` by how
    much it is earlier than the limiter's last time. The lemma `TallySpent` is about one request that is answered,
    `PeriodCounts` and `TallyPeriods` about the end of a period; the bound over a stretch of
    time is that of its last request, and is carried along in Tally.
  * `KeepingAgreed` and `TagsArriveOrNot`. `ExtractInjected` says that what the chain of
    extractors reads from what a chain of injectors wrote is the reading of the first style
    they share, `HeaderLength` and `Marshalled` how long the header of a set of tags is and
    which tags are written under a limit; the rest is one case for each style.

  The assumptions on the constants are those of the modules: the trace tags are finitely
  many, each of positive length; the values that stand for what is absent are different from
  what is present; headers, entries and rates are of their types. For the proofs the length
  of a header is the number of its characters (the provers cannot reason about a sum over a
  set) and the first extractor is the least index (instead of a recursion over the list).

  The last section is about Producers, for any finite set of messages and any room in the
  channels of the libraries: `ReportsMatched` (Matched is inductive with `HoldInv`, which relates what
  the goroutine of the wrapper holds to where it is) and `ProducersTyped`.

Only model-checked:

* All liveness (`StopReturns`, `FlushReturns`, `CallReturns`, `MetricsFlushed`, `Settles`):
  fairness is beyond the prover. `NobodyStuck` of AppSec: ENABLED.
* FinishedOnce, NothingLate, ErrorsMarked, InPlace and OptionsObeyed of Instrumentation. The
  programs of the integrations are constants, given in the modules, so that the run is
  already exhaustive.

## 6. Not modelled

* Generated code and tables: the encoders `*_msgp.go` and `*.pb.go`, the list of Google
  endpoints (`endpoints_gen.go`, a sixth of the repository), the rules of the WAF.
* Data: the statistics inside a bucket (sketches), the contents of profiles and deltas
  between them, the bytes of a payload and of the lines of the log writer, the encoding
  of values for the WAF, baggage and free tags, names of operations and resources.
* Options: they are read once at start; what modelled decisions depend on are constants
  or circumstances of their modules.
* Tests, benchmarks, the mock tracer (a test double), the OpenTracing bridge (it
  forwards each call).
* Remote configuration (only its loop, as part of an AppSec instance), the log package
  (aggregated errors and their timer), health metrics. They are small and could be
  modelled; they have not been.

## 7. Plan

1. Remote configuration: poll, update, error reporting, callbacks.
2. The log package; the size accounting of the log writer.
3. Start that replaces a running tracer, composed with the pipeline.
