-------------------------- MODULE DistributedTrace --------------------------
(***************************************************************************)
(* Traces that go from service to service: each service extracts the       *)
(* context from the headers it is called with, starts a span below it,     *)
(* decides about the trace if nobody has, and injects the context into the *)
(* headers of its own call.  The services are configured apart.            *)
(* The first one also meets the passing of time, answers of the agent with *)
(* new rates and an application that changes its sampler.                  *)
(***************************************************************************)
EXTENDS Samplers, Propagation

CONSTANTS
    Hops,           \* number of services
    Styles,         \* how a service may be configured to propagate
    Samplings,      \* how the tracer of the first service may be set up to sample
    Entries,        \* headers the first service may be called with
    Answers,        \* rates that the agent may answer with
    Rates,          \* rates that the application may set
    Modes,          \* modes of comments in SQL
    SpanRules,      \* rules for single spans
    MaxTraces,      \* bound: traces, where sampling is varied
    MaxClock,       \* bound: half seconds
    MaxAnswers,     \* bound: answers of the agent and changes of the rate
    MaxDelay        \* bound: half seconds between reading the time and being counted by the limiter

ASSUME DistributedAssumption ==
    Hops \in Nat \ {0} /\ MaxTraces \in Nat /\ MaxClock \in Nat /\ MaxAnswers \in Nat /\ MaxDelay \in Nat
ASSUME StylesAssumption ==
    /\ Styles \subseteq [b3 : BOOLEAN, inject : Seq(STRING), extract : Seq(STRING), max : Int]
    /\ Entries \subseteq Carriers
ASSUME SamplingsAssumption ==
    \A s \in Samplings : IsTracer(s) /\ s.limiter = newRateLimiter(s.limiter.limit, 0)

VARIABLES
    conf,       \* configuration of each service for propagation
    tracer,     \* samplers of each service
    far,        \* the last service of this behaviour
    clock, traces, answers,
    hop,        \* the service that the trace has reached, 0: none
    arrived,    \* the context that was extracted there
    ctx,        \* the context of its span
    carrier,    \* the headers under way
    sent,       \* the context that was injected into them
    asked,      \* what the limiter of the first service was asked and has said
    query,      \* the query that reached the database
    fate,       \* what became of the last span
    path        \* what each service so far made of the trace, a history

vars == <<conf, tracer, far, clock, traces, answers, hop, arrived, ctx, carrier, sent, asked, query, fate, path>>

AnyName == CHOOSE n \in Names : TRUE

NoQuery == [mode |-> "none", text |-> "none", tags |-> [t \in {} |-> 0]]

\* A tracer that leaves sampling to the agent.
Calm == [sampler |-> Space, rules |-> <<>>, globalRate |-> NaN, limiter |-> newRateLimiter(2, 0),
         agent |-> newPrioritySampler]

DefaultStyle == [b3 |-> FALSE, inject |-> <<>>, extract |-> <<>>, max |-> PropagationExtractMaxSize]

\* Propagation is varied over all services, or sampling in the first.
Init ==
    /\ \/ /\ conf \in [1 .. Hops -> Styles] /\ far = Hops
          /\ tracer \in {[h \in 1 .. Hops |-> IF h = 1 THEN [Calm EXCEPT !.sampler = r] ELSE Calm] : r \in Rates}
       \/ /\ conf = [h \in 1 .. Hops |-> DefaultStyle] /\ far = 1
          /\ tracer \in {[h \in 1 .. Hops |-> IF h = 1 THEN s ELSE Calm] : s \in Samplings}
    /\ clock = 0 /\ traces = 0 /\ answers = 0
    /\ hop = 0 /\ arrived = NoContext /\ ctx = NoContext /\ carrier = Empty /\ sent = NoContext
    /\ asked = <<>> /\ query = NoQuery /\ fate = "none" /\ path = <<>>

Elements(s)   == {s[i] : i \in DOMAIN s}
Injectors(h)  == getPropagators(conf[h].b3, conf[h].inject)
Extractors(h) == getPropagators(conf[h].b3, conf[h].extract)
MaxLen(h)     == MaxTagsHeaderLen(conf[h].max)

\* Bug: a service samples what its caller has decided about.
MutUndecided(c) == TRUE

\* StartSpan samples only a trace that has no priority yet.
Undecided(c) == c.priority = Absent

\* By how much a request sets the time of the limiter back, and all that were asked have.
SetBack(l, now) == l.last - Earlier(l, now)
Back(q)         == IF q = <<>> THEN 0 ELSE q[Len(q)].back

-----------------------------------------------------------------------------
(***************************************************************************)
(* tracer.StartSpan at service h, below the context that was extracted: a  *)
(* priority that it has is set again with the push of the span, a trace    *)
(* that nobody decided about is sampled, with the time that was read       *)
(* before (rules_sampler.go:266).                                          *)
(***************************************************************************)
StartSpan(h, parent, id, service, name, now) ==
    LET s      == [id |-> IF parent = NoContext THEN id ELSE parent.id, service |-> service, name |-> name]
        base   == IF parent = NoContext
                  THEN [id |-> id, span |-> h, priority |-> Absent, origin |-> "", baggage |-> FALSE,
                        tags |-> {}, failed |-> FALSE, drop |-> FALSE]
                  ELSE [parent EXCEPT !.span = h,
                            !.tags = IF parent.priority = Absent THEN @
                                     ELSE setSamplingPriority(@, parent.priority, "unknown")]
        result == sample(tracer[h], s, now)
        use    == Undecided(base)
        limited == h = 1 /\ use /\ result.limiter # tracer[h].limiter
        request == [t |-> now, ok |-> result.priority = 2, back |-> Back(asked) + SetBack(tracer[h].limiter, now)]
    IN  /\ ctx' = IF use /\ result.priority # NaN
                  THEN [base EXCEPT !.priority = result.priority,
                                    !.tags = setSamplingPriority(base.tags, result.priority, result.who)]
                  ELSE [base EXCEPT !.drop = use]
        /\ tracer' = IF use THEN [tracer EXCEPT ![h].limiter = result.limiter] ELSE tracer
        /\ asked' = IF limited THEN Append(asked, request) ELSE asked

\* A service is called: the first from outside, the others by the one before.
Serve(h, headers, id, service, name, now) ==
    /\ \E c \in Extract(Extractors(h), headers) : arrived' = c /\ StartSpan(h, c, id, service, name, now)
    /\ path' = Append(path, [id |-> ctx'.id, priority |-> ctx'.priority, manual |-> FALSE])
    /\ carrier' = headers /\ hop' = h /\ query' = NoQuery /\ fate' = "none"

\* Requests reach the limiter of the first service in any order of the times they have read.
Enter ==
    /\ hop = 0 /\ traces < IF far = 1 THEN MaxTraces ELSE 1
    /\ \E headers \in (IF far = 1 THEN {Empty} ELSE Entries), id \in 1 .. Space - 1, service \in Names, name \in Names,
          now \in {t \in 0 .. clock : clock - t <= MaxDelay} :
          /\ far > 1 => service = AnyName /\ name = AnyName
          /\ Serve(1, headers, id, service, name, now)
    /\ traces' = traces + 1 /\ sent' = NoContext
    /\ UNCHANGED <<conf, far, clock, answers>>

\* The service has made its call.
Sent == sent # NoContext /\ sent.span = hop

Arrive ==
    /\ hop > 0 /\ hop < far /\ Sent
    /\ \E id \in 1 .. Space - 1 : Serve(hop + 1, carrier, id, AnyName, AnyName, clock)
    /\ UNCHANGED <<conf, far, clock, traces, answers, sent>>

\* The service is about to call the next one.
Busy == hop > 0 /\ hop < far /\ ~Sent

\* The application: ManualKeep or ManualDrop.
Manual ==
    /\ Busy
    /\ \E p \in {-1, 2} :
          /\ ctx' = [ctx EXCEPT !.priority = p, !.tags = setSamplingPriority(@, p, "manual")]
          /\ path' = [path EXCEPT ![hop] = [id |-> ctx.id, priority |-> p, manual |-> TRUE]]
    /\ UNCHANGED <<conf, tracer, far, clock, traces, answers, hop, arrived, carrier, sent, asked, query, fate>>

\* The application: SetBaggageItem, and SetUser with or without its propagation.
Annotate ==
    /\ Busy
    /\ \/ ctx' = [ctx EXCEPT !.baggage = TRUE]
       \/ ctx' = [ctx EXCEPT !.tags = @ \cup {"usr"}]
       \/ ctx' = [ctx EXCEPT !.tags = @ \ {"usr"}]
    /\ UNCHANGED <<conf, tracer, far, clock, traces, answers, hop, arrived, carrier, sent, asked, query, fate, path>>

\* chainedPropagator.Inject into the headers of the next call.
Send ==
    /\ Busy
    /\ LET styles == Elements(Injectors(hop))
       IN  /\ carrier' = Inject(styles, ctx, MaxLen(hop))
           /\ ctx' = [ctx EXCEPT !.failed = @ \/ ("datadog" \in styles /\ MarshalFails(ctx.tags, MaxLen(hop)))]
    /\ sent' = ctx
    /\ UNCHANGED <<conf, tracer, far, clock, traces, answers, hop, arrived, asked, query, fate, path>>

Query(mode, c) ==
    LET got == SQLInject("query", mode, c, 0) IN [mode |-> mode, text |-> got.text, tags |-> got.tags]

\* The last service calls a database: the context goes into the comment of the query.
CallDB ==
    /\ hop = far /\ far > 1 /\ fate = "none" /\ query = NoQuery
    /\ \E mode \in Modes : query' = Query(mode, ctx)
    /\ UNCHANGED <<conf, tracer, far, clock, traces, answers, hop, arrived, ctx, carrier, sent, asked, fate, path>>

\* The last span is finished: a trace that is not kept may leave single spans.
FinishTrace ==
    /\ hop = far /\ fate = "none"
    /\ \E allowed \in BOOLEAN :
          fate' = IF ctx.priority # Absent /\ ctx.priority > 0 /\ ~ctx.drop THEN "kept"
                  ELSE IF SampleSpan(SpanRules, [id |-> ctx.span, service |-> AnyName, name |-> AnyName], allowed)
                       THEN "single" ELSE "dropped"
    /\ UNCHANGED <<conf, tracer, far, clock, traces, answers, hop, arrived, ctx, carrier, sent, asked, query, path>>

NextTrace ==
    /\ hop = far /\ fate # "none"
    /\ hop' = 0 /\ arrived' = NoContext /\ ctx' = NoContext /\ carrier' = Empty /\ sent' = NoContext
    /\ query' = NoQuery /\ fate' = "none" /\ path' = <<>>
    /\ UNCHANGED <<conf, tracer, far, clock, traces, answers, asked>>

Tick ==
    /\ hop = 0 /\ far = 1 /\ clock < MaxClock
    /\ clock' = clock + 1
    /\ UNCHANGED <<conf, tracer, far, traces, answers, hop, arrived, ctx, carrier, sent, asked, query, fate, path>>

\* prioritySampler.readRatesJSON: answers are read in the order in which they come.
ReadRates ==
    /\ hop = 0 /\ far = 1 /\ answers < MaxAnswers
    /\ \E a \in Answers : tracer' = [tracer EXCEPT ![1].agent = readRatesJSON(@, a)]
    /\ answers' = answers + 1
    /\ UNCHANGED <<conf, far, clock, traces, hop, arrived, ctx, carrier, sent, asked, query, fate, path>>

\* rateSampler.SetRate
SetRate ==
    /\ hop = 0 /\ far = 1 /\ answers < MaxAnswers
    /\ \E r \in Rates : tracer' = [tracer EXCEPT ![1].sampler = r]
    /\ answers' = answers + 1
    /\ UNCHANGED <<conf, far, clock, traces, hop, arrived, ctx, carrier, sent, asked, query, fate, path>>

Next == Enter \/ Arrive \/ Manual \/ Annotate \/ Send \/ CallDB \/ FinishTrace \/ NextTrace
        \/ Tick \/ ReadRates \/ SetRate

Spec == Init /\ [][Next]_vars

-----------------------------------------------------------------------------
Called == hop > 1 /\ ~Sent

\* The styles in which service h is told of the trace by the one before.
Shared(h) == (Elements(Injectors(h - 1)) \cap Elements(Extractors(h))) \ {"none"}

\* The style in which the context was read.
ReadIn == Extractors(hop)[Min({i \in DOMAIN Extractors(hop) : Extractors(hop)[i] \in Shared(hop)})]

Keeps(c)   == c.priority # Absent /\ c.priority > 0
Abides(a, b) == a.priority # Absent => b.priority # Absent /\ Keeps(b) = Keeps(a)

\* Services that are linked by shared styles work on one trace, and those after service i
\* abide by the priority that it called with, up to one whose user decides otherwise.
AllAgree ==
    \A i, j \in 1 .. Len(path) : i <= j /\ (\A k \in i + 1 .. j : Shared(k) # {}) =>
        /\ path[j].id = path[i].id
        /\ (\A k \in i + 1 .. j : ~path[k].manual) => Abides(path[i], path[j])

(* A service that shares a style with its caller continues the trace of    *)
(* the caller, below its span, and what was decided binds all services     *)
(* after it: none samples again (tracer.go:434, 486), and only ManualKeep  *)
(* or ManualDrop change it, for the services to come.  A rejection by the  *)
(* sampler of the application is no decision and is not passed on          *)
(* (textmap.go:218, 403).  What becomes of the last span is what was       *)
(* decided, a database is told the same trace and decision, and its query  *)
(* reaches it in every mode that there is; a mode that is not known leaves *)
(* no query (sqlcomment.go:58-104, 143).                                   *)
KeepAgreed ==
    /\ AllAgree
    /\ Called => IF Shared(hop) = {} THEN arrived = NoContext
                 ELSE arrived # NoContext /\ arrived.span = sent.span
    /\ fate # "none" => (fate = "kept") = Keeps(path[hop])
    /\ query # NoQuery =>
         /\ "trace" \in DOMAIN query.tags =>
              query.tags["trace"] = path[hop].id /\ query.tags["sampled"] = Keeps(path[hop])
         /\ query.mode \in {"", "disabled", "service", "full"} => query.text = "query"

(* What else a context has arrives with it in the Datadog style and does   *)
(* not in B3.  Trace tags arrive all or none: none if they are too long    *)
(* for the sender, which lets them be up to two longer than it is told to, *)
(* or for the receiver.  The decision maker never stays with a priority    *)
(* that is not positive, whoever sent the two (textmap.go:290, 364).       *)
TagsArrive ==
    /\ Called /\ Shared(hop) # {} /\ ReadIn = "datadog" =>
         LET good == sent.tags \ BadTags
             max  == MaxLen(hop - 1)
         IN  /\ arrived.origin = sent.origin /\ arrived.baggage = sent.baggage
             /\ arrived.tags \in {good, good \ {keyDecisionMaker}, {}}
             /\ HeaderLen(good) <= max => good \ {keyDecisionMaker} \subseteq arrived.tags
             /\ carrier.dd.len <= max + 2
             /\ HeaderLen(good) > max + 2 => arrived.tags = {}
    /\ Called /\ Shared(hop) # {} /\ ReadIn = "b3" => arrived.tags = {} /\ ~arrived.baggage
    /\ ctx # NoContext /\ ctx.priority # Absent /\ keyDecisionMaker \in ctx.tags => ctx.priority > 0

\* The requests among i .. j that the limiter let pass.
Passed(q, i, j) == {k \in i .. j : q[k].ok}

\* The time of a request, on a clock that was never set back.
Clocked(e) == e.t + e.back

(* The limiter tells the truth about the rate it lets pass: its counts are *)
(* those of the latest requests and of those before them, no request from  *)
(* its period on is missing in the first and none of the second before it  *)
(* in the two.  Requests may reach it in another order than they have read *)
(* the time: whatever the order, between no two requests that pass does it *)
(* let more pass than one burst and its limit over the time between them,  *)
(* where it counts time by which it was set back again                     *)
(* (rules_sampler.go:266, 396-423).                                        *)
LimiterCounts ==
    LET l == tracer[1].limiter
        n == Len(asked)
        first == n - l.seen
        older == first - l.prevSeen
    IN  /\ older >= 0
        /\ l.allowed = Cardinality(Passed(asked, first + 1, n))
        /\ l.prevAllowed = Cardinality(Passed(asked, older + 1, first))
        /\ \A k \in 1 .. n : /\ asked[k].t >= l.prevTime => k > first
                             /\ asked[k].t >= l.prevTime - Second => k > older
        /\ \A i, j \in 1 .. n : i <= j /\ asked[i].ok /\ asked[j].ok =>
             Token * Cardinality(Passed(asked, i, j))
               <= Token * l.burst + l.limit * (Clocked(asked[j]) - Clocked(asked[i]))

-----------------------------------------------------------------------------
(***************************************************************************)
(* The inductive invariants behind the properties above                    *)
(* (DistributedTrace_proofs).                                              *)
(***************************************************************************)

Requests == [t : Nat, ok : BOOLEAN, back : Nat]
Visits   == [id : Int, priority : Decisions, manual : BOOLEAN]

TypeOK ==
    /\ conf \in [1 .. Hops -> [b3 : BOOLEAN, inject : Seq(STRING), extract : Seq(STRING), max : Int]]
    /\ DOMAIN tracer = 1 .. Hops /\ \A h \in 1 .. Hops : IsTracer(tracer[h])
    /\ far \in {1, Hops} /\ hop \in 0 .. far
    /\ clock \in Nat /\ traces \in Nat /\ answers \in Nat
    /\ arrived \in Contexts \cup {NoContext} /\ ctx \in Contexts \cup {NoContext}
    /\ sent \in Contexts \cup {NoContext} /\ carrier \in Carriers
    /\ asked \in Seq(Requests) /\ path \in Seq(Visits) /\ Len(path) = hop

\* A context that headers can carry.
Valid(c) == c \in Contexts /\ c.id \notin {0, Corrupt}

\* Its decision maker goes with its priority.
Decided(c) == c.priority # Absent /\ keyDecisionMaker \in c.tags => c.priority > 0

\* The service works on a valid context of its own; the last one that was injected is its
\* own or its caller's.
PathInv ==
    /\ hop = 0 => ctx = NoContext /\ sent = NoContext
    /\ hop > 0 => Valid(ctx) /\ ctx.span = hop /\ Decided(ctx)
    /\ hop > 1 => sent # NoContext
    /\ sent # NoContext => Valid(sent) /\ sent.span > 0 /\ sent.span \in {hop - 1, hop}
    /\ Sent => sent.id = ctx.id /\ sent.priority = ctx.priority

\* The history is that of the context: of what was found out about the trace, and of what
\* became of it.
FateInv ==
    /\ hop > 0 => path[hop].id = ctx.id /\ path[hop].priority = ctx.priority
    /\ hop = far /\ ctx.drop => ctx.priority = Absent
    /\ fate # "none" => hop = far /\ (fate = "kept") = Keeps(ctx)

\* Headers hold what was injected, and a service got what can be extracted from that.
Headers(h) == Inject(Elements(Injectors(h)), sent, MaxLen(h))

CarrierInv ==
    /\ Sent => carrier = Headers(hop)
    /\ Called => carrier = Headers(hop - 1) /\ arrived \in Extract(Extractors(hop), carrier)

\* The query of the last service was made with the context that it has.
QueryInv ==
    \/ query = NoQuery
    \/ hop = far /\ ctx # NoContext /\ \E mode \in Modes : query = Query(mode, ctx)

\* What the periods of a limiter count are the last of the requests q that it was asked;
\* older ones are from before the period, or from before the second before it.  What it has
\* let pass since any that passed and what it could still let pass come from a burst and
\* the time since.
Tally(l, q) ==
    LET n == Len(q)
        w == l.last + Back(q)
    IN  /\ l.tokens <= Token * l.burst /\ l.seen + l.prevSeen <= n
        /\ n > 0 => l.seen > 0
        /\ \A i \in 1 .. n :
             /\ q[i].t < l.prevTime + Second
             /\ i <= n - l.seen => q[i].t < l.prevTime
             /\ i <= n - l.seen - l.prevSeen => q[i].t < l.prevTime - Second
        /\ \A i \in 1 .. n : q[i].ok =>
             /\ Clocked(q[i]) <= w
             /\ Token * Cardinality(Passed(q, i, n)) + l.tokens <= Token * l.burst + l.limit * (w - Clocked(q[i]))
        /\ l.allowed = Cardinality(Passed(q, n - l.seen + 1, n))
        /\ l.prevAllowed = Cardinality(Passed(q, n - l.seen - l.prevSeen + 1, n - l.seen))
        /\ \A i, j \in 1 .. n : i <= j /\ q[i].ok /\ q[j].ok =>
             Token * Cardinality(Passed(q, i, j)) <= Token * l.burst + l.limit * (Clocked(q[j]) - Clocked(q[i]))

LimiterInv ==
    /\ \A h \in 1 .. Hops : tracer[h].limiter.tokens <= Token * tracer[h].limiter.burst
    /\ Tally(tracer[1].limiter, asked)
=============================================================================
