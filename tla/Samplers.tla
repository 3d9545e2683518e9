------------------------------ MODULE Samplers ------------------------------
(***************************************************************************)
(* How a tracer decides whether a trace is kept (ddtrace/tracer/sampler.go,*)
(* rules_sampler.go and tracer.sample): the rate sampler of the            *)
(* application, the sampling rules with their limit of traces per second,  *)
(* and the rates of the agent.                                             *)
(*                                                                         *)
(* Identifiers are 0 .. Space - 1 and rates are fractions of Space (2^64   *)
(* in the code).  Time is counted in halves of a second, limits in halves  *)
(* of a trace per second, and tokens of the limiter in quarters.           *)
(***************************************************************************)
EXTENDS Integers, Sequences

CONSTANTS
    Space,          \* number of identifiers; a rate of Space keeps everything
    KnuthFactor,    \* knuthFactor
    Names,          \* names of services and of operations
    NaN             \* no rate

ASSUME SpaceAssumption == Space \in Nat \ {0, 1} /\ NaN \notin Int
\* The factor has an inverse modulo Space: it is odd and Space is a power of two.
ASSUME KnuthAssumption ==
    /\ KnuthFactor \in Nat
    /\ \A n \in 1 .. Space - 1 : (n * KnuthFactor) % Space # 0

sampledByRate(n, rate) == rate < Space => (n * KnuthFactor) % Space < rate

-----------------------------------------------------------------------------
(* Rules. A pattern is a name, "*", or empty. *)

globMatch(pattern) == IF pattern \in {"", "*"} THEN Names ELSE {pattern}

TraceRule(name, service, rate) ==
    [Service |-> Names, Name |-> Names, exactService |-> service, exactName |-> name,
     Rate |-> rate, MaxPerSecond |-> 0]
ServiceRule(service, rate)           == TraceRule("", service, rate)
NameRule(name, rate)                 == TraceRule(name, "", rate)
NameServiceRule(name, service, rate) == TraceRule(name, service, rate)
RateRule(rate)                       == TraceRule("", "", rate)

\* The pattern for the name is an exact name as well.
SpanNameServiceMPSRule(name, service, rate, limit) ==
    [Service |-> globMatch(service), Name |-> globMatch(name), exactService |-> "", exactName |-> name,
     Rate |-> rate, MaxPerSecond |-> limit]
SpanNameServiceRule(name, service, rate) == SpanNameServiceMPSRule(name, service, rate, 0)

match(rule, s) ==
    /\ s.service \in rule.Service /\ rule.exactService \in {"", s.service}
    /\ s.name \in rule.Name       /\ rule.exactName \in {"", s.name}

\* A rule that cannot be used is left out: without a rate, or with one that is out of
\* range; a rule for spans must name something, one for traces is skipped if it does not.
Usable(j) == j.rate # NaN /\ j.rate \in 0 .. Space /\ (j.service # "" \/ j.name # "")
unmarshalSamplingRules(json, type) ==
    LET Rule(j) == IF type = "span"
                   THEN [SpanNameServiceMPSRule(j.name, j.service, j.rate, j.limit) EXCEPT !.exactName = ""]
                   ELSE NameServiceRule(j.name, j.service, j.rate)
        good == SelectSeq(json, Usable)
    IN  [i \in 1 .. Len(good) |-> Rule(good[i])]

\* The environment wins over the application, its span rules over the file of span rules;
\* <<>> is a variable that is not set.
samplingRulesFromEnv(given, env, file, type) ==
    LET rules == unmarshalSamplingRules(env, type)
    IN  CASE type = "span" /\ rules = <<>> /\ file # <<>> -> unmarshalSamplingRules(file, type)
          [] env # <<>> /\ (rules # <<>> \/ type = "trace" \/ file = <<>>) -> rules
          [] OTHER -> given

\* The first rule that matches, else the rate for all traces.
RuleRate(rules, globalRate, s) ==
    LET Matching(r) == match(r, s)
        found == SelectSeq(rules, Matching)
    IN  IF found # <<>> THEN Head(found).Rate ELSE globalRate

-----------------------------------------------------------------------------
(* The limiter. *)

Second == 2

Token  == 4

\* The burst is the limit, rounded up to whole traces.
newRateLimiter(limit, now) ==
    LET burst == (limit + 1) \div 2
    IN  [limit |-> limit, burst |-> burst, tokens |-> Token * burst, last |-> now,
         prevTime |-> now, allowed |-> 0, seen |-> 0, prevAllowed |-> 0, prevSeen |-> 0]

\* rate.Limiter: tokens come at the limit and are kept up to the burst.  A time before the
\* last one brings none.
Earlier(l, now) == IF now < l.last THEN now ELSE l.last
Refill(l, now) ==
    LET t == l.tokens + l.limit * (now - Earlier(l, now))
    IN  IF t > Token * l.burst THEN Token * l.burst ELSE t

\* Bug: the counts of a period are forgotten when the next one begins.
MutPeriod(l, now) ==
    IF now - l.prevTime >= Second
    THEN [l EXCEPT !.prevAllowed = 0, !.prevSeen = 0, !.prevTime = now, !.allowed = 0, !.seen = 0]
    ELSE l

\* A second is over: its counts are those of the previous period, unless that was longer ago.
Period(l, now) ==
    LET follows == (now - l.prevTime) \div Second = 1 /\ l.seen > 0
    IN  IF now - l.prevTime >= Second
        THEN [l EXCEPT !.prevAllowed = IF follows THEN l.allowed ELSE 0,
                       !.prevSeen = IF follows THEN l.seen ELSE 0,
                       !.prevTime = now, !.allowed = 0, !.seen = 0]
        ELSE l

Allows(l, now) == Refill(l, now) >= Token

\* now was read before the limiter was locked: it may be earlier than that of a request
\* that got the lock first.  A refused request leaves the tokens to be reckoned again.
allowOne(l, now) ==
    LET p  == Period(l, now)
        ok == Allows(l, now)
    IN  [p EXCEPT !.seen = @ + 1, !.allowed = @ + IF ok THEN 1 ELSE 0,
                  !.tokens = IF ok THEN Refill(l, now) - Token ELSE @,
                  !.last = IF ok THEN now ELSE Earlier(l, now)]

-----------------------------------------------------------------------------
(* The rates of the agent. *)

newPrioritySampler == [rates |-> [s \in {} |-> 0], defaultRate |-> Space]

\* An answer replaces the table; a default it does not have stays what it was.
readRatesJSON(ps, payload) ==
    [rates |-> payload.rates,
     defaultRate |-> IF payload.default # NaN THEN payload.default ELSE ps.defaultRate]

getRate(ps, service) == IF service \in DOMAIN ps.rates THEN ps.rates[service] ELSE ps.defaultRate

-----------------------------------------------------------------------------
(* The samplers of a tracer. *)

Limiters == [limit : Nat, burst : Nat, tokens : Nat, last : Nat, prevTime : Nat, allowed : Nat, seen : Nat,
             prevAllowed : Nat, prevSeen : Nat]

IsTracer(t) ==
    DOMAIN t = {"sampler", "rules", "globalRate", "limiter", "agent"} /\ t.limiter \in Limiters

\* A decision: the priority, who gave it, and the limiter afterwards.
Give(p, who, l) == [priority |-> p, who |-> who, limiter |-> l]

\* traceRulesSampler.applyRule
applyRule(l, s, rate, now) ==
    IF ~sampledByRate(s.id, rate) THEN Give(-1, "rule", l)
    ELSE Give(IF Allows(l, now) THEN 2 ELSE -1, "rule", allowOne(l, now))

\* prioritySampler.apply
applyRate(ps, l, s) == Give(IF sampledByRate(s.id, getRate(ps, s.service)) THEN 1 ELSE 0, "agent", l)

(***************************************************************************)
(* tracer.sample on a root: the priority it is given, who gave it, and the *)
(* limiter.  A rejection by the sampler of the application gives none.     *)
(* t: sampler (a rate), rules, globalRate, limiter, agent.                 *)
(***************************************************************************)
sample(t, s, now) ==
    LET rate  == RuleRate(t.rules, t.globalRate, s)
    IN  IF ~sampledByRate(s.id, t.sampler) THEN Give(NaN, "drop", t.limiter)
        ELSE IF rate # NaN THEN applyRule(t.limiter, s, rate, now)
        ELSE applyRate(t.agent, t.limiter, s)

\* SampleSpan: a span of a trace that is not kept may be kept by itself, by the first rule
\* that matches; its limiter is asked last.
SampleSpan(rules, s, allowed) ==
    LET Matching(r) == match(r, s)
        found == SelectSeq(rules, Matching)
    IN  found # <<>> /\ sampledByRate(s.id, Head(found).Rate) /\ (Head(found).MaxPerSecond = 0 \/ allowed)
=============================================================================
