------------------------- MODULE MCDistributedTrace -------------------------
EXTENDS DistributedTrace

\* Lengths of the decision maker, a user, a tag of a foreign tracer and one with bad characters.
TagLengths == [dm |-> 4, usr |-> 3, far |-> 3, bad |-> 2]

Style(b3, inject, extract, max) == [b3 |-> b3, inject |-> inject, extract |-> extract, max |-> max]

\* By default; an unknown style, alone and in a list; with the flag, and no tags; B3 alone;
\* lists in either order.  Few tags, and as many as the receiver takes or more.
StyleSet == {
    Style(FALSE, <<>>, <<>>, 99), Style(FALSE, <<"other">>, <<"datadog", "other">>, 8),
    Style(TRUE, <<>>, <<"other">>, -1), Style(FALSE, <<"b3">>, <<"b3">>, 13),
    Style(FALSE, <<"datadog", "b3">>, <<"b3", "datadog">>, 13)}

Foreign == [id |-> 2, parent |-> 1, priority |-> 1, origin |-> "", baggage |-> FALSE, tags |-> {"dm", "far"}, len |-> 10, sound |-> TRUE]

\* A trace that begins here; from a foreign tracer, with a tag that cannot be passed on, with
\* tags that cannot be parsed or are too long, rejected, undecided, corrupted; of a test.
EntrySet == {
    Empty, [dd |-> Foreign, b3 |-> Absent],
    [dd |-> [Foreign EXCEPT !.tags = {"dm", "bad"}, !.len = 9, !.priority = 0], b3 |-> Absent],
    [dd |-> [Foreign EXCEPT !.sound = FALSE], b3 |-> Absent],
    [dd |-> [Foreign EXCEPT !.id = Corrupt], b3 |-> [id |-> 2, parent |-> 1, priority |-> 1]],
    [dd |-> [Foreign EXCEPT !.parent = 0, !.origin = "synthetics", !.tags = {}, !.len = 0], b3 |-> Absent],
    [dd |-> Absent, b3 |-> [id |-> 2, parent |-> 1, priority |-> Absent]]}

JSON(service, name, rate) == [service |-> service, name |-> name, rate |-> rate, limit |-> 0]

\* Rules of the application, of the environment, a rate for all traces, and a limit of one
\* trace and a half in a second.
SamplingSet == {
    Calm,
    [Calm EXCEPT !.rules = <<NameServiceRule("a", "b", 0), ServiceRule("a", 2)>>, !.agent.defaultRate = 2],
    [Calm EXCEPT !.rules = samplingRulesFromEnv(<<NameRule("a", 0)>>, <<JSON("", "", 1), JSON("b", "", 3)>>, <<>>, "trace"),
                 !.globalRate = Space],
    [Calm EXCEPT !.rules = <<RateRule(Space)>>, !.limiter = newRateLimiter(3, 0)]}

SpanRuleSet == samplingRulesFromEnv(<<SpanNameServiceRule("*", "a", Space)>>, <<JSON("a", "*", 5)>>, <<JSON("a", "a", 2)>>, "span")

AnswerSet == {[rates |-> [s \in {"a"} |-> 2], default |-> 0], [rates |-> [s \in {} |-> 0], default |-> NaN]}
=============================================================================
