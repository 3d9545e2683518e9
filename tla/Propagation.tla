----------------------------- MODULE Propagation -----------------------------
(***************************************************************************)
(* How the context of a span travels: into and out of the headers of a     *)
(* request (ddtrace/tracer/textmap.go) in the Datadog and the B3 style,    *)
(* and into the comment of an SQL query (sqlcomment.go).                   *)
(*                                                                         *)
(* A context is a record: id of the trace, span, priority, origin,         *)
(* baggage, tags (the trace tags that are propagated, a set), failed (the  *)
(* trace is tagged with a propagation error) and drop (the sampler of the  *)
(* application rejected the trace).  A carrier has one field per style.    *)
(***************************************************************************)
EXTENDS Integers, Sequences, FiniteSets, FiniteSetsExt

CONSTANTS
    TagLen,                     \* length of key and value of each trace tag
    BadTags,                    \* tags with characters that headers do not take
    PropagationExtractMaxSize,  \* propagationExtractMaxSize
    Absent,                     \* a header or a priority that is not there
    NoContext                   \* nothing was extracted

\* The decision maker tag.
keyDecisionMaker == "dm"

\* A context, and what headers of each style hold.
Tags            == DOMAIN TagLen
Origins         == {"", "synthetics", "other"}
Decisions       == Int \cup {Absent}
Contexts        == [id : Int, span : Int, priority : Decisions, origin : Origins, baggage : BOOLEAN,
                    tags : SUBSET Tags, failed : BOOLEAN, drop : BOOLEAN]
DatadogHeaders  == [id : Int, parent : Int, priority : Decisions, origin : Origins, baggage : BOOLEAN,
                    tags : SUBSET Tags, len : Nat, sound : BOOLEAN]
B3Headers       == [id : Int, parent : Int, priority : Decisions]
Carriers        == [dd : DatadogHeaders \cup {Absent}, b3 : B3Headers \cup {Absent}]
Empty           == [dd |-> Absent, b3 |-> Absent]

ASSUME PropagationAssumption ==
    /\ IsFiniteSet(Tags) /\ \A t \in Tags : TagLen[t] \in Nat \ {0}
    /\ BadTags \subseteq Tags /\ {keyDecisionMaker, "usr"} \subseteq Tags
    /\ PropagationExtractMaxSize \in Nat
ASSUME AbsentAssumption ==
    Absent \notin Int \cup DatadogHeaders \cup B3Headers /\ NoContext \notin Contexts

\* trace.setSamplingPriorityLocked; the locking of the priority is in TraceBuffer.
setSamplingPriority(tags, p, who) ==
    IF p > 0 /\ who # "unknown" THEN tags \cup {keyDecisionMaker}
    ELSE IF p > 0 THEN tags ELSE tags \ {keyDecisionMaker}

-----------------------------------------------------------------------------
(* The styles that are used: a flag of the configuration and a list from   *)
(* the environment, one for each direction.                                *)

\* A name that is not known, or a second "b3", stands for no propagator.
Named(b3, v) == IF v = "datadog" \/ (v = "b3" /\ ~b3) THEN v ELSE "none"

getPropagators(b3, env) ==
    LET flag == IF b3 THEN <<"b3">> ELSE <<>>
        list == [i \in DOMAIN env |-> Named(b3, env[i])]
    IN  IF env = <<>> \/ (~b3 /\ \A i \in DOMAIN env : list[i] = "none")
        THEN <<"datadog">> \o flag ELSE flag \o list

-----------------------------------------------------------------------------
(* The Datadog style. *)

\* The length of trace tags that the environment allows, within what a receiver takes.
MaxTagsHeaderLen(env) ==
    IF env < 0 THEN 0 ELSE IF env > PropagationExtractMaxSize THEN PropagationExtractMaxSize ELSE env

\* The characters of keys and values: a tag and a position in it.
Characters(tags) == UNION {{t} \X (1 .. TagLen[t]) : t \in tags}

\* The length of a header with these tags: key=value, separated by commas.
HeaderLen(tags) ==
    IF tags = {} THEN 0 ELSE Cardinality(Characters(tags)) + 2 * Cardinality(tags) - 1

\* marshalPropagatingTags, in whatever order the map is walked: a tag is refused when what
\* is written so far and the tag, without their separators, are too long, and then all are.
TooLong(tags, max) ==
    tags # {} /\ HeaderLen(tags) - (IF Cardinality(tags) = 1 THEN 1 ELSE 2) > max

\* Bug: the tags that were written before the limit was met are sent.
MutMarshalPropagatingTags(tags, max) ==
    LET fitting == {t \in SUBSET (tags \ BadTags) : ~TooLong(t, max)}
    IN  IF max = 0 THEN {} ELSE CHOOSE t \in fitting : \A u \in fitting : Cardinality(u) <= Cardinality(t)

marshalPropagatingTags(tags, max) ==
    IF max = 0 \/ TooLong(tags \ BadTags, max) THEN {} ELSE tags \ BadTags

\* An error is noted for a tag that is refused.
MarshalFails(tags, max) == max > 0 /\ (tags \cap BadTags # {} \/ TooLong(tags \ BadTags, max))

InjectDatadog(ctx, max) ==
    [id |-> ctx.id, parent |-> ctx.span, priority |-> ctx.priority, origin |-> ctx.origin,
     baggage |-> ctx.baggage, tags |-> marshalPropagatingTags(ctx.tags, max),
     len |-> HeaderLen(marshalPropagatingTags(ctx.tags, max)), sound |-> TRUE]

\* unmarshalPropagatingTags: a header that is too long or malformed brings nothing.
Unmarshalled(h) == IF h.len > PropagationExtractMaxSize \/ ~h.sound THEN {} ELSE h.tags

\* The headers are read in any order: the tags replace those there are, and a priority
\* that is not positive takes the decision maker out of them.
TagOrders(h) ==
    {Unmarshalled(h)} \cup
    (IF h.priority = Absent THEN {} ELSE {setSamplingPriority(Unmarshalled(h), h.priority, "unknown")})

ExtractDatadog(h) ==
    IF h = Absent \/ h.id = 0 \/ (h.parent = 0 /\ h.origin # "synthetics") THEN {NoContext}
    ELSE {[id |-> h.id, span |-> h.parent, priority |-> h.priority, origin |-> h.origin,
           baggage |-> h.baggage, tags |-> tags, drop |-> FALSE,
           failed |-> h.len > PropagationExtractMaxSize \/ ~h.sound] :
           tags \in TagOrders(h)}

-----------------------------------------------------------------------------
(* The B3 style: identifiers, and whether the trace is kept. *)

InjectB3(ctx) ==
    [id |-> ctx.id, parent |-> ctx.span,
     priority |-> IF ctx.priority = Absent THEN Absent ELSE IF ctx.priority >= 1 THEN 1 ELSE 0]

ExtractB3(h) ==
    IF h = Absent \/ h.id = 0 \/ h.parent = 0 THEN {NoContext}
    ELSE {[id |-> h.id, span |-> h.parent, priority |-> h.priority, origin |-> "", baggage |-> FALSE,
           tags |-> {}, failed |-> FALSE, drop |-> FALSE]}

-----------------------------------------------------------------------------
(* The chain: all injectors write; the first extractor that finds a        *)
(* context is taken, one that finds a corrupted one ends the search.       *)

Inject(styles, ctx, max) ==
    [dd |-> IF "datadog" \in styles THEN InjectDatadog(ctx, max) ELSE Absent,
     b3 |-> IF "b3" \in styles THEN InjectB3(ctx) ELSE Absent]

ExtractStyle(style, carrier) ==
    CASE style = "datadog" -> ExtractDatadog(carrier.dd)
      [] style = "b3" -> ExtractB3(carrier.b3)
      [] OTHER -> {NoContext}

\* A value that is no number.
Corrupt == -1
Corrupted(style, carrier) ==
    \/ style = "datadog" /\ carrier.dd # Absent /\ carrier.dd.id = Corrupt
    \/ style = "b3" /\ carrier.b3 # Absent /\ carrier.b3.id = Corrupt

Extract(styles, carrier) ==
    LET ending == {i \in DOMAIN styles : \/ Corrupted(styles[i], carrier)
                                         \/ ExtractStyle(styles[i], carrier) # {NoContext}}
    IN  IF ending = {} \/ Corrupted(styles[Min(ending)], carrier) THEN {NoContext}
        ELSE ExtractStyle(styles[Min(ending)], carrier)

-----------------------------------------------------------------------------
(***************************************************************************)
(* SQLCommentCarrier.Inject: what the query becomes.  Without a trace the  *)
(* identifier of the span to come stands for it.  A mode that is not known *)
(* gives no tags, and without tags there is no query.                      *)
(***************************************************************************)
commentQuery(query, tags) == IF DOMAIN tags = {} THEN [text |-> "", tags |-> tags] ELSE [text |-> query, tags |-> tags]

SQLInject(query, mode, ctx, spanID) ==
    CASE mode \in {"", "disabled"} -> [text |-> query, tags |-> [t \in {} |-> 0]]
      [] mode = "service" -> commentQuery(query, [t \in {"dddbs"} |-> TRUE])
      [] mode = "full" ->
           commentQuery(query, [t \in {"dddbs", "trace", "span", "sampled"} |->
               CASE t = "trace"   -> IF ctx = NoContext THEN spanID ELSE ctx.id
                 [] t = "span"    -> spanID
                 [] t = "sampled" -> ctx # NoContext /\ ctx.priority # Absent /\ ctx.priority > 0
                 [] OTHER -> TRUE])
      [] OTHER -> commentQuery(query, [t \in {} |-> 0])
=============================================================================
