--------------------------- MODULE Instrumentation ---------------------------
(***************************************************************************)
(* A wrapper of contrib/ at work: one call of the application, under some  *)
(* circumstances, with some outcome.  The instructions of the wrapper are  *)
(* carried out one by one; deferred code runs when the wrapper is left,    *)
(* the last first, and also when the call panics.                          *)
(***************************************************************************)
EXTENDS Sequences, Naturals, Wrapper

CONSTANTS
    Wrappers,   \* the wrappers, by name
    LeftOpen,   \* those that do not defer the end of their span
    Lax,        \* those that do not look at how the call ended, or do not ask
    Sticky,     \* those that analytics cannot be switched off for
    Dangling,   \* those that may send the identifier of a span that is not started
    Borrowing   \* those that may finish a span of their caller

VARIABLES
    who,        \* the wrapper
    circ,       \* the circumstances of the call
    outcome,    \* how the call will end
    code,       \* instructions that are left
    defers,     \* deferred blocks, the last first
    mode,       \* running, unwinding (a panic) or done
    span,       \* the span: none, open or finished
    parent,     \* where its parent was found
    error,      \* it is marked as an error
    harmed,     \* a span of the caller was finished
    late,       \* tags or an error were set too late
    finishes,   \* how often it was finished
    carried,    \* what is sent carries its context
    seen,       \* what the traced call saw
    rate,       \* source of its analytics rate
    service     \* source of its service name

spanVars == <<span, parent, error, harmed, late, finishes, carried, rate, service>>
vars == <<who, circ, outcome, code, defers, mode, seen, spanVars>>

\* Around the call: it is to be ignored, the context holds a span, the request carries a
\* context, AppSec is enabled, the status check of the application finds no errors.
Around == {"ignored", "parent", "headers", "appsec", "lenient"}
\* At configuration: options and what they compete with.
Configured == {"on", "off", "env", "global rate", "service", "global service"}

Wrapped == Wrappers[who]

\* The circumstances are varied, or the configuration is.
Init ==
    /\ who \in DOMAIN Wrappers
    /\ \/ circ \in SUBSET Around /\ outcome \in Wrappers[who].ends
       \/ circ \in {c \in SUBSET Configured : ~({"on", "off"} \subseteq c)} /\ outcome = "ok"
    /\ code = Wrappers[who].code
    /\ defers = <<>> /\ mode = "running"
    /\ span = "none" /\ parent = "none" /\ error = FALSE /\ harmed = FALSE /\ late = FALSE /\ finishes = 0
    /\ carried = FALSE /\ rate = "none" /\ service = "none"
    /\ seen = {}

\* What the conditions of instructions are about.
Holds == {outcome} \cup circ \cup
         (IF outcome = "5xx" /\ "lenient" \notin circ THEN Checked ELSE {}) \cup
         (IF "ignored" \in circ /\ "parent" \notin circ THEN {"orphan"} ELSE {})

Next_(op) == /\ mode = "running" /\ code # <<>> /\ Head(code).op = op
Met == Head(code).when \cap Holds # {}

\* The first source of a configuration that says something.
Decide(sources, says(_)) ==
    LET saying == SelectSeq(sources, says) IN IF saying = <<>> THEN "none" ELSE Head(saying)

RateSays(s) == CASE s \in {"option", "unsetting"} -> "on" \in circ \/ "off" \in circ
                 [] s = "enabling" -> "on" \in circ
                 [] s = "env"      -> "env" \in circ
                 [] s = "global"   -> "global rate" \in circ
                 [] OTHER -> FALSE

ServiceSays(s) == CASE s = "option" -> "service" \in circ
                    [] s = "global" -> "global service" \in circ
                    [] OTHER -> TRUE

\* The rate with which a span of this configuration is tagged: an option may switch it off.
RateOf(config) ==
    LET s == Decide(config.rate, RateSays)
    IN  CASE s \in {"option", "enabling", "unsetting"} /\ "on" \in circ -> "option"
          [] s = "option" /\ "off" \in circ -> "none"
          [] s = "unsetting" /\ "off" \in circ -> IF "global rate" \in circ THEN "global" ELSE "none"
          [] OTHER -> s

\* A span in the context of the call comes before one that the request carries.
ParentOf(places) ==
    IF "context" \in places /\ "parent" \in circ THEN "context"
    ELSE IF "headers" \in places /\ "headers" \in circ THEN "headers"
    ELSE "none"

-----------------------------------------------------------------------------
DoBypass ==
    /\ Next_("bypass")
    /\ code' = IF Met THEN Head(code).code ELSE Tail(code)
    /\ UNCHANGED <<who, circ, outcome, defers, mode, seen, spanVars>>

\* StartSpanFromContext, or StartSpan with the parent that was extracted.
DoStart ==
    /\ Next_("start")
    /\ span' = "open"
    /\ parent' = ParentOf(Head(code).when)
    /\ rate' = RateOf(Wrapped.config)
    /\ service' = Decide(Wrapped.config.service, ServiceSays)
    /\ code' = Tail(code)
    /\ UNCHANGED <<who, circ, outcome, defers, mode, seen, error, harmed, late, finishes, carried>>

DoInject ==
    /\ Next_("inject")
    /\ carried' = (span # "none" \/ Head(code).when # {})
    /\ code' = Tail(code)
    /\ UNCHANGED <<who, circ, outcome, defers, mode, seen, span, parent, error, harmed, late, finishes, rate, service>>

\* The call sees the span in its context, and what is sent carries it.  Code of a handler
\* around it runs when it is left.
DoCall ==
    /\ Next_("call")
    /\ seen' = {"called"} \cup (IF span = "open" THEN {"open"} ELSE {})
                          \cup (IF Head(code).when # {} THEN {"context"} ELSE {})
                          \cup (IF carried THEN {"carried"} ELSE {})
    /\ IF outcome = "panic"
       THEN mode' = "unwinding" /\ code' = <<>> /\ defers' = <<Head(code).code>> \o defers
       ELSE code' = Head(code).code \o Tail(code) /\ UNCHANGED <<mode, defers>>
    /\ UNCHANGED <<who, circ, outcome, spanVars>>

\* SetTag: a span that is finished takes no more tags.
DoTag ==
    /\ Next_("tag")
    /\ late' = (late \/ (Met /\ span # "open"))
    /\ code' = Tail(code)
    /\ UNCHANGED <<who, circ, outcome, defers, mode, seen, span, parent, error, harmed, finishes, carried, rate, service>>

DoError ==
    /\ Next_("error")
    /\ error' = (error \/ (Met /\ span = "open"))
    /\ late' = (late \/ (Met /\ span # "open"))
    /\ code' = Tail(code)
    /\ UNCHANGED <<who, circ, outcome, defers, mode, seen, span, parent, harmed, finishes, carried, rate, service>>

\* Finish, with the error that is among its options; a second Finish does nothing.
DoFinish ==
    /\ Next_("finish")
    /\ span' = "finished"
    /\ finishes' = finishes + 1
    /\ error' = (error \/ (Met /\ span = "open"))
    /\ code' = Tail(code)
    /\ UNCHANGED <<who, circ, outcome, defers, mode, seen, parent, harmed, late, carried, rate, service>>

\* The span that is found may be the one of the caller.
DoFinishFound ==
    /\ Next_("finish found")
    /\ harmed' = (harmed \/ (span = "none" /\ "parent" \in circ))
    /\ IF span = "open"
       THEN span' = "finished" /\ finishes' = finishes + 1 /\ error' = (error \/ Met)
       ELSE UNCHANGED <<span, finishes, error>>
    /\ code' = Tail(code)
    /\ UNCHANGED <<who, circ, outcome, defers, mode, seen, parent, late, carried, rate, service>>

DoDefer ==
    /\ Next_("defer")
    /\ defers' = <<Head(code).code>> \o defers
    /\ code' = Tail(code)
    /\ UNCHANGED <<who, circ, outcome, mode, seen, spanVars>>

DoIf ==
    /\ Next_("if")
    /\ code' = (IF Met THEN Head(code).code ELSE <<>>) \o Tail(code)
    /\ UNCHANGED <<who, circ, outcome, defers, mode, seen, spanVars>>

\* What a call began ends after the wrapper was left.
DoLater ==
    /\ Next_("later")
    /\ defers' = Append(defers, Head(code).code)
    /\ code' = Tail(code)
    /\ UNCHANGED <<who, circ, outcome, mode, seen, spanVars>>

\* SetAppSecTags now, and when the operation is over the tags of it and of its security
\* events: useAppSec has the wrapper defer that, httpsec.WrapHandler defers it itself.
DoAppSec ==
    /\ Next_("appsec")
    /\ LET on     == "appsec" \in circ
           tags   == IF on THEN <<Tag(Always)>> ELSE <<>>
           around == Head(code).when # {}
       IN  /\ defers' = IF on /\ ~around THEN <<tags>> \o defers ELSE defers
           /\ code' = tags \o (IF around THEN <<Do("call", {"context"}, tags)>> ELSE <<>>) \o Tail(code)
    /\ UNCHANGED <<who, circ, outcome, mode, seen, spanVars>>

\* The wrapper is left: deferred code first.
Leave ==
    /\ code = <<>> /\ mode \in {"running", "unwinding"}
    /\ IF defers # <<>>
       THEN code' = Head(defers) /\ defers' = Tail(defers) /\ mode' = "running"
       ELSE mode' = "done" /\ UNCHANGED <<code, defers>>
    /\ UNCHANGED <<who, circ, outcome, seen, spanVars>>

Next == DoBypass \/ DoStart \/ DoInject \/ DoCall \/ DoTag \/ DoError \/ DoFinish \/ DoFinishFound
        \/ DoDefer \/ DoLater \/ DoIf \/ DoAppSec \/ Leave

Spec == Init /\ [][Next]_vars

-----------------------------------------------------------------------------
Done == mode = "done"
Traced == span # "none"

(* When a wrapper is left, by whatever way, its span has been finished,    *)
(* and finished once, and no other span has: an error, an early return or  *)
(* a panic of the call must neither lose it nor finish it again.  LeftOpen *)
(* are the wrappers that lose it to a panic, Borrowing those that take a   *)
(* span of the caller for theirs.                                          *)
FinishedOnce ==
    Done => /\ Traced => finishes = IF outcome = "panic" /\ who \in LeftOpen THEN 0 ELSE 1
            /\ harmed => who \in Borrowing

(* Nothing is said of a span after it is finished, when it would be lost:  *)
(* deferred functions run in the right order, those of AppSec among them.  *)
NothingLate == ~late

(* A call that failed is marked as an error and one that went well is not; *)
(* an error that the wrapper or the application excuses is none.  Lax are  *)
(* the wrappers that do not look, or do not ask.                           *)
ErrorsMarked ==
    Done /\ Traced /\ outcome # "panic" /\ who \notin Lax =>
        /\ outcome \in {"fails", "partly"} => error
        /\ outcome = "5xx" /\ "lenient" \notin circ => error
        /\ outcome \in {"ok", "excused"} => ~error

(* The span is where it belongs: the call runs while it is open, below the *)
(* span of the context, else below the one the request carries; whatever   *)
(* is sent carries the context of this span, and never the identifier of a *)
(* span that does not come to be.                                          *)
InPlace ==
    /\ "called" \in seen /\ Traced => "open" \in seen \/ "after" \in Wrapped.kind
    /\ Done /\ Traced =>
         /\ "parent" \in circ /\ "context" \in Wrapped.kind => parent = "context"
         /\ "headers" \in circ /\ "serves" \in Wrapped.kind => parent # "none"
         /\ "sends" \in Wrapped.kind => "carried" \in seen
    /\ Done /\ carried /\ outcome # "panic" => Traced \/ who \in Dangling
    /\ Done => "called" \in seen

(* Whatever the order in which a wrapper asks its sources: an option beats *)
(* the environment and that beats the global rate, one that switches off   *)
(* leaves no rate, and without any there is none; a service name that is   *)
(* given beats the global one and that beats a name of the wrapper's own.  *)
(* Sticky are the wrappers where another source survives being switched    *)
(* off.                                                                    *)
OptionsObeyed ==
    Done /\ Traced =>
        LET Sources(list) == {list[i] : i \in DOMAIN list}
            rates  == Sources(Wrapped.config.rate)
            names  == Sources(Wrapped.config.service)
            chosen == {"on", "off"} \cap circ # {} /\ rates \cap {"option", "enabling", "unsetting"} # {}
            named  == "given" \in names \/ ("service" \in circ /\ "option" \in names)
        IN  /\ chosen /\ "on" \in circ => rate = "option"
            /\ chosen /\ "off" \in circ /\ rate # "none" => who \in Sticky /\ {"env", "global rate"} \cap circ # {}
            /\ ~chosen => rate = IF "env" \in circ \cap rates THEN "env"
                               ELSE IF "global rate" \in circ /\ "global" \in rates THEN "global" ELSE "none"
            /\ named => service \in {"option", "given"}
            /\ ~named /\ "global service" \in circ /\ "global" \in names => service = "global"
=============================================================================
