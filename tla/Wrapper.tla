------------------------------- MODULE Wrapper -------------------------------
(***************************************************************************)
(* The vocabulary in which the wrappers of third-party libraries           *)
(* (contrib/) are written down: what a wrapper does around the call that   *)
(* it traces, in the order in which it does it.  What becomes of the span  *)
(* is in Instrumentation.                                                  *)
(*                                                                         *)
(* The call that is traced ends in one of the Outcomes: it answers, it     *)
(* answers with a status of the 4xx or 5xx class, it returns an error, the *)
(* first of several commands fails and the last does not (or what the call *)
(* began fails after it), it returns an error that the wrapper or the      *)
(* application excuses (the end of a stream, a miss in a cache), it        *)
(* declines in favour of another call, it panics.                          *)
(***************************************************************************)
LOCAL INSTANCE Sequences

Outcomes == {"ok", "4xx", "5xx", "fails", "partly", "excused", "skips", "panic"}
Always   == Outcomes
Never    == {}

\* An instruction: what to do, under which outcomes or circumstances, and a block of code.
Do(op, when, code) == [op |-> op, when |-> when, code |-> code]

\* Starts the span.  Its parent is looked for in these places.
Start(places) == Do("start", places, <<>>)
\* Writes the context of the span into what is sent.
Inject        == Do("inject", {}, <<>>)
\* Writes the identifier of the span that is yet to be started.
InjectAhead   == Do("inject", {"ahead"}, <<>>)
\* The call itself, to which the context with the span is handed.
Call          == Do("call", {"context"}, <<>>)
\* The call itself; the library has no context to hand the span on.
CallWithout   == Do("call", {}, <<>>)
\* Does something else under one of the circumstances: mostly, to leave the call untraced.
Otherwise(when, code) == Do("bypass", when, code)
Bypass(when)  == Otherwise(when, <<CallWithout>>)
\* Sets tags of the span under these outcomes.
Tag(when)     == Do("tag", when, <<>>)
\* Marks the span as an error under these outcomes.
Error(when)   == Do("error", when, <<>>)
\* Finishes the span, with an error under these outcomes.
Finish(when)  == Do("finish", when, <<>>)
\* Finishes whatever span is in the context of the call.
FinishFound(when) == Do("finish found", when, <<>>)
\* Runs the code when the wrapper is left, also by a panic.
Defer(code)   == Do("defer", {}, code)
\* Runs the code in a goroutine that waits for the end of what the call began.
Later(code)   == Do("later", {}, code)
\* Runs the code under these outcomes only.
If(when, code) == Do("if", when, code)
\* The 5xx class, where an option may replace the test of the status.
Checked       == {"5xx checked"}
\* Has AppSec watch the rest of the wrapper, if it is enabled: the tags of its operation
\* are set when the wrapper is left.
AppSec        == Do("appsec", {}, <<>>)
\* The call inside a handler of AppSec, if it is enabled: the tags of the operation are set
\* when the call is left.
AppSecCall    == Do("appsec", {"context"}, <<>>)

(***************************************************************************)
(* A wrapper: what kind of call it traces, how that may end, where the     *)
(* configuration comes from, and the code.  Features of a kind:            *)
(*   context   a context with a span may reach it;                         *)
(*   serves    what it serves may carry the context of a caller;           *)
(*   sends     what it sends is to carry the context of its span;          *)
(*   after     the span is started after the call, and dated back.         *)
(***************************************************************************)
Wrap(kind, ends, config, code) == [kind |-> kind, ends |-> ends, config |-> config, code |-> code]

Handler == {"context", "serves"}
Sender  == {"context", "sends"}
Plain   == {"context"}
After   == {"context", "after"}
Alone   == {}

\* How HTTP handlers, HTTP requests and calls of a library end.
Served   == {"ok", "4xx", "5xx", "panic"}
Answered == {"ok", "4xx", "5xx", "fails", "panic"}
Returned == {"ok", "fails", "panic"}
Excusing == {"ok", "fails", "excused", "panic"}

(***************************************************************************)
(* A configuration: the sources of the analytics rate and of the service   *)
(* name, the one that wins first.                                          *)
(*   option    an option of the integration (WithAnalytics,                *)
(*             WithAnalyticsRate, WithServiceName); off, or a rate out of  *)
(*             range, is a choice too;                                     *)
(*   enabling  such an option when switching off does not undo what the    *)
(*             other sources said;                                         *)
(*   unsetting such an option when switching off leaves the global one;    *)
(*   env       the environment variable of the integration: rate 1;        *)
(*   global    the tracer's analytics rate or service name;                *)
(*   own       a name of the integration's own;                            *)
(*   given     a name that is an argument;                                 *)
(*   fixed     a name that nothing changes.                                *)
(***************************************************************************)
Config(rate, service) == [rate |-> rate, service |-> service]

Usual == <<"option", "env", "global">>
\* Integrations that leave the global rate, and the global name, aside.
Own        == Config(<<"option", "env">>, <<"option", "own">>)
OwnRate    == <<"option", "env">>
GlobalService == <<"option", "global", "own">>
Unconfigured == Config(<<>>, <<>>)
=============================================================================
