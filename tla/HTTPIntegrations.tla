-------------------------- MODULE HTTPIntegrations --------------------------
(***************************************************************************)
(* The wrappers of HTTP servers and clients (contrib/net/http, the routers *)
(* that build on it, twirp, kubernetes).                                   *)
(***************************************************************************)
EXTENDS Sequences, Wrapper

\* httptrace.StartRequestSpan: the context a request carries is a parent, a span in the
\* context of the request comes first.
StartRequest == Start({"headers", "context"})

\* httptrace.FinishRequestSpan marks the outcomes whose status is in the fives, whatever
\* the status check of the wrapper said.
FinishRequest(fives, opts) == <<Tag(Always), Error(fives), Finish(opts)>>

-----------------------------------------------------------------------------
\* net/http
TraceAndServe(bypass, config) ==
    Wrap(Handler, Served, config,
         bypass \o <<StartRequest, Defer(FinishRequest({"5xx"}, Never)), AppSecCall>>)

\* The rate is among the span options before the options of the mux are applied.
ServeMuxConfig == Config(<<"enabling", "env", "global">>, GlobalService)
ServeMux       == TraceAndServe(<<Bypass({"ignored"})>>, ServeMuxConfig)
WrapHandler    == TraceAndServe(<<Bypass({"ignored"})>>, Config(<<"enabling", "env", "global">>, <<"given">>))

RoundTripperConfig == Config(<<"option", "global">>, <<"option">>)
RoundTrip(before) ==
    <<Bypass({"ignored"}), Start({"context"}), Defer(<<Tag(Always), Finish({"fails"})>>)>> \o before \o
    <<Inject, Call, Tag(Always), Error({"fails", "5xx"})>>
RoundTripper == Wrap(Sender, Answered, RoundTripperConfig, RoundTrip(<<>>))

\* k8s.io/client-go: the resource and the audit identifier are set before the request is sent.
Kubernetes == Wrap(Sender, Answered, RoundTripperConfig, RoundTrip(<<Tag(Always)>>))

-----------------------------------------------------------------------------
\* Routers that serve through TraceAndServe.
MuxConfig        == Config(Usual, GlobalService)
Mux              == TraceAndServe(<<Bypass({"ignored"})>>, MuxConfig)
HTTPRouterConfig == Config(Usual, GlobalService)
HTTPRouter       == TraceAndServe(<<>>, HTTPRouterConfig)
GojiConfig       == Config(Usual, <<"option", "own">>)
Goji             == TraceAndServe(<<>>, GojiConfig)

\* Bug: the environment comes before the options.
MutGinConfig == Config(<<"env", "option", "global">>, <<"given", "global", "own">>)

\* gin
GinConfig == Config(Usual, <<"given", "global", "own">>)
GinAppSec == AppSec

\* Bug: the span is finished before AppSec has set its tags.
MutGin ==
    Wrap(Handler, Served, GinConfig,
         <<Bypass({"ignored"}), StartRequest, GinAppSec, Defer(FinishRequest({"5xx"}, Never)), Call, Tag(Always)>>)

Gin ==
    Wrap(Handler, Served, GinConfig,
         <<Bypass({"ignored"}), StartRequest, Defer(FinishRequest({"5xx"}, Never)), GinAppSec, Call, Tag(Always)>>)

\* gin.HTML: a panic of the template is recovered, recorded and raised again.
GinHTML ==
    Wrap(Plain, {"ok", "panic"}, Unconfigured,
         <<Start({"context"}), Tag(Always), Defer(<<Finish({"panic"})>>), CallWithout>>)

\* echo: an error of the handler counts as a 500, unless it is an echo.HTTPError of the
\* 4xx class: then it is excused.
EchoHandler(bypass, appsec, config) ==
    Wrap(Handler, Answered \cup {"excused"}, config,
         bypass \o <<StartRequest, Defer(FinishRequest({"5xx", "fails"}, Never))>> \o appsec \o
         <<Call, If({"fails"}, <<Error(Checked)>>), If({"5xx"}, <<Error(Checked)>>), Tag(Always)>>)

EchoConfig   == Config(<<"option", "env">>, GlobalService)
Echo         == EchoHandler(<<>>, <<>>, EchoConfig)
EchoV4Config == Config(<<"option">>, GlobalService)
EchoV4AppSec == AppSec
EchoV4       == EchoHandler(<<Bypass({"ignored"})>>, <<EchoV4AppSec>>, EchoV4Config)

-----------------------------------------------------------------------------
ChiAppSec == AppSecCall

\* chi and chi.v5: the route is known after the handler.
ChiHandler(config) ==
    Wrap(Handler, Served, config,
         <<Bypass({"ignored"}), StartRequest, Defer(FinishRequest({"5xx"}, Checked)), ChiAppSec, Tag(Always)>>)

ChiConfig   == Config(Usual, GlobalService)
Chi         == ChiHandler(ChiConfig)
ChiV5Config == Config(Usual, GlobalService)
ChiV5       == ChiHandler(ChiV5Config)

\* negroni
NegroniConfig == Config(Usual, GlobalService)
Negroni ==
    Wrap(Handler, Served, NegroniConfig, <<StartRequest, Defer(FinishRequest({"5xx"}, Checked)), Call>>)

\* fiber: the context a request carries is not looked for.
FiberConfig == Config(Usual, GlobalService)
Fiber ==
    Wrap(Plain, Answered, FiberConfig,
         <<Start({"context"}), Defer(<<Finish(Never)>>), Call, Tag(Always), Error({"fails"}), Error(Checked)>>)

\* go-restful: with options, and the plain filter.
RestfulConfig == Config(Usual, <<"option", "own">>)
RestfulCode   == <<StartRequest, Defer(FinishRequest({"5xx"}, {"fails"})), Call>>
RestfulFilterFunc == Wrap(Handler, Answered, RestfulConfig, RestfulCode)
RestfulFilter     == Wrap(Handler, Answered, Unconfigured, RestfulCode)

-----------------------------------------------------------------------------
\* twirp: the client, the server, and the hooks in which the request is traced once more.
TwirpConfig == Config(Usual, GlobalService)
TwirpClient ==
    Wrap(Sender, Answered, TwirpConfig,
         <<Start({"headers", "context"}), Defer(<<Finish(Never)>>), Inject, Call,
           Tag(Always), Error({"fails", "4xx", "5xx"})>>)
TwirpServer ==
    Wrap(Handler, Served, TwirpConfig, <<StartRequest, Defer(<<Finish(Never)>>), Call>>)
TwirpHooks ==
    Wrap(Plain, {"ok", "fails"}, TwirpConfig,
         <<Start({"context"}), Tag(Always), Call, Tag(Always), Finish({"fails"})>>)
=============================================================================
