--------------------------- MODULE RPCIntegrations ---------------------------
(***************************************************************************)
(* The wrappers of gRPC, of GraphQL servers and of the AWS clients.        *)
(***************************************************************************)
EXTENDS Sequences, Wrapper

\* gRPC: the service name is looked up by server and client in their own ways.
GRPCRate         == OwnRate
GRPCServerConfig == Config(GRPCRate, GlobalService)
GRPCClientConfig == Config(GRPCRate, <<"option", "own">>)

\* startSpanFromContext, for servers, clients and messages alike.
GRPCStart == <<Start({"headers", "context"}), Tag(Always)>>

\* finishWithError: the end of a stream, a cancelled call and the codes that the
\* application excuses are no errors.
GRPCFinish == <<Tag(Always), Finish({"fails", "partly"})>>

\* A message of a stream, on either side.
GRPCMessage(config, ignored, peer) ==
    Wrap(Plain, Excusing, config, <<Bypass(ignored)>> \o GRPCStart \o peer \o <<Defer(GRPCFinish), CallWithout>>)
GRPCServerMessage == GRPCMessage(GRPCServerConfig, {"ignored"}, <<>>)
GRPCClientMessage == GRPCMessage(GRPCClientConfig, {"ignored"}, <<Tag(Always)>>)

\* Bug: the span of a stream that could not be opened is forgotten.
MutGRPCStreamClient ==
    Wrap(Sender, Excusing \cup {"partly"}, GRPCClientConfig,
         <<Otherwise({"ignored"}, <<Inject, CallWithout>>)>> \o GRPCStart \o
         <<Inject, Call, Tag(Always), If({"ok", "partly"}, <<Tag(Always), Later(GRPCFinish)>>)>>)

\* A stream is over when its context is done; a stream that was not opened, at once.  gRPC
\* cancels the context of every stream that ends, so what fails after the stream was opened
\* is seen only if it is the deadline of the context.
GRPCStreamClient ==
    Wrap(Sender, Excusing \cup {"partly"}, GRPCClientConfig,
         <<Otherwise({"ignored"}, <<Inject, CallWithout>>)>> \o GRPCStart \o
         <<Inject, Call, Tag(Always), If({"fails", "excused"}, GRPCFinish),
           If({"ok", "partly"}, <<Tag(Always), Later(GRPCFinish)>>)>>)

GRPCUnaryClient ==
    Wrap(Sender, Excusing, GRPCClientConfig, GRPCStart \o <<Inject, Call, Tag(Always)>> \o GRPCFinish)

GRPCStreamServer ==
    Wrap(Handler, Excusing, GRPCServerConfig,
         <<Bypass({"ignored"})>> \o GRPCStart \o <<Defer(GRPCFinish), AppSecCall>>)

\* The end of a unary call is not deferred.
GRPCUnaryServer ==
    Wrap(Handler, Excusing, GRPCServerConfig,
         <<Bypass({"ignored"})>> \o GRPCStart \o <<Tag(Always), AppSecCall>> \o GRPCFinish)

\* Handlers of statistics: gRPC tells of the end of every call.
GRPCStatsClient ==
    Wrap(Sender, Excusing \ {"panic"}, GRPCClientConfig, GRPCStart \o <<Inject, Call, Tag(Always)>> \o GRPCFinish)
GRPCStatsServer ==
    Wrap(Handler, Excusing \ {"panic"}, GRPCServerConfig, GRPCStart \o <<Call>> \o GRPCFinish)

-----------------------------------------------------------------------------
\* grpc.v12: no error is excused; the client has a service name that it does not use.
GRPC12Config == OwnRate
GRPC12Start  == <<Start({"headers", "context"})>>
GRPC12Server == Wrap(Handler, Returned, Config(GRPC12Config, GlobalService), GRPC12Start \o <<Call, Finish({"fails"})>>)
GRPC12Client ==
    Wrap(Sender, Returned, Config(GRPC12Config, <<"fixed">>),
         <<Start({"context"}), Inject, Call, Tag(Always), Finish({"fails"})>>)

-----------------------------------------------------------------------------
\* gqlgen: subscriptions are not traced.
GqlgenConfig == Config(<<"option", "global">>, <<"option", "own">>)
Gqlgen ==
    Wrap(Plain, Returned, GqlgenConfig,
         <<Bypass({"ignored"}), Start({"context"}), Defer(<<Finish({"fails"})>>), Call>>)

\* graphql-go: the library calls what these return when the query or the field is done.
GraphQLConfig == Config(OwnRate, GlobalService)
GraphQLQuery  == Wrap(Plain, {"ok", "fails"}, GraphQLConfig, <<Start({"context"}), Call, Finish({"fails"})>>)
GraphQLField ==
    Wrap(Plain, {"ok", "fails"}, GraphQLConfig,
         <<Bypass({"ignored"}), Start({"context"}), Call, Finish({"fails"})>>)

-----------------------------------------------------------------------------
\* aws-sdk-go: a request that fails before it is sent has no span, and Complete takes the
\* one it finds in the context.
AWSConfig == Own
AWSSend   == <<Start({"context"})>>
AWSComplete == <<Tag(Always), FinishFound({"fails"})>>
AWS ==
    Wrap(Plain, {"ok", "fails"}, AWSConfig,
         <<Otherwise({"ignored"}, <<CallWithout, FinishFound({"fails"})>>)>> \o AWSSend \o <<Call>> \o AWSComplete)

\* aws-sdk-go-v2: the tags of request and response are set inside of the call.
AWSV2Config      == Own
AWSV2Deserialize == <<Tag(Always), Call, Tag(Always)>>
AWSV2 == Wrap(Plain, Returned, AWSV2Config, <<Start({"context"})>> \o AWSV2Deserialize \o <<Finish({"fails"})>>)
=============================================================================
