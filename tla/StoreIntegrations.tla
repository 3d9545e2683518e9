-------------------------- MODULE StoreIntegrations --------------------------
(***************************************************************************)
(* The wrappers of databases, caches, search engines and of clients that   *)
(* speak HTTP to a store.                                                  *)
(***************************************************************************)
EXTENDS Sequences, Wrapper

\* Most of them: start, call, finish with the error.  The library has no context to take,
\* and the end is not deferred.
Direct(ends, config, start) == Wrap(Plain, ends, config, start \o <<CallWithout, Finish({"fails"})>>)

-----------------------------------------------------------------------------
\* database/sql.  What is opened later inherits from what was registered: an option can
\* set a rate and not unset it.  ErrSkip makes database/sql try another way; with
\* WithChildSpansOnly a call that has no parent is not traced.
SQLOptions  == <<"enabling", "env">>
SQLRegister == <<"option", "own">>
SQLConfig   == Config(SQLOptions, SQLRegister)

\* tryTrace, after the call; the error check of the application is asked.
TryTrace ==
    <<If({"ok", "fails", "excused"},
         <<Otherwise({"orphan"}, <<>>), Start({"context"}), Tag(Always), Error({"fails"}), Finish(Never)>>)>>

SQLEnds == {"ok", "fails", "excused", "skips", "panic"}

\* Exec and Query: the comment in the query has the identifier of the span to come.
InjectComments == <<InjectAhead>>
SQLQuery   == Wrap(After \cup {"sends"}, SQLEnds, SQLConfig, InjectComments \o <<Call>> \o TryTrace)
\* Prepare sends no identifier: the statement may be used for many calls.
SQLPrepare == Wrap(After, SQLEnds, SQLConfig, <<Call>> \o TryTrace)
SQLBegin   == Wrap(After, SQLEnds, SQLConfig, <<Call>> \o TryTrace)
SQLPing    == Wrap(After, SQLEnds, SQLConfig, <<Call>> \o TryTrace)
SQLStmt    == Wrap(After, SQLEnds, SQLConfig, <<Call>> \o TryTrace)
SQLTx      == Wrap(After, SQLEnds, SQLConfig, <<CallWithout>> \o TryTrace)
SQLConnect == Wrap(After, SQLEnds, SQLConfig, <<Call>> \o TryTrace)

\* gorm: callbacks before and after; without a context there is no span.
GormAfter(after) == <<Bypass({"ignored"}), CallWithout, Start({"context"})>> \o after
GormConfig   == Own
Gorm         == Wrap(After, Excusing, GormConfig, GormAfter(<<Defer(<<Finish(Never)>>), Error({"fails"})>>))
GormPkgConfig == Own
GormPkg      == Wrap(After, Excusing, GormPkgConfig, GormAfter(<<Defer(<<Finish(Never)>>), Error({"fails"})>>))
GormIOConfig == Own
GormIO       == Wrap(After, Excusing, GormIOConfig, GormAfter(<<Finish({"fails"})>>))

\* go-pg: hooks around a query.
PGConfig == Config(OwnRate, GlobalService)
PG       == Wrap(Plain, Returned, PGConfig, <<Start({"context"}), Call, Finish({"fails"})>>)

-----------------------------------------------------------------------------
\* redigo, twice: the context is the last argument.
RedigoConfig   == Own
RedigoDo       == <<Start({"context"}), Tag(Always), Defer(<<Finish({"fails"})>>), Tag(Always), CallWithout>>
Redigo         == Wrap(Plain, Returned, RedigoConfig, RedigoDo)
GomoduleConfig == Own
GomoduleDo     == <<Start({"context"}), Tag(Always), Defer(<<Finish({"fails"})>>), Tag(Always), CallWithout>>
GomoduleRedigo == Wrap(Plain, Returned, GomoduleConfig, GomoduleDo)

\* Bug: a miss counts as an error.
MutRedisProcess ==
    Wrap(Plain, Excusing, Own, <<Start({"context"}), CallWithout, Finish({"fails", "excused"})>>)

\* go-redis: Nil is no error.  Exec returns the first error of a pipeline.
RedisConfig   == Own
RedisProcess  == Direct(Excusing, RedisConfig, <<Start({"context"})>>)
RedisPipeline ==
    Wrap(Plain, Excusing \cup {"partly"}, RedisConfig,
         <<Start({"context"}), CallWithout, Tag(Always), Finish({"fails", "partly"})>>)

\* redis.v7 and redis.v8: hooks.  Of the errors of a pipeline the last command's counts.
RedisHook(config)         == Wrap(Plain, Excusing, config, <<Start({"context"}), Call, Finish({"fails"})>>)
RedisPipelineHook(config) == Wrap(Plain, Excusing \cup {"partly"}, config, <<Start({"context"}), Call, Finish({"fails"})>>)
RedisV7Config   == Own
RedisV7         == RedisHook(RedisV7Config)
RedisV7Pipeline == RedisPipelineHook(RedisV7Config)
RedisV8Config   == Own
RedisV8         == RedisHook(RedisV8Config)
RedisV8Pipeline == RedisPipelineHook(RedisV8Config)

\* gomemcache
MemcacheConfig == Own
MemcacheStart  == <<Start({"context"})>>
Memcache       == Direct(Returned, MemcacheConfig, MemcacheStart)

-----------------------------------------------------------------------------
\* mgo: the variable that switches analytics on is the one of gin.
MgoConfig     == Own
MgoStart      == <<Start({"context"}), Tag(Always)>>
MgoSession    == Direct(Returned, MgoConfig, MgoStart)
MgoCollection == Direct(Returned, MgoConfig, MgoStart)
MgoQuery      == Direct(Returned, MgoConfig, MgoStart)
MgoBulk       == Direct(Returned, MgoConfig, MgoStart)
\* An iterator is moved on without an error; Close and All return one.
MgoIter       == Direct(Returned, MgoConfig, MgoStart)
\* The arguments of a deferred call are evaluated at once, when there is no error yet.
MgoPipe       == Wrap(Plain, Returned, MgoConfig, MgoStart \o <<Defer(<<Finish(Never)>>), CallWithout>>)

\* The driver's monitor: a command is started, and succeeds or fails.
MongoConfig == Own
Mongo       == Wrap(Plain, {"ok", "fails"}, MongoConfig, <<Start({"context"}), CallWithout, Finish({"fails"})>>)

\* gocql: the error check is asked by Scan and by batches, not by iterators, nor by Exec,
\* which is one.  Close or Err finishes the span of an iterator.
GocqlConfig == Own
GocqlStart  == <<Start({"context"})>>
GocqlScan   == Direct(Excusing, GocqlConfig, GocqlStart)
GocqlBatch  == Direct(Excusing, GocqlConfig, <<Start({"context"})>>)
GocqlIter ==
    Wrap(Plain, Excusing, GocqlConfig,
         GocqlStart \o <<CallWithout, Tag(Always), Later(<<Error({"fails", "excused"}), Finish(Never)>>)>>)

-----------------------------------------------------------------------------
\* leveldb and buntdb
LevelDBConfig   == Own
LevelDBStart    == <<Start({"context"})>>
LevelDB         == Direct(Returned, LevelDBConfig, LevelDBStart)
LevelDBSnapshot == Direct(Returned, LevelDBConfig, LevelDBStart)
LevelDBIterator == Wrap(Plain, {"ok", "fails"}, LevelDBConfig, LevelDBStart \o <<CallWithout, Later(<<Finish({"fails"})>>)>>)
BuntDBConfig    == Own
BuntDBStart     == <<Start({"context"})>>
BuntDBAscend    == Direct(Returned, BuntDBConfig, BuntDBStart)
BuntDBKeys      == Direct(Returned, BuntDBConfig, BuntDBStart)

\* consul
ConsulConfig == Own
ConsulStart  == <<Start({"context"})>>
Consul       == Direct(Returned, ConsulConfig, ConsulStart)

-----------------------------------------------------------------------------
\* Clients that speak HTTP: elasticsearch, twice, with a look at the bodies; vault and
\* google.golang.org/api, which go through the round tripper of net/http.
ElasticRoundTrip ==
    <<Start({"context"}), Defer(<<Finish(Never)>>), Tag(Always), CallWithout, Error({"fails", "4xx", "5xx"}), Tag(Always)>>
ElasticConfig == Own
Elastic       == Wrap(Plain, Answered, ElasticConfig, ElasticRoundTrip)
OlivereConfig == Own
Olivere       == Wrap(Plain, Answered, OlivereConfig, ElasticRoundTrip)

RoundTripVia(errors) ==
    <<Start({"context"}), Defer(<<Tag(Always), Error(errors), Finish({"fails"})>>), Tag(Always), Inject, Call,
      Tag(Always), Error({"fails", "5xx"})>>
VaultConfig == Config(Usual, <<"option", "own">>)
Vault       == Wrap(Sender, Answered, VaultConfig, RoundTripVia({"4xx", "5xx"}))
\* Without a rate of its own the wrapper leaves the round tripper's, which is the global one.
GoogleAPIConfig == Config(<<"unsetting", "env", "global">>, <<"option", "own">>)
GoogleAPI       == Wrap(Sender, Answered, GoogleAPIConfig, RoundTripVia({}))

\* dns: with and without a context.
DNSHandler  == Wrap(Alone, Returned, Unconfigured, <<Start({}), CallWithout, Finish({"fails"})>>)
DNSExchange == Wrap(Plain, Returned, Unconfigured, <<Start({"context"}), Call, Finish({"fails"})>>)
=============================================================================
