-------------------------- MODULE MCInstrumentation --------------------------
EXTENDS Instrumentation, HTTPIntegrations, RPCIntegrations, StoreIntegrations, QueueIntegrations

\* Every wrapper, by name.
AllWrappers == [
    ServeMux |-> ServeMux, WrapHandler |-> WrapHandler, RoundTripper |-> RoundTripper,
    Kubernetes |-> Kubernetes, Mux |-> Mux, HTTPRouter |-> HTTPRouter, Goji |-> Goji, Gin |-> Gin,
    GinHTML |-> GinHTML, Echo |-> Echo, EchoV4 |-> EchoV4, Chi |-> Chi, ChiV5 |-> ChiV5,
    Negroni |-> Negroni, Fiber |-> Fiber, RestfulFilterFunc |-> RestfulFilterFunc,
    RestfulFilter |-> RestfulFilter, TwirpClient |-> TwirpClient, TwirpServer |-> TwirpServer,
    TwirpHooks |-> TwirpHooks,
    GRPCServerMessage |-> GRPCServerMessage, GRPCClientMessage |-> GRPCClientMessage,
    GRPCStreamClient |-> GRPCStreamClient, GRPCUnaryClient |-> GRPCUnaryClient,
    GRPCStreamServer |-> GRPCStreamServer, GRPCUnaryServer |-> GRPCUnaryServer,
    GRPCStatsClient |-> GRPCStatsClient, GRPCStatsServer |-> GRPCStatsServer,
    GRPC12Server |-> GRPC12Server, GRPC12Client |-> GRPC12Client, Gqlgen |-> Gqlgen,
    GraphQLQuery |-> GraphQLQuery, GraphQLField |-> GraphQLField, AWS |-> AWS, AWSV2 |-> AWSV2,
    SQLQuery |-> SQLQuery, SQLPrepare |-> SQLPrepare, SQLBegin |-> SQLBegin, SQLPing |-> SQLPing,
    SQLStmt |-> SQLStmt, SQLTx |-> SQLTx, SQLConnect |-> SQLConnect, Gorm |-> Gorm, GormPkg |-> GormPkg,
    GormIO |-> GormIO, PG |-> PG, Redigo |-> Redigo, GomoduleRedigo |-> GomoduleRedigo,
    RedisProcess |-> RedisProcess, RedisPipeline |-> RedisPipeline, RedisV7 |-> RedisV7,
    RedisV7Pipeline |-> RedisV7Pipeline, RedisV8 |-> RedisV8, RedisV8Pipeline |-> RedisV8Pipeline,
    Memcache |-> Memcache, MgoSession |-> MgoSession, MgoCollection |-> MgoCollection,
    MgoQuery |-> MgoQuery, MgoIter |-> MgoIter, MgoBulk |-> MgoBulk, MgoPipe |-> MgoPipe, Mongo |-> Mongo,
    GocqlScan |-> GocqlScan, GocqlBatch |-> GocqlBatch, GocqlIter |-> GocqlIter, LevelDB |-> LevelDB,
    LevelDBSnapshot |-> LevelDBSnapshot, LevelDBIterator |-> LevelDBIterator,
    BuntDBAscend |-> BuntDBAscend, BuntDBKeys |-> BuntDBKeys, Consul |-> Consul, Elastic |-> Elastic,
    Olivere |-> Olivere, Vault |-> Vault, GoogleAPI |-> GoogleAPI, DNSHandler |-> DNSHandler,
    DNSExchange |-> DNSExchange,
    ConfluentConsumer |-> ConfluentConsumer, ConfluentProducer |-> ConfluentProducer,
    ConfluentChannel |-> ConfluentChannel, SaramaConsumer |-> SaramaConsumer, SaramaSync |-> SaramaSync,
    SegmentConsumer |-> SegmentConsumer, SegmentProducer |-> SegmentProducer,
    PubsubPublish |-> PubsubPublish, PubsubReceive |-> PubsubReceive]
=============================================================================
