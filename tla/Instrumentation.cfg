SPECIFICATION Spec
CONSTANTS
    Wrappers <- AllWrappers
    LeftOpen = {"GRPCStreamClient", "GRPCUnaryClient", "GRPCUnaryServer", "GRPC12Server", "GRPC12Client",
                "AWSV2", "PG", "RedisProcess", "RedisPipeline", "RedisV7", "RedisV7Pipeline", "RedisV8",
                "RedisV8Pipeline", "Memcache", "MgoSession", "MgoCollection", "MgoQuery", "MgoIter", "MgoBulk",
                "GocqlScan", "GocqlBatch", "GocqlIter", "LevelDB", "LevelDBSnapshot", "BuntDBAscend",
                "BuntDBKeys", "Consul", "DNSHandler", "DNSExchange", "ConfluentProducer", "SaramaSync",
                "SegmentProducer"}
    Lax = {"TwirpServer", "MgoPipe", "GocqlIter", "RedisV7Pipeline", "RedisV8Pipeline"}
    Sticky = {"ServeMux", "WrapHandler", "SQLQuery", "SQLPrepare", "SQLBegin", "SQLPing", "SQLStmt",
              "SQLTx", "SQLConnect", "GoogleAPI"}
    Dangling = {"SQLQuery"}
    Borrowing = {"AWS"}
INVARIANTS
    FinishedOnce
    NothingLate
    ErrorsMarked
    InPlace
    OptionsObeyed
CHECK_DEADLOCK FALSE
