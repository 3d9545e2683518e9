-------------------------- MODULE QueueIntegrations --------------------------
(***************************************************************************)
(* The wrappers of message queues, as far as one message is concerned.     *)
(* What becomes of several messages at once is in Producers.               *)
(***************************************************************************)
EXTENDS Sequences, Wrapper

ConsumerConfig(rate) == Config(rate, GlobalService)
ProducerConfig(rate) == Config(rate, <<"option", "own">>)

\* A message is received: its span is below the producer's, and takes its place in the
\* headers.  It is finished when the next message is asked for, or the consumer is closed.
Consume(places) == <<Start(places), Inject, Call, Later(<<Finish(Never)>>)>>

\* confluent-kafka-go
ConfluentRate     == OwnRate
ConfluentStart    == {"headers", "context"}
ConfluentConsumer == Wrap({"context", "serves", "sends"}, {"ok"}, ConsumerConfig(ConfluentRate), Consume(ConfluentStart))
ConfluentProduceStart == <<Start({"headers", "context"}), Inject>>
\* Without a channel for the report the span ends with the call.
ConfluentProducer ==
    Wrap({"context", "sends"}, Returned, ProducerConfig(ConfluentRate),
         ConfluentProduceStart \o <<CallWithout, Finish({"fails"})>>)
\* The channel of the producer is written by a goroutine.
ConfluentChannel ==
    Wrap({"context", "sends"}, {"ok"}, ProducerConfig(ConfluentRate), ConfluentProduceStart \o <<CallWithout, Finish(Never)>>)

\* sarama: there is no context.
SaramaRate     == OwnRate
SaramaConsumer == Wrap({"serves", "sends"}, {"ok"}, ConsumerConfig(SaramaRate), Consume({"headers"}))
SaramaStart    == <<Start({"headers"}), Inject>>
SaramaFinish   == <<Tag(Always), Finish({"fails"})>>
SaramaSync ==
    Wrap({"sends"}, Returned, ProducerConfig(SaramaRate), SaramaStart \o <<CallWithout>> \o SaramaFinish)

\* segmentio/kafka-go
SegmentRate     == OwnRate
SegmentStart    == {"headers", "context"}
SegmentConsumer == Wrap({"context", "serves", "sends"}, {"ok"}, ConsumerConfig(SegmentRate), Consume(SegmentStart))
SegmentProduceStart == <<Start({"context"}), Inject>>
\* Bug: the headers are completed after the message was handed over.
MutSegmentProducer ==
    Wrap(Sender, Returned, ProducerConfig(SegmentRate), <<Start({"context"}), Call, Inject, Tag(Always), Finish({"fails"})>>)

SegmentProducer ==
    Wrap(Sender, Returned, ProducerConfig(SegmentRate),
         SegmentProduceStart \o <<Call, Tag(Always), Finish({"fails"})>>)

\* Google pubsub: the span of a publication ends when its result is read, once.
PubsubPublish ==
    Wrap(Sender, {"ok", "fails"}, Unconfigured,
         <<Start({"context"}), Inject, Tag(Always), Call, Later(<<Tag(Always), Finish({"fails"})>>)>>)
PubsubReceive ==
    Wrap(Handler, {"ok", "panic"}, Config(<<>>, <<"option">>),
         <<Start({"headers", "context"}), Tag(Always), Defer(<<Finish(Never)>>), Call>>)
=============================================================================
