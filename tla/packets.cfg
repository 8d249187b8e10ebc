SPECIFICATION Spec
CONSTANTS
    TopicLen = 4
    ContentLen = 8
    Base = 2
    Significand = 8
    Precise = 128
    Scale = 65536
    Ulps <- PowersOfTwo
    Least = 4
    MaxPower = 100
    Topics <- TypedTopics
    SubscriberId <- TypedId
    Datagrams <- SentDatagrams
    MaxDatagrams = 2
CHECK_DEADLOCK FALSE
INVARIANT SubscribesAsTyped
INVARIANT TopicAsSent
INVARIANT NumbersAsSent
INVARIANT TextAsSent
