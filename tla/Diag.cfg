SPECIFICATION FairSpec
INVARIANT TypeOK
INVARIANT RelayFollowsVoltage
PROPERTY BadIsReported
PROPERTY GoodIsReported
PROPERTY Settles
