SPECIFICATION FairSpec
CONSTANTS
    Interpreters = 2
    ClientSizes <- MCClientSizes
    InjectSizes <- MCInjectSizes
    ResultSizes <- MCResultSizes
    OutputSizes <- MCOutputSizes
    MaxBuffer = 3
    MaxPackets = 4
INVARIANTS
    TypeOK ShownOnce SameView BlockSticks InjectedInOrder
PROPERTIES
    DelayedFirst DeliverySpec HandledWhenNoMoreCome
