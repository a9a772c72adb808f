\* A fixed rate of 1 RCU a tick, two clients reading items of 3 RCU: the
\* allowance of a frame is 3 RCU; Slack allows three frames more than that.
CONSTANTS
    FrameLen = 3
    Rates = {1}
    InitRate = 1
    MaxCost = 3
    NumClients = 2
    Slack = 9
SPECIFICATION Spec
INVARIANT ThroughputBound
