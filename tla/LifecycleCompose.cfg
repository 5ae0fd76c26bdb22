\* The environment of the quick start.
SPECIFICATION FairSpec
CONSTANTS
    Environments <- AsShipped
    Requests = {r1}
    MaxCrashes = 0
PROPERTIES ExampleServes
