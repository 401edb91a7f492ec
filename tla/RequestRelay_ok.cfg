\* DataProxy answers errors.
\* The clients have come and gone: nothing more need happen.
CHECK_DEADLOCK FALSE
SPECIFICATION Spec
CONSTANTS
    web = web
    app = app
    c1 = c1
    c2 = c2
    NoOne = NoOne
    Front = {web, app}
    HttpFront = {web}
    Client = {c1, c2}
    At <- Each
    ClientFd = {1}
    LinkFd = {1}
    MaxLink = 1
    MaxAsk = 1
    MaxFault = 0
    Faults = {"error"}
INVARIANT OkMeansRead
