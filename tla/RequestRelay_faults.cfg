\* Two fronts at one Logic worker, and everything that goes wrong.
\* The clients have come and gone: nothing more need happen.
CHECK_DEADLOCK FALSE
SPECIFICATION FairSpec
CONSTANTS
    web = web
    app = app
    c1 = c1
    c2 = c2
    NoOne = NoOne
    Front = {web, app}
    HttpFront = {web}
    Client = {c1, c2}
    At <- Each
    ClientFd = {1}
    LinkFd = {1}
    MaxLink = 2
    MaxAsk = 2
    MaxFault = 1
    Faults = {"unsent", "noproxy", "malformed", "unloaded", "error", "link", "front", "logic"}
CONSTRAINT Few
INVARIANT TypeOK
INVARIANT AnswerMatches
PROPERTY HttpIsAnswered
PROPERTY StepsEnd
