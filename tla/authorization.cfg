CONSTANTS
    People = {"alice", "bob"}
    Services = {"robot"}
    Tokens = {"tok1"}
    Founder = "alice"
    Nodes = {"team1", "proj1"}
    Root = "root"
    Resources = {"site1"}
    KindOf <- Kinds
    Hangs <- Tree
    Paths <- Stored
    Menu <- Grants
    Begin <- Before
    Issues <- Wanted
    Asks <- Questions
    Requests = {r1, r2}
    MaxNow = 1
    MaxChanges = 1
    MaxOpen = 2
SPECIFICATION Spec
SYMMETRY Symmetry
CHECK_DEADLOCK FALSE
INVARIANT TypeOK
INVARIANT GrantedIsCurrent
INVARIANT OwnerFloor
PROPERTY QuietAnswerIsRight
PROPERTY TokenWithinIssuer
