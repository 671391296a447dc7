\* Each of these is refuted: leave the one of interest.
CONSTANTS
    People = {"alice", "bob"}
    Services = {"robot"}
    Tokens = {"tok1"}
    Founder = "alice"
    Nodes = {"team1", "proj1", "prod"}
    Root = "root"
    Resources = {"site1"}
    KindOf <- Kinds
    Hangs <- Tree
    Paths <- Stored
    Menu <- AlsoPays
    Begin <- BeforeToo
    Issues <- Wanted
    Asks <- PaysQuestion
    Requests = {r1, r2}
    MaxNow = 1
    MaxChanges = 2
    MaxOpen = 2
SPECIFICATION SpecWithMoves
SYMMETRY Symmetry
CHECK_DEADLOCK FALSE
INVARIANT OwnerAlways
\* INVARIANT PathIsAncestry
\* INVARIANT NoNarrowGrant
