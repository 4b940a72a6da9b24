SPECIFICATION Spec
CONSTANTS
    None = None
    human = human
    agent = agent
    t1 = t1
    t2 = t2
    Chunks = 2
    Wall = 1
    StatusBytes <- Statuses
    Admin = human
    Tasks <- TwoTasks
    TaskOf <- OnePrincipal
    Configured <- NoPeers
    Capacity = 1
    Lifetime = 3
    Idle = 2
    AdminMessages <- HumanRequests
    AgentMessages <- AgentRequests
    MaxSessions = 3
INVARIANTS
    TypeOK
    AttachedHasPeer
    PeersBounded
    OutcomeIsTruthful
    NoStrayChild
PROPERTIES
    TokenAttachesOnce
    SessionsConfineWork
    OwnerStops
CHECK_DEADLOCK FALSE
