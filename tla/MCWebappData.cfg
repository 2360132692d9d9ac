SPECIFICATION DataSpec
CONSTANTS
    x1 = x1
    x2 = x2
    owner = owner
    member = member
    guest = guest
    lobby = lobby
    dm = dm
    mail = mail
    key = key
    tag = tag
    field = field
    doc = doc
    room = room
    hall = hall
    site = site
    base = base
    copy = copy
    skill = skill
    resource = resource
    everyone = everyone
    fact1 = fact1
    fact2 = fact2
    derived = derived
    value = value
    blank = blank
    tab = tab
    Subs = {owner, member, guest}
    Founder = owner
    Staff = {member}
    Lobby = lobby
    Dm = dm
    Emails = {mail}
    Asked = {"Admin", "Partner"}
    Requests = {x1, x2}
    MaxInvites = 2
    MaxCalls = 3
    Flights = {x1, x2}
    Mode = "oidc"
    Production = TRUE
    AllowMock = FALSE
    Configured = TRUE
    MaxTokens = 3
    MaxTrips = 5
    Facts = {fact1, fact2}
    Derived = {derived}
    Budget = 1
    MaxRecalls = 1
    MaxTurns = 1
    MaxTries = 2
    Workspaces = {room, hall}
    Contents = {"joined", "left"}
    Appenders = {x1, x2}
    MaxRows = 3
    MaxEdits = 1
    Spellings = {"Ada", "ada"}
    canon <- Mailbox
    Transports = {"resend", "smtp"}
    MaxMails = 3
    MaxSlips = 2
    Users = {x1, x2}
    Std = {"stage"}
    Custom = {field}
    Vals = {value}
    Blank = blank
    MaxInputs = 5
    Accounts = {owner, member}
    Owner = owner
    Templates = {base}
    Customs = {copy}
    Layers = {1}
    Skills = {skill}
    Resources = {resource}
    Grants = {"g1"}
    AllPersonas = everyone
    Reqs = {x1, x2}
    MaxReqs = 4
    People = {member, guest}
    Outside = {}
    Docs = {doc}
    Legacy = {}
    Chans = {room, hall}
    Workspace = site
    FirstSeats <- Seats
    TTL = 1
    MaxTime = 2
    MaxActs = 4
    CalUsers = {owner}
    Admins = {owner}
    Ticks = {}
    Editors = {x1, x2}
    Starts = {2, 3}
    Asks = {{}, {guest}}
    Lead = 1
    Limit = 1
    LastTime = 0
    MaxEvents = 2
    MaxOps = 3
    Tabs = {tab}
    OwnerOf <- WindowOwner
    PersonaTools = {"crm.write", "crm.ingest", "calendar.pin_summary", "crm.read"}
    Convs = {"c1", "c2", "c3"}
    MaxChatTurns = 2
    MaxMoves = 3
    Sheets <- Dropped
    Texts <- Pasted
    Workers = {x1, x2}
    Slice = 2
    Chunk = 2
    MinConf = 8
    MaxJobs = 1
    MaxFaults = 1
    Names <- RecordNames
    Keys = {key}
    Tags = {tag}
    FieldIds = {field}
    MaxMerges = 1
    MaxCrmOps = 4
CONSTRAINT Regions
SYMMETRY Interchangeable
INVARIANTS
    NoDuplicates
    ImportAccounted
    SensitiveHidden
    NoDangling
    NoDoubles
    MembershipSound
    SessionSound
    DeadlineMirrored
    ChainHonest
    OthersKept
    TurnsAsTyped
    DelegateConfined
    DocumentsConfined
    UnsubscribeHonoured
    FindingsKept
CHECK_DEADLOCK FALSE
