SPECIFICATION UnionSpec
CONSTANTS
    adm = adm
    vic = vic
    sup = sup
    kadm = kadm
    kvic = kvic
    s1 = s1
    s2 = s2
    ooc = ooc
    cmds = cmds
    cmd1 = cmd1
    cmd2 = cmd2
    f1 = f1
    f2 = f2
    c1 = c1
    c2 = c2
    c3 = c3
    g1 = g1
    g2 = g2
    n0 = n0
    n1 = n1
    n2 = n2
    nick_entry = nick_entry
    cooldown_entry = cooldown_entry
    Nobody = Nobody
    AnyServer = AnyServer
    Bot = Bot
    BotName = BotName
    Superuser = sup
    Users <- MCUsers
    Ckeys <- MCCkeys
    Servers <- MCServers
    CkeyOf <- MCCkeyOf
    Moderators = {}
    AdminsOf <- MCAdminsOf
    Bits <- MCBits
    Commands <- MCCommands
    Jobs <- MCJobs
    StartBans <- MCStartBans
    StartOverrides <- MCStartOverrides
    MaxFaults = 1
    Feeds <- MCFeeds
    Chans <- MCChans
    GuildOf <- MCGuildOf
    Ids <- MCIds
    ChannelJobs <- MCChannelJobs
    ChannelTables <- MCChannelTables
    Entries <- MCEntries
    NickEntry = nick_entry
    Nicks <- MCNicks
    Values <- MCValues
    DefaultOf <- MCDefaultOf
    ConfigRows <- MCConfigRows
    ConfigJobs <- MCConfigJobs
    MaxRenames = 1
    Donors <- MCDonors
    Cooldowns <- MCCooldowns
    Durations <- MCDurations
    DonatorJobs <- MCDonatorJobs
    DonatorTables <- MCDonatorTables
    MaxTime = 2
    MaxRound = 1
    ModeratorJobs <- MCModeratorJobs
    ModeratorTables <- MCModeratorTables
    EmbedChans <- MCEmbedChans
    EmbedJobs <- MCEmbedJobs
    MaxEmbeds = 2
    max_message_size = 12
    Mark = 5
    Texts <- MCTexts
    Requests <- MCRequests
    Responses <- MCResponses
    ShortReads <- MCShortReads
    Authors <- MCAuthors
    Registered <- MCRegistered
    discord_spam_prot_limit = 1
    ChatMessages <- MCMessages
    MaxMessages = 3
    MaxTicks = 1
SYMMETRY Symmetry
INVARIANTS
    TypesOK
    BannedIsStopped
    StoppedIsBanned
    OnlyHigherRanksBan
    BoundChannelsAreKnown
    CopiesFollowTables
    NickIsRestored
    CooldownHolds
    PaidIsKept
    AnswerArrives
    AnswerIsWhole
    OnlySpammersAreFlagged
\* Every goroutine runs once: a component stops when all have ended.
CHECK_DEADLOCK FALSE
