SPECIFICATION Spec
CONSTANTS
    ann = ann
    bea = bea
    guild1 = guild1
    guild2 = guild2
    main = main
    event = event
    c1 = c1
    c2 = c2
    c3 = c3
    ask1 = ask1
    ask2 = ask2
    round1 = round1
    round2 = round2
    Users <- MCUsers
    Guilds <- MCGuilds
    Servers <- MCServers
    Channels <- MCChannels
    GuildOf <- MCGuildOf
    BoundTo <- MCBoundTo
    Asks <- MCAsks
    Rounds <- MCRounds
    MaxFaults = 0
SYMMETRY Symmetry
INVARIANT
    AskedIsTold
\* Every goroutine runs once: the run stops when all have ended.
CHECK_DEADLOCK FALSE
