SPECIFICATION Spec
CONSTANTS
    ann = ann
    guild = guild
    main = main
    event = event
    player = player
    staff = staff
    fans = fans
    cmd = cmd
    call = call
    AnyServer = AnyServer
    Superuser = Superuser
    Idle = Idle
    Users <- MCUsers
    Guilds <- MCGuilds
    Servers <- MCServers
    RoleIds <- MCRoleIds
    Moderators <- MCModerators
    Choices <- MCChoices
    AtStart <- MCAtStart
    AdminsAtStart <- MCAdminsAtStart
    Commands <- MCCommands
    Callers <- MCCallers
    Listed <- MCListed
    MaxChanges = 1
    MaxFaults = 1
INVARIANTS
    RemovedRoleIsForgotten
