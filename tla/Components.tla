----------------------------- MODULE Components -----------------------------
(***************************************************************************)
(* The components that commands, webhooks and messages reach beside roles, *)
(* accounts and subscriptions.  They share no state, so a behaviour is one *)
(* of one component, chosen at the start by part, and the variables of the *)
(* others stand still: the specification is the union of what each does.   *)
(***************************************************************************)
EXTENDS Bans, Sequences

CONSTANTS
    Feeds, Chans, GuildOf, Ids, ChannelJobs, ChannelTables,             \* Channels
    Entries, NickEntry, Nicks, Values, DefaultOf, ConfigRows, ConfigJobs, MaxRenames, \* Configs
    Donors, Cooldowns, Durations, DonatorJobs, DonatorTables, MaxTime, MaxRound,    \* Donators
    ModeratorJobs, ModeratorTables,                                     \* Moderators
    EmbedChans, EmbedJobs, MaxEmbeds,                                   \* StatusEmbeds
    max_message_size, Mark, Texts,                                      \* LongMessages
    Requests, Responses, ShortReads,                                    \* ByondWire
    Authors, Registered, discord_spam_prot_limit, ChatMessages, MaxMessages, MaxTicks \* Dispatch

VARIABLES
    part,                                       \* the component at work
    rows, clash,                                \* of the one at work that has them
    table, bound, listed,                       \* Channels
    memory, nick, events, reverts, strayed, renames,            \* Configs
    donators, cooldown, now, round, free, paid, late,           \* Donators
    moderators,                                 \* Moderators
    embeds, posted, gone,                       \* StatusEmbeds
    text, from, marked, chunks, sending, refused,               \* LongMessages
    asked, length, btype, stage, got, size, data,               \* ByondWire
    checks, flagged, banned, message, ccnt, outcomes, sent, ticks,
    counted, spammed, straddled                 \* Dispatch

-----------------------------------------------------------------------------
Ch == INSTANCE Channels WITH Jobs <- ChannelJobs, StartTables <- ChannelTables

Co == INSTANCE Configs WITH Jobs <- ConfigJobs, StartRows <- ConfigRows

Do == INSTANCE Donators WITH
    Ckeys <- Donors, Jobs <- DonatorJobs, StartTables <- DonatorTables

Mo == INSTANCE Moderators WITH Jobs <- ModeratorJobs, StartTables <- ModeratorTables

Se == INSTANCE StatusEmbeds WITH
    Chans <- EmbedChans, Jobs <- EmbedJobs, MaxMessages <- MaxEmbeds

Lm == INSTANCE LongMessages

Bw == INSTANCE ByondWire

Di == INSTANCE Dispatch WITH
    Users <- Authors, Handlers <- Commands, Messages <- ChatMessages

ASSUME ComponentsAssumption ==
    /\ Ch!ChannelsAssumption /\ Co!ConfigsAssumption /\ Do!DonatorsAssumption
    /\ Mo!ModeratorsAssumption /\ Se!StatusEmbedsAssumption
    /\ Lm!LongMessagesAssumption /\ Bw!ByondWireAssumption /\ Di!DispatchAssumption

-----------------------------------------------------------------------------
(* The union.  What the component at work does not have is empty, or 0.    *)

Parts == {"bans", "channels", "configs", "donators", "moderators", "embeds",
          "long messages", "byond wire", "dispatch"}

\* Which of them have a variable that several have.
WithAt == Parts \ {"long messages", "byond wire"}
WithJobs == WithAt \ {"dispatch"}
WithLeft == WithJobs \ {"configs"}
WithRows == {"configs", "moderators", "embeds"}
WithClash == WithRows \cup {"donators"}
WithMixed == {"bans", "channels"}
WithTorn == WithMixed \cup {"moderators", "embeds"}

Starts(p, start, idle) == IF part = p THEN start ELSE idle

UnionInit ==
    /\ part \in Parts
    /\ Starts("bans", Init,
            /\ bans = {} /\ overrides = {} /\ issued = {}
            /\ summary = SummaryOf({}) /\ lifted = LiftedOf({}))
    /\ Starts("channels", Ch!Init, table = 0 /\ bound = 0 /\ listed = 0)
    /\ Starts("configs", Co!Init,
            memory = 0 /\ nick = 0 /\ events = 0 /\ reverts = 0 /\ strayed = 0 /\ renames = 0)
    /\ Starts("donators", Do!Init,
            /\ donators = 0 /\ cooldown = 0 /\ now = 0 /\ round = 0
            /\ free = 0 /\ paid = 0 /\ late = 0)
    /\ Starts("moderators", Mo!Init, moderators = 0)
    /\ Starts("embeds", Se!Init, embeds = 0 /\ posted = 0 /\ gone = 0)
    /\ Starts("long messages", Lm!Init,
            text = 0 /\ from = 0 /\ marked = 0 /\ chunks = 0 /\ sending = 0 /\ refused = 0)
    /\ Starts("byond wire", Bw!Init,
            /\ asked = 0 /\ length = 0 /\ btype = 0 /\ stage = 0
            /\ got = 0 /\ size = 0 /\ data = 0)
    /\ Starts("dispatch", Di!Init,
            /\ checks = 0 /\ flagged = 0 /\ banned = 0 /\ message = 0 /\ ccnt = 0
            /\ outcomes = 0 /\ sent = 0 /\ ticks = 0
            /\ counted = 0 /\ spammed = 0 /\ straddled = 0)
    /\ IF part \in WithAt THEN TRUE ELSE at = [h \in Commands |-> "idle"]
    /\ IF part \in WithAt THEN TRUE ELSE restarts = 0
    /\ IF part \in WithJobs THEN TRUE ELSE job = 0 /\ errors = 0
    /\ IF part \in WithLeft THEN TRUE ELSE left = 0
    /\ IF part \in WithRows THEN TRUE ELSE rows = 0
    /\ IF part \in WithClash THEN TRUE ELSE clash = FALSE
    /\ IF part \in WithMixed THEN TRUE ELSE mixed = FALSE
    /\ IF part \in WithTorn THEN TRUE ELSE torn = FALSE

\* Variables vs stand still unless one of ps is at work.
Only(ps, vs) == IF part \in ps THEN TRUE ELSE UNCHANGED vs

Frame ==
    /\ UNCHANGED part
    /\ Only({"bans"}, <<bans, overrides, summary, lifted, issued>>)
    /\ Only({"channels"}, <<table, bound, listed>>)
    /\ Only({"configs"}, <<memory, nick, events, reverts, strayed, renames>>)
    /\ Only({"donators"}, <<donators, cooldown, now, round, free, paid, late>>)
    /\ Only({"moderators"}, moderators)
    /\ Only({"embeds"}, <<embeds, posted, gone>>)
    /\ Only({"long messages"}, <<text, from, marked, chunks, sending, refused>>)
    /\ Only({"byond wire"}, <<asked, length, btype, stage, got, size, data>>)
    /\ Only({"dispatch"}, <<checks, flagged, banned, message, ccnt, outcomes, sent, ticks,
                            counted, spammed, straddled>>)
    /\ Only(WithAt, <<at, restarts>>) /\ Only(WithJobs, <<job, errors>>) /\ Only(WithLeft, left)
    /\ Only(WithRows, rows) /\ Only(WithClash, clash)
    /\ Only(WithMixed, mixed) /\ Only(WithTorn, torn)

UnionNext ==
    /\ \/ part = "bans" /\ Next
       \/ part = "channels" /\ Ch!Next
       \/ part = "configs" /\ Co!Next
       \/ part = "donators" /\ Do!Next
       \/ part = "moderators" /\ Mo!Next
       \/ part = "embeds" /\ Se!Next
       \/ part = "long messages" /\ Lm!Next
       \/ part = "byond wire" /\ Bw!Next
       \/ part = "dispatch" /\ Di!Next
    /\ Frame

union_vars ==
    <<vars, part, rows, clash, table, bound, listed,
      memory, nick, events, reverts, strayed, renames,
      donators, cooldown, now, round, free, paid, late, moderators, embeds, posted, gone,
      text, from, marked, chunks, sending, refused, asked, length, btype, stage, got, size, data,
      checks, flagged, banned, message, ccnt, outcomes, sent, ticks,
      counted, spammed, straddled>>

UnionSpec == UnionInit /\ [][UnionNext]_union_vars

-----------------------------------------------------------------------------
(***************************************************************************)
(* Properties: those of Bans, and of the component at work.                *)
(***************************************************************************)

\* Every component keeps its types: in particular only a registered ckey, the
\* superuser or the bot ever issues a ban, no list of channels counts below
\* zero, and no clock or counter leaves its bounds.
TypesOK ==
    /\ part = "bans" => TypeOK
    /\ part = "channels" => Ch!TypeOK
    /\ part = "configs" => Co!TypeOK
    /\ part = "donators" => Do!TypeOK
    /\ part = "moderators" => Mo!TypeOK
    /\ part = "embeds" => Se!TypeOK
    /\ part = "long messages" => Lm!TypeOK
    /\ part = "byond wire" => Bw!TypeOK
    /\ part = "dispatch" => Di!TypeOK

\* discord_main.go:688-761: however commands and their rebuilds overlap, a
\* channel that a row binds is known when all have ended, unless a rebuild failed.
BoundChannelsAreKnown == part = "channels" => Ch!BoundChannelsAreKnown

\* What the bot keeps in memory is what its next start would load: the lists of
\* channels, the configuration, the moderators and the status embeds, each under
\* the conditions its module states (Channels, Configs, Moderators, StatusEmbeds).
CopiesFollowTables ==
    /\ part = "channels" => Ch!ListsAreExact
    /\ part = "configs" => Co!MemoryFollowsTable
    /\ part = "moderators" => Mo!ModeratorsOutliveTheBot
    /\ part = "embeds" => Se!EmbedsOutliveTheBot

\* nickchange_guard, discord_main.go:1394-1410: the bot ends up with the nickname
\* of its configuration, however renamings, commands and handlers overlap.
NickIsRestored == part = "configs" => Co!NickIsRestored

\* expend_donator, station_part.go:27-62: nobody is offered to the game before
\* the cooldown of his recorded spawns is over.
CooldownHolds == part = "donators" => Do!CooldownHolds

\* cleanup_donators, station_part.go:22-25: nobody is cleaned up before the time
\* he has paid for has passed.
PaidIsKept == part = "donators" => Do!PaidIsKept

\* send_message_big, discord_main.go:501-528: chunks fit, follow one another, and
\* the answer is cut short only before a newline.
AnswerArrives == part = "long messages" => Lm!AnswerArrives

\* Byond_query_adv, byond_part.go:64-118: an answer is the whole of a response.
AnswerIsWhole == part = "byond wire" => Bw!AnswerIsWhole

\* spam_check, discord_main.go:1253-1269: only who exceeded the limit between two
\* ticks is flagged, banned or loses a message.
OnlySpammersAreFlagged == part = "dispatch" => Di!OnlySpammersAreFlagged
=============================================================================
