------------------------------ MODULE Channels ------------------------------
(***************************************************************************)
(* Known channels (discord_main.go:684-761): which Discord channel shows   *)
(* which feed (server@type) of a game server.                              *)
(*                                                                         *)
(* DISCORD_CHANNELS is the truth.  Lines are posted by the map             *)
(* known_channels_s_t_id_m and messages are read by known_channels_id_t;   *)
(* a command that has changed the table rebuilds both: clear one, clear    *)
(* the other, query, then one row after the other, without any lock and    *)
(* so possibly amid another rebuild.  Nothing keeps the table from holding *)
(* a row twice, hence the id.  The server of a row is never empty:         *)
(* channel_here takes it from strings.Fields.                              *)
(***************************************************************************)
EXTENDS Integers, FiniteSets

CONSTANTS
    Feeds, Chans,
    GuildOf,        \* the guild of each channel
    Ids,            \* bound: identities of rows
    Commands,       \* goroutines running a command
    Jobs,           \* what they may be asked
    StartTables,    \* tables the bot may find at the start
    MaxFaults       \* bound: failing statements and restarts of the bot

Row == [id : Ids, feed : Feeds, chan : Chans]
Job == [kind : {"bind", "unbind", "unbind_here", "purge"}, feed : Feeds, chan : Chans]

ChannelsAssumption ==
    /\ Jobs \subseteq Job
    /\ StartTables \subseteq SUBSET Row /\ \A t \in StartTables : IsFiniteSet(t)

VARIABLES
    table,          \* DISCORD_CHANNELS
    bound,          \* known_channels_id_t, its domain the known channels
    listed,         \* known_channels_s_t_id_m: how often a feed lists a channel
    at,             \* the step each goroutine is about to run
    job,            \* what it was asked
    left,           \* rows yet to be collected, or channels to be probed
    mixed,          \* ghost: two rebuilds overlapped
    torn,           \* ghost: a statement failed and left the maps behind
    errors, restarts

vars == <<table, bound, listed, at, job, left, mixed, torn, errors, restarts>>

maps == <<bound, listed>>
faults == <<errors, restarts>>

Stages == {"idle", "update", "add", "remove", "probe", "purged",
           "clear", "clear_lists", "query", "collect", "ended"}

Active(h) == at[h] \notin {"idle", "ended"}
Quiet == \A h \in Commands : ~Active(h)
Populates(h) == at[h] \in {"clear_lists", "query", "collect"}

Goto(h, next) ==
    /\ at' = [at EXCEPT ![h] = next]
    /\ mixed' = (mixed \/ \E g \in Commands \ {h} : Populates(g) /\ Populates(h)')

\* How many rows bind channel c to feed f.
Bindings(rows, f, c) == Cardinality({r \in rows : r.feed = f /\ r.chan = c})

\* The maps a rebuild makes of a table: of several rows of one channel, one
\* decides for what is typed there.
BoundBy(rows) ==
    {b \in [{r.chan : r \in rows} -> Feeds] :
        \A c \in DOMAIN b : \E r \in rows : r.chan = c /\ b[c] = r.feed}
ListedBy(rows) == [f \in Feeds |-> [c \in Chans |-> Bindings(rows, f, c)]]

Init ==
    /\ table \in StartTables
    /\ bound \in BoundBy(table)
    /\ listed = ListedBy(table)
    /\ at = [h \in Commands |-> "idle"]
    /\ job \in [Commands -> Jobs]
    /\ left = [h \in Commands |-> {}]
    /\ mixed = FALSE /\ torn = FALSE
    /\ errors = 0 /\ restarts = 0

-----------------------------------------------------------------------------
(* channel_here, channel_remove and channels_autopurge.                    *)

Begin(h, kind, next) ==
    /\ at[h] = "idle" /\ job[h].kind = kind
    /\ UNCHANGED <<table, maps, torn, faults>>
    /\ Goto(h, next)

ChannelHere(h) == Begin(h, "bind", "update") /\ UNCHANGED <<job, left>>

ChannelRemove(h) == Begin(h, "unbind", "remove") /\ UNCHANGED <<job, left>>

\* Without arguments: what is bound here, wherever else in the guild it is.
ChannelRemoveHere(h) ==
    LET here == job[h].chan IN
    /\ Begin(h, "unbind_here", IF here \in DOMAIN bound THEN "remove" ELSE "ended")
    /\ job' = IF here \in DOMAIN bound THEN [job EXCEPT ![h].feed = bound[here]] ELSE job
    /\ UNCHANGED left

ChannelsAutopurge(h) ==
    /\ Begin(h, "purge", IF DOMAIN bound = {} THEN "ended" ELSE "probe")
    /\ left' = [left EXCEPT ![h] = DOMAIN bound]
    /\ UNCHANGED job

\* The rows of the feed in the guild of the command.
OwnRows(h) ==
    {r \in table : r.feed = job[h].feed /\ GuildOf[r.chan] = GuildOf[job[h].chan]}

ChangeTable(h, stage, old, new, next) ==
    /\ at[h] = stage
    /\ table' = (table \ old) \cup new
    /\ UNCHANGED <<maps, job, left, torn, faults>>
    /\ Goto(h, next)

UpdateChannel(h) ==
    ChangeTable(h, "update", OwnRows(h), {[r EXCEPT !.chan = job[h].chan] : r \in OwnRows(h)},
                IF OwnRows(h) # {} THEN "clear" ELSE "add")

AddThen(h, next) ==
    \E i \in Ids \ {r.id : r \in table} :
        /\ \A j \in Ids \ {r.id : r \in table} : i <= j
        /\ ChangeTable(h, "add", {},
                       {[id |-> i, feed |-> job[h].feed, chan |-> job[h].chan]}, next)

\* Mutant: the maps are not rebuilt after a row was added.
AddOnly(h) == AddThen(h, "ended")

\* Whatever the update has seen: another row of the feed may be there by now.
AddChannel(h) == AddThen(h, "clear")

RemoveChannels(h) ==
    ChangeTable(h, "remove", OwnRows(h), {}, IF OwnRows(h) # {} THEN "clear" ELSE "ended")

\* The loop over known_channels_id_t skips channels that are gone by now.  A
\* channel that cannot be written to loses all its rows.
ProbeChannel(h) ==
    \E c \in left[h] :
        /\ at[h] \in {"probe", "purged"}
        /\ left' = [left EXCEPT ![h] = @ \ {c}]
        /\ UNCHANGED <<maps, job, torn, faults>>
        /\ \/ /\ UNCHANGED table
              /\ Goto(h, IF left[h] # {c} THEN at[h]
                         ELSE IF at[h] = "purged" THEN "clear" ELSE "ended")
           \/ /\ c \in DOMAIN bound
              /\ table' = {r \in table : r.chan # c}
              /\ Goto(h, IF left[h] # {c} THEN "purged" ELSE "clear")

-----------------------------------------------------------------------------
(* populate_known_channels.                                                *)

ClearBound(h) ==
    /\ at[h] = "clear"
    /\ bound' = [c \in {} |-> 0]
    /\ UNCHANGED <<table, listed, job, left, torn, faults>>
    /\ Goto(h, "clear_lists")

ClearListed(h) ==
    /\ at[h] = "clear_lists"
    /\ listed' = ListedBy({})
    /\ torn' = FALSE
    /\ UNCHANGED <<table, bound, job, left, faults>>
    /\ Goto(h, "query")

QueryChannels(h) ==
    /\ at[h] = "query"
    /\ left' = [left EXCEPT ![h] = table]
    /\ UNCHANGED <<table, maps, job, torn, faults>>
    /\ Goto(h, IF table = {} THEN "ended" ELSE "collect")

\* A list as a callback reads it before it appends: what another one is
\* appending may be missing.
Read(list, alone) ==
    {list} \cup {[list EXCEPT ![c] = @ - 1] : c \in {d \in Chans : ~alone /\ list[d] > 0}}

Collect(h, r) ==
    /\ at[h] = "collect"
    /\ bound' = [c \in DOMAIN bound \cup {r.chan} |-> IF c = r.chan THEN r.feed ELSE bound[c]]
    /\ \E list \in Read(listed[r.feed], \A g \in Commands \ {h} : ~Populates(g)) :
          listed' = [listed EXCEPT ![r.feed] = [list EXCEPT ![r.chan] = @ + 1]]
    /\ left' = [left EXCEPT ![h] = @ \ {r}]
    /\ UNCHANGED <<table, job, torn, faults>>
    /\ Goto(h, IF left[h] = {r} THEN "ended" ELSE "collect")

CollectChannel(h) == \E r \in left[h] : Collect(h, r)

-----------------------------------------------------------------------------
(* Failing statements and restarts.                                        *)

\* The panic is recovered.  A failing query leaves the maps empty, and one that
\* breaks between two rows leaves them short: the loop over the rows ends as if
\* there were no more.  A failing delete of the purge leaves them with what it
\* has deleted before.
StatementFails(h) ==
    /\ errors + restarts < MaxFaults
    /\ Active(h) /\ at[h] \notin {"clear", "clear_lists"}
    /\ errors' = errors + 1
    /\ torn' = (torn \/ at[h] \in {"query", "collect", "purged"})
    /\ UNCHANGED <<table, maps, job, left, restarts>>
    /\ Goto(h, "ended")

Restart ==
    /\ errors + restarts < MaxFaults
    /\ bound' \in BoundBy(table)
    /\ listed' = ListedBy(table)
    /\ at' = [h \in Commands |-> IF Active(h) THEN "ended" ELSE at[h]]
    /\ torn' = FALSE /\ mixed' = FALSE
    /\ restarts' = restarts + 1
    /\ UNCHANGED <<table, job, left, errors>>

-----------------------------------------------------------------------------
Next ==
    \/ \E h \in Commands :
          \/ ChannelHere(h) \/ ChannelRemove(h) \/ ChannelRemoveHere(h) \/ ChannelsAutopurge(h)
          \/ UpdateChannel(h) \/ AddChannel(h) \/ RemoveChannels(h) \/ ProbeChannel(h)
          \/ ClearBound(h) \/ ClearListed(h) \/ QueryChannels(h) \/ CollectChannel(h)
          \/ StatementFails(h)
    \/ Restart

Spec == Init /\ [][Next]_vars

-----------------------------------------------------------------------------
(* What the maps are for.                                                  *)

\* How often a line of feed f is posted in channel c: Discord_message_send, its
\* raw form and the sending of embeds.
Posts(f, c) == listed[f][c]

-----------------------------------------------------------------------------
(***************************************************************************)
(* Properties.                                                             *)
(***************************************************************************)

\* Table, maps and locals keep their types: no list ever counts below zero.
TypeOK ==
    /\ table \subseteq Row
    /\ DOMAIN bound \subseteq Chans /\ bound \in [DOMAIN bound -> Feeds]
    /\ listed \in [Feeds -> [Chans -> Nat]]
    /\ at \in [Commands -> Stages] /\ job \in [Commands -> Job]
    /\ left \in [Commands -> SUBSET (Row \cup Chans)]
    /\ mixed \in BOOLEAN /\ torn \in BOOLEAN
    /\ errors \in Nat /\ restarts \in Nat

\* However commands and their rebuilds overlap: when all have ended, a channel
\* that a row of the table binds is known, so that what is typed there is
\* taken for its server, unless the last rebuild failed.
BoundChannelsAreKnown ==
    Quiet /\ ~torn => \A r \in table : r.chan \in DOMAIN bound

\* When no two rebuilds overlapped, and the last did not fail, a line of a feed
\* is posted in every channel once for each row that binds it, and nowhere
\* else: however the statements of the commands interleaved, no row is
\* forgotten, no removed one is kept and none is listed twice.
ListsAreExact ==
    Quiet /\ ~torn /\ ~mixed =>
        \A f \in Feeds, c \in Chans :
            Posts(f, c) = Bindings(table, f, c)
=============================================================================
