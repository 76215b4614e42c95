---------------------------- MODULE StatusEmbeds ----------------------------
(***************************************************************************)
(* The status embeds of the servers (byond_part.go:248-256, 364-447): for  *)
(* each server, the channels it is shown in and the message that is edited *)
(* there, no more than one per channel.  associated_embeds is what an      *)
(* update walks through, dynamic_embeds what it is loaded from.  !status_bind *)
(* writes the table first, !status_unbind the map.  An update edits the    *)
(* message of every channel, and unbinds a channel that Discord does not   *)
(* know any more.  Updates exclude each other (StatusTicker), commands do  *)
(* not.                                                                    *)
(***************************************************************************)
EXTENDS Integers, FiniteSets

CONSTANTS
    Servers, Chans,
    Commands,       \* goroutines running a command, or the update of a server
    Jobs,           \* what they do
    MaxMessages,    \* bound: messages the bot has posted for embeds
    MaxFaults       \* bound: failing statements and restarts

Messages == 0..MaxMessages
Row == [server : Servers, chan : Chans, msg : Messages]
Job == [kind : {"bind", "unbind", "update"}, server : Servers, chan : Chans]

StatusEmbedsAssumption == Jobs \subseteq Job /\ MaxMessages \in Nat

VARIABLES
    rows,           \* dynamic_embeds
    embeds,         \* server_statuses[server].associated_embeds
    posted,         \* the last message posted for an embed
    gone,           \* channels that were deleted on Discord
    at, job,
    left,           \* the message of a bind; the channels an update has yet to edit
    clash,          \* ghost: a channel of a server was bound and unbound at once
    torn,           \* ghost: a statement failed after the map had been changed
    errors, restarts

vars == <<rows, embeds, posted, gone, at, job, left, clash, torn, errors, restarts>>

discord == <<posted, gone>>
faults == <<torn, errors, restarts>>

Stages == {"idle", "update", "create", "store", "refresh", "edit", "forget", "delete", "ended"}

Active(h) == at[h] \notin {"idle", "ended"}
Quiet == \A h \in Commands : ~Active(h)
Writes(h) == at[h] \in {"update", "create", "store", "forget", "delete"}

\* h goes on to stage next, about to do j.
Goto(h, j, next) ==
    /\ at' = [at EXCEPT ![h] = next]
    /\ job' = [job EXCEPT ![h] = j]
    /\ clash' = (clash \/ \E g \in Commands \ {h} :
                    job[g].server = j.server /\ job[g].chan = j.chan /\ Writes(g) /\ Writes(h)')

\* What populate_server_embeds may make of the table.
Loaded(table) ==
    {[s \in Servers |-> {<<r.chan, r.msg>> : r \in {q \in chosen : q.server = s}}] :
        chosen \in {c \in SUBSET table : \A r \in table :
            Cardinality({q \in c : q.server = r.server /\ q.chan = r.chan}) = 1}}

Init ==
    /\ rows \in {{[server |-> s, chan |-> c, msg |-> 0]} : s \in Servers, c \in Chans}
    /\ embeds \in Loaded(rows)
    /\ posted = 0 /\ gone \in SUBSET Chans
    /\ at = [h \in Commands |-> "idle"]
    /\ job \in [Commands -> Jobs]
    /\ left = [h \in Commands |-> {}]
    /\ clash = FALSE /\ torn = FALSE
    /\ errors = 0 /\ restarts = 0

-----------------------------------------------------------------------------
(* bind_server_embed.                                                      *)

\* The message is posted before anything else; a channel that is gone has none.
StatusBind(h) ==
    /\ at[h] = "idle" /\ job[h].kind = "bind"
    /\ job[h].chan \notin gone /\ posted < MaxMessages
    /\ posted' = posted + 1
    /\ left' = [left EXCEPT ![h] = {posted + 1}]
    /\ UNCHANGED <<rows, embeds, gone, faults>>
    /\ Goto(h, job[h], "update")

OwnRows(h) == {r \in rows : r.server = job[h].server /\ r.chan = job[h].chan}

ChangeRows(h, stage, old, new, next) ==
    /\ at[h] = stage
    /\ rows' = (rows \ old) \cup new
    /\ UNCHANGED <<embeds, discord, left, faults>>
    /\ Goto(h, job[h], next)

NewRows(h) == {[server |-> job[h].server, chan |-> job[h].chan, msg |-> m] : m \in left[h]}

UpdateEmbedRow(h) ==
    ChangeRows(h, "update", OwnRows(h), IF OwnRows(h) = {} THEN {} ELSE NewRows(h),
               IF OwnRows(h) = {} THEN "create" ELSE "store")

CreateEmbedRow(h) == ChangeRows(h, "create", {}, NewRows(h), "store")

Others(h) == {e \in embeds[job[h].server] : e[1] # job[h].chan}

ChangeMap(h, stage, shown, next) ==
    /\ at[h] = stage
    /\ embeds' = [embeds EXCEPT ![job[h].server] = shown]
    /\ UNCHANGED <<rows, discord, faults>>
    /\ Goto(h, job[h], next)

\* global_update follows, and edits the embed for the first time.
StoreEmbed(h) ==
    /\ ChangeMap(h, "store", Others(h) \cup ({job[h].chan} \X left[h]), "refresh")
    /\ UNCHANGED left

-----------------------------------------------------------------------------
(* unbind_server_embed.                                                    *)

StatusUnbind(h) ==
    /\ at[h] = "idle" /\ job[h].kind = "unbind"
    /\ UNCHANGED <<rows, embeds, discord, left, faults>>
    /\ Goto(h, job[h], "forget")

ForgetEmbed(h) ==
    /\ ChangeMap(h, "forget", Others(h), "delete")
    /\ UNCHANGED left

\* An update that has unbound a channel goes on with the next.
DeleteIf(h, old) ==
    ChangeRows(h, "delete", old, {}, IF job[h].kind = "unbind" THEN "ended" ELSE "edit")

\* Mutant: the row of the dead channel stays.
DeleteWhenAsked(h) == DeleteIf(h, IF job[h].kind = "unbind" THEN OwnRows(h) ELSE {})

DeleteEmbedRow(h) == DeleteIf(h, OwnRows(h))

-----------------------------------------------------------------------------
(* update_embeds, and what happens to channels meanwhile.                  *)

Updates(h) == at[h] = "edit" \/ (job[h].kind = "update" /\ Active(h))

UpdateEmbeds(h) ==
    /\ at[h] = "refresh" \/ (at[h] = "idle" /\ job[h].kind = "update")
    /\ \A g \in Commands : ~Updates(g)
    \* A server that answers with nothing has no embed edited.
    /\ \E walk \in {{}, {e[1] : e \in embeds[job[h].server]}} : left' = [left EXCEPT ![h] = walk]
    /\ UNCHANGED <<rows, embeds, discord, faults>>
    /\ Goto(h, job[h], "edit")

\* A channel that was unbound meanwhile is skipped.
EditEmbed(h) ==
    /\ at[h] = "edit"
    /\ IF left[h] = {} THEN UNCHANGED left /\ Goto(h, job[h], "ended")
       ELSE \E c \in left[h] :
              /\ left' = [left EXCEPT ![h] = @ \ {c}]
              /\ IF c \in gone /\ \E e \in embeds[job[h].server] : e[1] = c
                 THEN Goto(h, [job[h] EXCEPT !.kind = "update", !.chan = c], "forget")
                 ELSE Goto(h, job[h], "edit")
    /\ UNCHANGED <<rows, embeds, discord, faults>>

ChannelDeleted ==
    /\ gone' \in {gone \cup {c} : c \in Chans}
    /\ UNCHANGED <<rows, embeds, posted, at, job, left, clash, faults>>

\* A recovered panic ends a bind or an unbind; the update it is part of goes on.
StatementFails(h) ==
    /\ errors + restarts < MaxFaults
    /\ at[h] \in {"update", "create", "delete"}
    /\ errors' = errors + 1
    /\ torn' = (torn \/ at[h] = "delete")
    /\ UNCHANGED <<rows, embeds, discord, left, restarts>>
    /\ Goto(h, job[h], IF job[h].kind = "update" THEN "edit" ELSE "ended")

Restart ==
    /\ errors + restarts < MaxFaults
    /\ embeds' \in Loaded(rows)
    /\ at' = [h \in Commands |-> IF Active(h) THEN "ended" ELSE at[h]]
    /\ torn' = FALSE
    /\ restarts' = restarts + 1
    /\ UNCHANGED <<rows, discord, job, left, clash, errors>>

Next ==
    \/ \E h \in Commands :
          \/ StatusBind(h) \/ UpdateEmbedRow(h) \/ CreateEmbedRow(h) \/ StoreEmbed(h)
          \/ StatusUnbind(h) \/ ForgetEmbed(h) \/ DeleteEmbedRow(h)
          \/ UpdateEmbeds(h) \/ EditEmbed(h)
          \/ StatementFails(h)
    \/ ChannelDeleted
    \/ Restart

Spec == Init /\ [][Next]_vars

-----------------------------------------------------------------------------
TypeOK ==
    /\ rows \subseteq Row
    /\ embeds \in [Servers -> SUBSET (Chans \X Messages)]
    /\ posted \in Messages /\ gone \subseteq Chans
    /\ at \in [Commands -> Stages] /\ job \in [Commands -> Job]
    /\ left \in [Commands -> SUBSET (Messages \cup Chans)]
    /\ clash \in BOOLEAN /\ torn \in BOOLEAN
    /\ errors \in Nat /\ restarts \in Nat

\* When no two commands or updates wrote one channel of one server at once and
\* no delete failed, the embeds that are kept up to date are those the next
\* start will load, each channel with the same message, also after failing
\* binds and channels that have died in the middle of an update.
EmbedsOutliveTheBot ==
    Quiet /\ ~clash /\ ~torn =>
        rows = UNION {{[server |-> s, chan |-> e[1], msg |-> e[2]] : e \in embeds[s]} : s \in Servers}
=============================================================================
