------------------------------ MODULE Configs -------------------------------
(***************************************************************************)
(* The configuration of the bot (db_part.go:321-394): app_config and its   *)
(* copy in memory, config_entries, which get_config and get_config_must    *)
(* read.  One entry per guild is the nickname the bot is to have there:    *)
(* bot_rename sets it, and nickchange_guard, run for every change of a     *)
(* member, in a goroutine of its own, sets it back when somebody else has  *)
(* renamed the bot.                                                        *)
(*                                                                         *)
(* Equal rows are one row: every statement treats them alike.              *)
(***************************************************************************)
EXTENDS Integers, FiniteSets

CONSTANTS
    Entries,        \* the keys
    NickEntry,      \* the entry with the nickname in the one guild
    Nicks,          \* nicknames, the user name of the bot, which is shown without, included
    Values,         \* what entries may be set to, Nicks included
    DefaultOf,      \* the entries def_config_init sets, with their values
    StartRows,      \* rows app_config may have at the start
    Commands,       \* goroutines running a command
    Jobs,           \* what they may be asked
    MaxRenames,     \* bound: renamings of the bot by others
    MaxFaults       \* bound: failing statements and restarts

Row == [entry : Entries, value : Values]
Job == [kind : {"set", "delete", "rename"}, entry : Entries, value : Values]

\* A nickname is what the table has for one at the start, and what bot_rename sets.
ConfigsAssumption ==
    /\ Jobs \subseteq Job /\ StartRows \subseteq Row /\ Nicks # {}
    /\ \A r \in StartRows : r.entry = NickEntry => r.value \in Nicks
    /\ \A j \in Jobs : j.kind = "rename" => j.entry = NickEntry /\ j.value \in Nicks
    /\ DOMAIN DefaultOf \subseteq Entries \ {NickEntry}
    /\ \A e \in DOMAIN DefaultOf : DefaultOf[e] \in Values

VARIABLES
    rows,           \* app_config
    memory,         \* config_entries, its domain the entries it has
    nick,           \* the nickname of the bot, as Discord has it
    events,         \* GuildMemberUpdate handlers yet to run, for each nickname
    reverts,        \* handlers about to set a nickname
    at, job,
    clash,          \* ghost: two commands on one entry overlapped
    strayed,        \* ghost: the nickname was never set back, and why
    renames, errors, restarts

vars == <<rows, memory, nick, events, reverts, at, job, clash, strayed,
          renames, errors, restarts>>

guard == <<nick, events, reverts>>
counts == <<renames, errors, restarts>>

Stages == {"idle", "update", "add", "store", "nickname", "remove", "forget", "ended"}

Active(h) == at[h] \notin {"idle", "ended"}
Quiet == \A h \in Commands : ~Active(h)

Goto(h, next) ==
    /\ at' = [at EXCEPT ![h] = next]
    /\ clash' = (clash \/ \E g \in Commands \ {h} :
                    job[g].entry = job[h].entry /\ Active(g) /\ Active(h)')

RowsOf(entry) == {r \in rows : r.entry = entry}

\* What populate_configs may make of a table: the last of several rows counts.
Loaded(table) ==
    {m \in [DOMAIN DefaultOf \cup {r.entry : r \in table} -> Values] :
        \A e \in DOMAIN m :
            LET values == {r.value : r \in {q \in table : q.entry = e}} IN
            IF values = {} THEN m[e] = DefaultOf[e] ELSE m[e] \in values}

Init ==
    /\ rows \in SUBSET StartRows
    /\ memory \in Loaded(rows)
    /\ nick = IF NickEntry \in DOMAIN memory THEN memory[NickEntry]
              ELSE CHOOSE n \in Nicks : TRUE
    /\ events = [n \in Nicks |-> 0] /\ reverts = [n \in Nicks |-> 0]
    /\ at = [h \in Commands |-> "idle"]
    /\ job \in [Commands -> Jobs]
    /\ clash = FALSE /\ strayed = FALSE
    /\ renames = 0 /\ errors = 0 /\ restarts = 0

-----------------------------------------------------------------------------
(* config_set, config_delete and bot_rename.                               *)

Command(h) ==
    /\ at[h] = "idle"
    /\ UNCHANGED <<rows, memory, guard, job, strayed, counts>>
    /\ Goto(h, IF job[h].kind = "delete" THEN "remove" ELSE "update")

ChangeRows(h, stage, old, new, next) ==
    /\ at[h] = stage
    /\ rows' = (rows \ old) \cup new
    /\ UNCHANGED <<memory, guard, job, strayed, counts>>
    /\ Goto(h, next)

Asked(h) == [entry |-> job[h].entry, value |-> job[h].value]

UpdateConfig(h) ==
    LET old == RowsOf(job[h].entry) IN
    ChangeRows(h, "update", old, IF old = {} THEN {} ELSE {Asked(h)},
               IF old = {} THEN "add" ELSE "store")

AddConfig(h) == ChangeRows(h, "add", {}, {Asked(h)}, "store")

RemoveConfig(h) ==
    LET old == RowsOf(job[h].entry) IN
    ChangeRows(h, "remove", old, {}, IF old = {} THEN "ended" ELSE "forget")

ChangeMemory(h, stage, m, next) ==
    /\ at[h] = stage
    /\ memory' = m
    \* Only bot_rename goes on to set the nickname.
    /\ strayed' = (strayed \/ (job[h].entry = NickEntry /\ job[h].kind # "rename"))
    /\ UNCHANGED <<rows, guard, job, counts>>
    /\ Goto(h, next)

StoreConfig(h) ==
    ChangeMemory(h, "store",
                 [e \in DOMAIN memory \cup {job[h].entry} |->
                    IF e = job[h].entry THEN job[h].value ELSE memory[e]],
                 IF job[h].kind = "rename" THEN "nickname" ELSE "ended")

\* A default is gone as well, until the bot is started again.
ForgetConfig(h) ==
    ChangeMemory(h, "forget", [e \in DOMAIN memory \ {job[h].entry} |-> memory[e]], "ended")

\* The nickname becomes n; Discord tells of changes only.
SetNick(n) ==
    /\ nick' = n
    /\ events' = IF n = nick THEN events ELSE [events EXCEPT ![n] = @ + 1]

\* Whether or not update_config has failed.
RenameBot(h) ==
    /\ at[h] = "nickname"
    /\ SetNick(job[h].value)
    /\ UNCHANGED <<rows, memory, reverts, job, strayed, counts>>
    /\ Goto(h, "ended")

-----------------------------------------------------------------------------
(* nickchange_guard, and what it is there for.                             *)

OthersRename ==
    \E n \in Nicks \ {nick} :
        /\ renames < MaxRenames
        /\ SetNick(n)
        /\ renames' = renames + 1
        /\ UNCHANGED <<rows, memory, reverts, at, job, clash, strayed, errors, restarts>>

\* Reverts to the nickname wanted are due when up.Nick is another one.
GuardIf(n, wrong) ==
    /\ events[n] > 0
    /\ events' = [events EXCEPT ![n] = @ - 1]
    /\ reverts' = IF NickEntry \in DOMAIN memory /\ wrong
                  THEN [reverts EXCEPT ![memory[NickEntry]] = @ + 1] ELSE reverts
    /\ UNCHANGED <<rows, memory, nick, at, job, clash, strayed, counts>>

\* Mutant: the guard trusts changes made while a rename is on its way.
GuardUnlessRenaming(n) ==
    GuardIf(n, n # memory[NickEntry] /\ \A h \in Commands : at[h] # "nickname")

GuardChecks(n) == GuardIf(n, n # memory[NickEntry])

GuardReverts(n) ==
    /\ reverts[n] > 0
    /\ reverts' = [reverts EXCEPT ![n] = @ - 1]
    /\ SetNick(n)
    /\ UNCHANGED <<rows, memory, at, job, clash, strayed, counts>>

-----------------------------------------------------------------------------
(* Failures.                                                               *)

\* The panic of a statement is recovered in update_config, so that bot_rename
\* goes on; that of GuildMemberNickname ends the command or the guard.
StatementFails(h) ==
    /\ errors + restarts < MaxFaults
    /\ at[h] \in {"update", "add", "remove", "nickname"}
    /\ errors' = errors + 1
    /\ strayed' = (strayed \/ at[h] = "nickname")
    /\ UNCHANGED <<rows, memory, guard, job, renames, restarts>>
    /\ Goto(h, IF at[h] \in {"update", "add"} /\ job[h].kind = "rename" THEN "nickname"
               ELSE "ended")

RevertFails(n) ==
    /\ errors + restarts < MaxFaults
    /\ reverts[n] > 0
    /\ reverts' = [reverts EXCEPT ![n] = @ - 1]
    /\ errors' = errors + 1 /\ strayed' = TRUE
    /\ UNCHANGED <<rows, memory, nick, events, at, job, clash, renames, restarts>>

\* Events of the time the bot was down are lost, and nothing looks at the
\* nickname at the start.
Restart ==
    /\ errors + restarts < MaxFaults
    /\ memory' \in Loaded(rows)
    /\ events' = [n \in Nicks |-> 0] /\ reverts' = [n \in Nicks |-> 0]
    /\ at' = [h \in Commands |-> IF Active(h) THEN "ended" ELSE at[h]]
    /\ clash' = FALSE /\ strayed' = TRUE
    /\ restarts' = restarts + 1
    /\ UNCHANGED <<rows, nick, job, renames, errors>>

-----------------------------------------------------------------------------
Next ==
    \/ \E h \in Commands :
          \/ Command(h) \/ UpdateConfig(h) \/ AddConfig(h) \/ RemoveConfig(h)
          \/ StoreConfig(h) \/ ForgetConfig(h) \/ RenameBot(h) \/ StatementFails(h)
    \/ \E n \in Nicks : GuardChecks(n) \/ GuardReverts(n) \/ RevertFails(n)
    \/ OthersRename
    \/ Restart

Spec == Init /\ [][Next]_vars

-----------------------------------------------------------------------------
(***************************************************************************)
(* Properties.                                                             *)
(***************************************************************************)

TypeOK ==
    /\ rows \subseteq Row
    /\ DOMAIN memory \subseteq Entries /\ memory \in [DOMAIN memory -> Values]
    /\ nick \in Nicks
    /\ events \in [Nicks -> Nat] /\ reverts \in [Nicks -> Nat]
    /\ at \in [Commands -> Stages] /\ job \in [Commands -> Job]
    /\ clash \in BOOLEAN /\ strayed \in BOOLEAN
    /\ renames \in Nat /\ errors \in Nat /\ restarts \in Nat

\* Whoever renames the bot, and however renamings, commands and the guard's
\* goroutines overlap, it ends up with the nickname in its configuration: also
\* when two renames overlap, or the statement of one failed.  Not when the
\* entry was set by another command, when Discord refused to set a nickname, or
\* for changes made while the bot was down.
NickIsRestored ==
    /\ Quiet /\ ~strayed
    /\ \A n \in Nicks : events[n] = 0 /\ reverts[n] = 0
    /\ NickEntry \in DOMAIN memory
    => nick = memory[NickEntry]

\* When commands on one entry did not overlap, memory is what the next start
\* will make of the table, defaults that were deleted excepted: a failing
\* statement changes neither.
MemoryFollowsTable ==
    Quiet /\ ~clash =>
        \E m \in Loaded(rows) :
            /\ DOMAIN memory \subseteq DOMAIN m
            /\ DOMAIN m \ DOMAIN memory \subseteq DOMAIN DefaultOf
            /\ \A e \in DOMAIN memory : memory[e] = m[e]
=============================================================================
