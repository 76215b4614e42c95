------------------------------ MODULE Dispatch ------------------------------
(***************************************************************************)
(* What happens to a message (messageCreate, discord_main.go:288-442), and *)
(* the protection from spam (spam_check, 1253-1269).  Every message has a  *)
(* goroutine of its own.  A command, a shell line or a line typed in a     *)
(* chat channel is counted; the count is read, written back and compared   *)
(* without a lock, while a ticker sets all counts to zero.  Who exceeds    *)
(* the limit is flagged until the bot restarts, and banned (Bans); of a    *)
(* flagged user only the first message after a tick is looked at.  A shell *)
(* line typed in a chat channel goes on as chat and is counted again.      *)
(***************************************************************************)
EXTENDS Integers, FiniteSets

CONSTANTS
    Users, Registered,  \* Registered: those with a ckey in local_users
    Superuser,          \* discord_superuser_id
    discord_spam_prot_limit,
    Handlers,           \* goroutines of messages, each used again when it is done
    Messages,           \* what users may send
    MaxMessages, MaxTicks,  \* bounds
    MaxFaults           \* bound: restarts of the bot

Message == [user : Users, kind : {"command", "baninfo", "shell", "text"},
            \* Of the channel: one that a bot command reads, or OOC, or a private one.
            chat : BOOLEAN, private : BOOLEAN]

DispatchAssumption ==
    /\ Messages \subseteq Message /\ Messages # {}
    /\ Registered \subseteq Users /\ discord_spam_prot_limit \in Nat
    /\ MaxMessages \in Nat /\ MaxTicks \in Nat

VARIABLES
    checks,         \* discord_spam_prot_checks
    flagged,        \* discord_spam_prot_bans
    banned,         \* registered users that check_bans stops
    at, message,
    ccnt,           \* what spam_check has read
    outcomes,       \* what became of the messages of each user
    sent, ticks,
    counted,        \* ghost: spam checks of a user since the tick
    spammed,        \* ghost: users with more than the limit between two ticks
    straddled,      \* ghost: a tick came between the read and the write of a count
    restarts

vars == <<checks, flagged, banned, at, message, ccnt, outcomes, sent, ticks, counted,
          spammed, straddled, restarts>>

spam == <<checks, flagged, banned, ccnt>>
ghosts == <<counted, spammed, straddled, restarts>>

Stages == {"idle", "count", "write", "judge", "ban", "flag", "filter", "dispatch"}
Outcomes == {"deleted", "banned", "refused", "run", "logged off", "relayed"}

Goto(h, next) == at' = [at EXCEPT ![h] = next]

Author(h) == message[h].user
Ends(h, outcome) ==
    /\ Goto(h, "idle")
    /\ outcomes' = [outcomes EXCEPT ![Author(h)] = @ \cup {outcome}]

\* What stands in message before there is one.
AnyMessage == CHOOSE m \in Messages : TRUE

Init ==
    /\ checks = [u \in Users |-> 0]
    /\ flagged = {} /\ banned = {}
    /\ at = [h \in Handlers |-> "idle"]
    /\ message = [h \in Handlers |-> AnyMessage]
    /\ ccnt = [h \in Handlers |-> 0]
    /\ outcomes = [u \in Users |-> {}]
    /\ sent = 0 /\ ticks = 0
    /\ counted = [u \in Users |-> 0]
    /\ spammed = {} /\ straddled = {} /\ restarts = 0

-----------------------------------------------------------------------------
\* "won't execute commands in private channels", unless it is the superuser who
\* asks; text elsewhere than in a chat is not for the bot.
Ignored(m) == (m.private /\ m.user # Superuser) \/ (m.kind = "text" /\ ~m.chat)

Receive(h) ==
    \E m \in Messages :
        /\ at[h] = "idle" /\ sent < MaxMessages
        /\ sent' = sent + 1
        /\ message' = [message EXCEPT ![h] = m]
        /\ Goto(h, IF Ignored(m) THEN "idle" ELSE "count")
        /\ UNCHANGED <<spam, outcomes, ticks, ghosts>>

-----------------------------------------------------------------------------
(* spam_check.                                                             *)

Spam(h, stage, next) ==
    /\ at[h] = stage /\ Goto(h, next)
    /\ UNCHANGED <<message, outcomes, sent, ticks>>

ReadCount(h) ==
    LET u == Author(h) IN
    /\ Spam(h, "count", "write")
    /\ ccnt' = [ccnt EXCEPT ![h] = checks[u]]
    /\ counted' = [counted EXCEPT ![u] = @ + 1]
    /\ spammed' = IF counted'[u] > discord_spam_prot_limit THEN spammed \cup {u} ELSE spammed
    /\ UNCHANGED <<checks, flagged, banned, straddled, restarts>>

WriteCount(h) ==
    /\ Spam(h, "write", "judge")
    /\ checks' = [checks EXCEPT ![Author(h)] = ccnt[h] + 1]
    /\ UNCHANGED <<flagged, banned, ccnt, ghosts>>

JudgeAt(h, limit) ==
    /\ Spam(h, "judge", IF ccnt[h] < limit \/ Author(h) \in flagged THEN "filter"
                        ELSE IF Author(h) \in Registered THEN "ban" ELSE "flag")
    /\ UNCHANGED <<spam, ghosts>>

\* Mutant: the limit is one too low.
JudgeEarly(h) == JudgeAt(h, discord_spam_prot_limit - 1)

Judge(h) == JudgeAt(h, discord_spam_prot_limit)

\* update_ban recovers its panics: the flag is set in any case.
Autoban(h) ==
    /\ Spam(h, "ban", "flag")
    /\ banned' \in {banned, banned \cup {Author(h)}}
    /\ UNCHANGED <<checks, flagged, ccnt, ghosts>>

Flag(h) ==
    /\ Spam(h, "flag", "filter")
    /\ flagged' = flagged \cup {Author(h)}
    /\ UNCHANGED <<checks, banned, ccnt, ghosts>>

\* "return ccnt == 0"; a message that does not pass is deleted.
Filter(h) ==
    /\ at[h] = "filter"
    /\ IF Author(h) \in flagged /\ ccnt[h] # 0 THEN Ends(h, "deleted")
       ELSE Goto(h, "dispatch") /\ UNCHANGED outcomes
    /\ UNCHANGED <<spam, message, sent, ticks, ghosts>>

-----------------------------------------------------------------------------
(* The rest of messageCreate.                                              *)

Dispatched(h, kinds, outcome) ==
    /\ at[h] = "dispatch" /\ message[h].kind \in kinds
    /\ Ends(h, outcome)
    /\ UNCHANGED <<spam, message, sent, ticks, ghosts>>

\* The one character that begins a command or a shell line, alone.
TooShort(h) == Dispatched(h, {"command", "shell"}, "refused")

Stopped(h) == Author(h) \in banned

\* "you're banned from this action. Try !baninfo."
RefuseBanned(h) == Stopped(h) /\ Dispatched(h, {"command", "shell"}, "banned")

\* Unknown, for a bound channel only, above the rank of the user, with too few
\* arguments, or run: Permissions and the command decide.
RunCommand(h) ==
    \E outcome \in {"refused", "run"} :
        /\ ~Stopped(h) \/ message[h].kind = "baninfo"
        /\ Dispatched(h, {"command", "baninfo"}, outcome)

\* There is no return: in a chat channel the line is text as well.
RunShell(h) ==
    /\ at[h] = "dispatch" /\ message[h].kind = "shell" /\ ~Stopped(h)
    /\ outcomes' = [outcomes EXCEPT ![Author(h)] = @ \cup {"run"}]
    /\ message' = [message EXCEPT ![h].kind = "text"]
    /\ Goto(h, IF message[h].chat THEN "count" ELSE "idle")
    /\ UNCHANGED <<spam, sent, ticks, ghosts>>

\* A stranger is logged off and told so, a banned one is refused.
RelayChat(h) ==
    Dispatched(h, {"text"}, IF Author(h) \notin Registered THEN "logged off"
                            ELSE IF Stopped(h) THEN "banned" ELSE "relayed")

-----------------------------------------------------------------------------
\* The spam ticker of Dopen.
Tick ==
    /\ ticks < MaxTicks
    /\ ticks' = ticks + 1
    /\ checks' = [u \in Users |-> 0]
    /\ counted' = [u \in Users |-> 0]
    /\ straddled' = straddled \cup {Author(h) : h \in {g \in Handlers : at[g] = "write"}}
    /\ UNCHANGED <<flagged, banned, at, message, ccnt, outcomes, sent, spammed, restarts>>

\* Nothing recovers in messageCreate: a command of blanks alone, of which Fields
\* makes no word, is enough.  Bans are in a table, flags and counts are not.
Restart ==
    /\ restarts < MaxFaults
    /\ restarts' = restarts + 1
    /\ checks' = [u \in Users |-> 0] /\ flagged' = {}
    /\ counted' = [u \in Users |-> 0]
    /\ at' = [h \in Handlers |-> "idle"]
    /\ message' = [h \in Handlers |-> AnyMessage] /\ ccnt' = [h \in Handlers |-> 0]
    /\ UNCHANGED <<banned, outcomes, sent, ticks, spammed, straddled>>

Next ==
    \/ \E h \in Handlers :
          \/ Receive(h) \/ ReadCount(h) \/ WriteCount(h) \/ Judge(h) \/ Autoban(h)
          \/ Flag(h) \/ Filter(h)
          \/ TooShort(h) \/ RefuseBanned(h) \/ RunCommand(h) \/ RunShell(h) \/ RelayChat(h)
    \/ Tick
    \/ Restart

Spec == Init /\ [][Next]_vars

-----------------------------------------------------------------------------
TypeOK ==
    /\ checks \in [Users -> Nat] /\ flagged \subseteq Users /\ banned \subseteq Registered
    /\ at \in [Handlers -> Stages] /\ message \in [Handlers -> Message]
    /\ ccnt \in [Handlers -> Nat]
    /\ outcomes \in [Users -> SUBSET Outcomes]
    /\ sent \in 0..MaxMessages /\ ticks \in 0..MaxTicks
    /\ counted \in [Users -> Nat] /\ spammed \subseteq Users /\ straddled \subseteq Users
    /\ restarts \in Nat

\* Only who was counted more than the limit between two ticks is flagged,
\* banned, or loses a message, however the handlers and the ticker interleave:
\* counts of messages that overlap get lost, but none is counted twice.  Not so
\* when a tick came between the read and the write of a count, which then
\* survives the tick.
OnlySpammersAreFlagged ==
    \A u \in Users \ straddled :
        u \in flagged \cup banned \/ "deleted" \in outcomes[u] => u \in spammed
=============================================================================
