---------------------------- MODULE Permissions ----------------------------
(***************************************************************************)
(* Who may do what: the permission levels and how one is found for a user  *)
(* (discord_main.go:51-63, 238-286).  A ckey stands for its simplified     *)
(* form; the lists are those the bot holds in memory.                      *)
(***************************************************************************)
EXTENDS Integers

CONSTANTS
    Users, Ckeys, Servers,
    Nobody,         \* "", the ckey of a user who is not registered
    AnyServer,      \* "", the server of a channel bound to none
    Superuser,      \* discord_superuser_id
    Bot,            \* discord_bot_user_id
    CkeyOf,         \* local_users
    Moderators,     \* local_moderators
    AdminsOf        \* Known_admins; a server whose list never loaded is absent

ASSUME PermissionsAssumption ==
    /\ Nobody \notin Ckeys
    /\ AnyServer \notin Servers
    /\ CkeyOf \in [Users -> Ckeys \cup {Nobody}]
    /\ Superuser \in Users /\ Bot \in Users
    /\ Moderators \subseteq Ckeys
    /\ DOMAIN AdminsOf \subseteq Servers
    /\ \A s \in DOMAIN AdminsOf : AdminsOf[s] \subseteq Ckeys

PERMISSIONS_NONE == -1
PERMISSIONS_REGISTERED == 0
PERMISSIONS_ADMIN == 1
PERMISSIONS_MODERATOR == 2
PERMISSIONS_SUPERUSER == 3

Levels == PERMISSIONS_NONE..PERMISSIONS_SUPERUSER

\* A moderator everywhere; an admin of the server, or of any server when the
\* channel is bound to none; else a registered user.
LevelOfCkey(ckey, server) ==
    IF ckey \in Moderators THEN PERMISSIONS_MODERATOR
    ELSE IF \E s \in DOMAIN AdminsOf :
               server \in {s, AnyServer} /\ ckey \in AdminsOf[s]
         THEN PERMISSIONS_ADMIN
         ELSE PERMISSIONS_REGISTERED

\* The same with the superuser's ckey recognised.
LevelOfCkeySp(ckey, server) ==
    IF CkeyOf[Superuser] = ckey THEN PERMISSIONS_SUPERUSER
                                ELSE LevelOfCkey(ckey, server)

Level(user, server) ==
    IF user \in {Superuser, Bot} THEN PERMISSIONS_SUPERUSER
    ELSE IF CkeyOf[user] = Nobody THEN PERMISSIONS_NONE
         ELSE LevelOfCkey(CkeyOf[user], server)
=============================================================================
