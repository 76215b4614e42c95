------------------------------- MODULE MCRoles -------------------------------
(***************************************************************************)
(* Roles with one user in one guild: a player role, an admin role that two *)
(* servers may share, a subscriber role.                                   *)
(***************************************************************************)
EXTENDS Roles, TLC

CONSTANTS ann, guild, main, event, player, staff, fans, cmd, call

MCUsers == {ann}
MCGuilds == {guild}
MCServers == {main, event}
MCRoleIds == {player, staff, fans}
MCModerators == {}
MCCommands == {cmd}
MCCallers == {call}
MCListed == MCGuilds \X MCUsers

Of(tp, s, id) == [guild |-> guild, type |-> tp, server |-> s, role |-> id]
MCAtStart == {Of("player", AnyServer, player), Of("admin", main, staff),
              Of("subscriber", main, fans)}
MCChoices == MCAtStart \cup {Of("admin", event, staff)}

\* Nobody, or ann on one server.
MCAdminsAtStart == {main :> list @@ event :> {} : list \in SUBSET MCUsers}
=============================================================================
