--------------------------- MODULE MCSubscriptions ---------------------------
(***************************************************************************)
(* Subscriptions with two users, two guilds and two servers.  The first    *)
(* server has a channel in each guild, the second one in the first guild.  *)
(***************************************************************************)
EXTENDS Subscriptions, TLC

CONSTANTS ann, bea, guild1, guild2, main, event,
          c1, c2, c3, ask1, ask2, round1, round2

MCUsers == {ann, bea}
MCGuilds == {guild1, guild2}
MCServers == {main, event}
MCChannels == {c1, c2, c3}
MCGuildOf == c1 :> guild1 @@ c2 :> guild2 @@ c3 :> guild1
MCBoundTo == c1 :> main @@ c2 :> main @@ c3 :> event
MCAsks == {ask1, ask2}
MCRounds == {round1, round2}

\* Users, calls and webhooks are interchangeable.
Symmetry == Permutations(MCUsers) \cup Permutations(MCAsks) \cup Permutations(MCRounds)
=============================================================================
