------------------------------- MODULE MCBans -------------------------------
(***************************************************************************)
(* Small instances of the nine components, one of which is at work.        *)
(*                                                                         *)
(* Bans on two ckeys and two servers: kadm is an admin of the first server *)
(* only, kvic a player, sup the superuser, who is not registered.          *)
(***************************************************************************)
EXTENDS Components, TLC

CONSTANTS adm, vic, sup, kadm, kvic, s1, s2, ooc, cmds, cmd1, cmd2,
          f1, f2, c1, c2, c3, g1, g2, n0, n1, n2, nick_entry, cooldown_entry

MCUsers == {adm, vic, sup, Bot}
MCCkeys == {kadm, kvic}
MCServers == {s1, s2}
MCCkeyOf == adm :> kadm @@ vic :> kvic @@ sup :> Nobody @@ Bot :> Nobody
MCAdminsOf == s1 :> {kadm}
MCBits == {ooc, cmds}
MCCommands == {cmd1, cmd2}

AJob(kind, ckey, type, server, by) ==
    [kind |-> kind, ckey |-> ckey, type |-> type, server |-> server, by |-> by]

MCJobs ==
    { AJob("apply", kvic, {ooc}, s1, adm), AJob("apply", kadm, {cmds}, s1, sup),
      AJob("apply", kvic, MCBits, s1, Bot),
      AJob("lift", kvic, {ooc}, s1, adm), AJob("lift", kvic, {ooc}, s1, sup),
      AJob("override", kvic, {ooc}, s1, adm), AJob("override", kvic, {ooc}, s2, adm),
      AJob("override", kvic, {ooc}, s1, sup), AJob("override", kvic, {ooc}, AnyServer, adm),
      AJob("wipe", kvic, {ooc}, s1, adm), AJob("wipe", kvic, {ooc}, s1, sup) }

ABan(ckey, admin, type, perm) ==
    [ckey |-> ckey, admin |-> admin, type |-> type, perm |-> perm]

MCStartBans ==
    { ABan(kvic, kadm, {ooc}, PERMISSIONS_ADMIN), ABan(kvic, Nobody, {ooc}, PERMISSIONS_SUPERUSER) }
MCStartOverrides ==
    { [server |-> s1, ckey |-> kvic, type |-> {ooc}, perm |-> PERMISSIONS_ADMIN] }

Symmetry == Permutations(Commands)

-----------------------------------------------------------------------------
(* Channels: two feeds, two channels of one guild, one of another; a table *)
(* may list a channel twice.                                               *)

ChannelJob(kind, feed, chan) == [kind |-> kind, feed |-> feed, chan |-> chan]
ChannelRow(id, feed, chan) == [id |-> id, feed |-> feed, chan |-> chan]

MCFeeds == {f1, f2}
MCChans == {c1, c2, c3}
MCGuildOf == c1 :> g1 @@ c2 :> g1 @@ c3 :> g2
MCIds == 1..4
MCChannelJobs ==
    { ChannelJob("bind", f1, c1), ChannelJob("bind", f1, c3),
      ChannelJob("bind", f2, c1), ChannelJob("unbind", f1, c1),
      ChannelJob("unbind_here", f1, c1), ChannelJob("purge", f1, c1) }
MCChannelTables ==
    { {}, {ChannelRow(1, f1, c1)},
      {ChannelRow(1, f1, c1), ChannelRow(2, f2, c1)},
      {ChannelRow(1, f1, c1), ChannelRow(2, f1, c1)} }

(* Configs: the nickname entry, which has no default, and a cooldown. *)

ConfigJob(kind, entry, value) == [kind |-> kind, entry |-> entry, value |-> value]

MCEntries == {nick_entry, cooldown_entry}
MCNicks == {n0, n1, n2}
MCValues == MCNicks \cup {3, 4}
MCDefaultOf == cooldown_entry :> 4
MCConfigRows == { [entry |-> nick_entry, value |-> n1], [entry |-> cooldown_entry, value |-> 3] }
MCConfigJobs ==
    { ConfigJob("rename", nick_entry, n1), ConfigJob("rename", nick_entry, n2),
      ConfigJob("set", nick_entry, n2), ConfigJob("delete", nick_entry, n1),
      ConfigJob("set", cooldown_entry, 3), ConfigJob("set", cooldown_entry, 4),
      ConfigJob("delete", cooldown_entry, 3) }

(* Donators: one ckey, who is new, about to expire, or still waiting. *)

DonatorJob(kind, dur, discount) ==
    [kind |-> kind, ckey |-> kvic, dur |-> dur, discount |-> discount]
ADonator(upto, next) == [ckey |-> kvic, upto |-> upto, next |-> next]

MCDonors == {kvic}
MCCooldowns == {3}
MCDurations == {1, -1}
MCDonatorJobs ==
    { DonatorJob("update", 1, 0), DonatorJob("update", -1, 0), DonatorJob("check", 1, 0),
      DonatorJob("rolespawn", 1, 0), DonatorJob("rolespawn", 1, 2) }
MCDonatorTables == { {}, {ADonator(1, 0)}, {ADonator(2, 3)} }

(* Moderators: any table of two ckeys, and one that lists a ckey twice. *)

MCModeratorJobs == [kind : {"promote", "demote"}, ckey : MCCkeys]
MCModeratorTables == [MCCkeys -> 0..1] \cup {kadm :> 0 @@ kvic :> 2}

(* StatusEmbeds: two servers, two channels. *)

EmbedJob(kind, server, chan) == [kind |-> kind, server |-> server, chan |-> chan]

MCEmbedChans == {c1, c2}
MCEmbedJobs ==
    { EmbedJob("bind", s1, c1), EmbedJob("bind", s1, c2), EmbedJob("bind", s2, c1),
      EmbedJob("unbind", s1, c1), EmbedJob("update", s1, c1) }

(* LongMessages: a chunk takes 12 bytes, the mark has 5; texts that just *)
(* fit, do not quite, and take several chunks.                           *)

MCTexts ==
    UNION { [length : {n}, newlines : {{}} \cup {{a, b} : a, b \in 1..n}] : n \in {5, 12, 13, 26} }

(* ByondWire: requests and responses around one byte and two bytes. *)

MCRequests == {0, 100, 65529, 65530}
MCResponses == {1, 2, 5, 255, 256, 257, 300, 512, 65535}
MCShortReads == {0, 1, 2, 4, 254, 255, 256, 511}

(* Dispatch: a registered user, and the superuser, who is a stranger and   *)
(* may write in private; more than one message between two ticks is spam.  *)

AMessage(user, kind, chat, private) ==
    [user |-> user, kind |-> kind, chat |-> chat, private |-> private]

MCAuthors == {vic, sup}
MCRegistered == {vic}
MCMessages ==
    { AMessage(vic, "shell", TRUE, FALSE), AMessage(vic, "baninfo", FALSE, FALSE),
      AMessage(sup, "text", TRUE, FALSE), AMessage(vic, "command", FALSE, TRUE),
      AMessage(sup, "command", FALSE, TRUE) }
=============================================================================
