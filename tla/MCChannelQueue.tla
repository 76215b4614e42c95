--------------------------- MODULE MCChannelQueue ---------------------------
(***************************************************************************)
(* ChannelQueue on three calls, lines with and without a newline inside,   *)
(* and a chunk so small that the text has to be cut at a newline, cut by   *)
(* force, and cut by force with more text queued behind it.                *)
(***************************************************************************)
EXTENDS ChannelQueue

CONSTANTS a, b, one, two, three

MCChannels == {a, b}
MCCalls == {one, two, three}
MCShapes ==
    { <<"byte">>,
      <<"byte", "newline", "byte", "byte">>,
      <<"byte", "byte", "byte", "byte", "byte">> }
MCMaxSize == 4
MCMarkLen == 1
=============================================================================
