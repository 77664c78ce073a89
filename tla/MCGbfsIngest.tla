---------------------------- MODULE MCGbfsIngest ----------------------------
(***************************************************************************)
(* Small instances of GbfsIngest: two stations, two publications of a      *)
(* feed, and one body of each kind that the ingest tells apart.            *)
(***************************************************************************)
EXTENDS GbfsIngest

CONSTANTS s1, s2, cron, operator

Usable(u, S) == [kind |-> "ok", last_updated |-> u, stations |-> S]

Useless == [kind |-> "error", last_updated |-> NoStamp, stations |-> {}]

Poison == [kind |-> "unreadable", last_updated |-> 2, stations |-> {s1}]

Undated == [kind |-> "ok", last_updated |-> NoStamp, stations |-> {s1}]

AllBodies == {Usable(1, {s1, s2}), Usable(2, {s1}), Useless, Poison, Undated}

GoodAndBad == {Usable(1, {s1}), Poison}
=============================================================================
