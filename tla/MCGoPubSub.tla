----------------------------- MODULE MCGoPubSub -----------------------------
(* Small instances of GoPubSub for TLC. *)
EXTENDS GoPubSub, TLC

CONSTANTS c1, c2, s1, s2

TwoChannels == {c1, c2}
TwoSubs     == {s1, s2}

\* One subscription over both channels, and one that shares a channel with it.
SharedWish  == s1 :> {c1, c2} @@ s2 :> {c1}
=============================================================================
