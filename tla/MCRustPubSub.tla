---------------------------- MODULE MCRustPubSub ----------------------------
(* Small instances of RustPubSub for TLC. *)
EXTENDS RustPubSub, TLC

CONSTANTS c1, c2, s1, s2, f1, f2

OneChannel    == {c1}
TwoChannels   == {c1, c2}
OneStream     == {s1}
TwoStreams    == {s1, s2}
TwoForwarders == {f1, f2}
=============================================================================
