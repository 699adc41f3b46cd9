----------------------------- MODULE MCSessionApi -----------------------------
(***************************************************************************)
(* Two connections and two runs, of the same session or of different ones.  *)
(***************************************************************************)
EXTENDS SessionApi

CONSTANTS s1, s2, x, y

MCSockets == 1..2
MCSessions == {s1, s2}
MCBroadcasts == {x, y}
=============================================================================
