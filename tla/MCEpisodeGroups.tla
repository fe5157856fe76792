-------------------------- MODULE MCEpisodeGroups --------------------------
(* Four episodes, two scenarios and two starts: enough for chains in     *)
(* which scenarios and starts alternate, and for groups that stay apart.   *)
EXTENDS EpisodeGroups

CONSTANTS s1, s2, p1, p2

FourEpisodes == 0..3
=============================================================================
