---------------------------- MODULE MCGithubApp ----------------------------
(* One App whose creation two requests may work on, one installation       *)
(* attempt with two visits, an installation of this App and one of another. *)
EXTENDS GithubApp

CONSTANTS a1, i1, mine, other, r1, r2, v1, v2
MCAppOf == [x \in {mine, other} |-> IF x = mine THEN a1 ELSE None]
=============================================================================
