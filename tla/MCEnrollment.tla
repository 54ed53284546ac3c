---------------------------- MODULE MCEnrollment ----------------------------
(* Two processes that share a state directory or have one each, of which   *)
(* the second exists already. The first process has the first directory,   *)
(* and only a directory somebody uses is given a token.                    *)
EXTENDS Enrollment

CONSTANTS s1, s2, p1, p2
MCHost == {s1, s2}
MCProcess == {p1, p2}
MCProvisioned == {s2}
Fewer ==
    /\ dir[p1] = s1
    /\ \A h \in Host : config[h] # 0 => \E p \in Process : dir[p] = h
=============================================================================
