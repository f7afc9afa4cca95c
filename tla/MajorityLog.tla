---------------------------- MODULE MajorityLog ----------------------------
(***************************************************************************)
(* What majority write concern and majority read concern promise together: *)
(* there is one log of committed entries, which only ever grows at its     *)
(* end, and every reader is shown a prefix of it, which grows as well until *)
(* the reader loses its snapshot.                                          *)
(***************************************************************************)
EXTENDS Naturals, Sequences

CONSTANTS Reader, Entry

VARIABLES
    log,     \* the committed entries
    shown    \* shown[n]: how many of them a majority read at n sees

Init == log = <<>> /\ shown = [n \in Reader |-> 0]

\* What is shown at n rises, and never past what is committed.
Raise(n) == \E k \in shown[n]..Len(log') : shown' = [shown EXCEPT ![n] = k]

\* A primary finds that a majority has more of its log, and may show it at once.
Commit(n) ==
    /\ log' \in Seq(Entry) /\ Len(log) < Len(log') /\ SubSeq(log', 1, Len(log)) = log
    /\ Raise(n)

Show(n) == log' = log /\ Raise(n)

\* The snapshot of n is gone: it restarts or rolls back.
Drop(n) == log' = log /\ shown' = [shown EXCEPT ![n] = 0]

Next == \E n \in Reader : Commit(n) \/ Show(n) \/ Drop(n)

Spec == Init /\ [][Next]_<<log, shown>>
=============================================================================
