----------------------------- MODULE AppendLog -----------------------------
(***************************************************************************)
(* What Arlen's sealed logs promise their clients, without files, chains   *)
(* or checkpoints: while a log is open its entries are only ever added to, *)
(* at the end, and a log is never opened without every entry it once       *)
(* acknowledged.  While it is closed anything may happen to it.  Only a    *)
(* loss of log and witness together goes unnoticed: the log then starts    *)
(* over.                                                                   *)
(***************************************************************************)
EXTENDS Naturals

CONSTANT Entries

VARIABLES
    log,    \* the entries by position, counted from 0
    open,   \* whether the log takes entries
    acked,  \* the entries whose writers were told they are in the log
    gone    \* whether log and witness were lost together

vars == <<log, open, acked, gone>>
-----------------------------------------------------------------------------
\* The positions in use count from 0 without a gap, and n is the next one.
Gapless == \A i \in DOMAIN log : 0 .. i \subseteq DOMAIN log
End(n) == n \notin DOMAIN log /\ \A i \in 0 .. n : i = n \/ i \in DOMAIN log

Contains(e) == \E i \in DOMAIN log : log[i] = e

Init ==
    /\ log = <<>>
    /\ open = FALSE
    /\ acked = {}
    /\ gone = FALSE

Write(e) ==
    /\ open
    /\ \E n \in DOMAIN log' :
          /\ End(n)
          /\ log' = [i \in DOMAIN log \cup {n} |-> IF i = n THEN e ELSE log[i]]
    /\ UNCHANGED <<open, acked, gone>>

Acknowledge(e) ==
    /\ open
    /\ Contains(e)
    /\ acked' = acked \cup {e}
    /\ UNCHANGED <<log, open, gone>>

Close ==
    /\ open
    /\ open' = FALSE
    /\ UNCHANGED <<acked, gone>>

Open ==
    /\ ~open
    /\ Gapless
    /\ gone \/ \A e \in acked : Contains(e)
    /\ open' = TRUE
    /\ UNCHANGED <<log, acked, gone>>

Damage ==
    /\ ~open
    /\ gone => gone'
    /\ UNCHANGED <<open, acked>>

Next ==
    \/ \E e \in Entries : Write(e) \/ Acknowledge(e)
    \/ Close \/ Open \/ Damage

Spec == Init /\ [][Next]_vars
=============================================================================
