--------------------------- MODULE MCConsentShell ---------------------------
(* Small instances of ConsentShell. *)
EXTENDS ConsentShell

CONSTANTS app, camera, mic, none

Body(what, kind) ==
    [peer |-> app, onBehalfOf |-> none, what |-> what, kind |-> kind,
     external |-> FALSE, check |-> FALSE]

\* Two different questions, one of them high-stakes.
MCBodies == {Body(camera, "ordinary"), Body(mic, "irreversible")}
=============================================================================
