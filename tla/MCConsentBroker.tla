-------------------------- MODULE MCConsentBroker --------------------------
(* Small instances of ConsentBroker. *)
EXTENDS ConsentBroker, TLC

CONSTANTS app, portal, robot, camera, file, none

Body(peer, subject, what, kind, external, check) ==
    [peer |-> peer, onBehalfOf |-> subject, what |-> what, kind |-> kind,
     external |-> external, check |-> check]

Ordinary == Body(app, none, camera, "ordinary", FALSE, FALSE)
Mediated == Body(portal, app, camera, "ordinary", FALSE, FALSE)
Claimed == Body(app, portal, camera, "ordinary", FALSE, FALSE)
Irreversible == Body(app, none, camera, "irreversible", FALSE, FALSE)
Triggered == Body(app, none, camera, "ordinary", TRUE, FALSE)
OpenFile == Body(app, none, file, "ordinary", FALSE, FALSE)
Check == Body(app, none, camera, "ordinary", FALSE, TRUE)
OfPortal == Body(portal, none, camera, "ordinary", FALSE, FALSE)
OfRobot == Body(robot, none, camera, "ordinary", FALSE, FALSE)

\* What each instance lets its callers ask.
DialogBodies == {Ordinary, Irreversible}
GrantBodies == {Ordinary, Triggered}
IdentityBodies == {Ordinary, Mediated, Claimed, OfPortal, OfRobot, OpenFile, Check}

Symmetry == Permutations(Callers) \cup Permutations(Handlers)
============================================================================
