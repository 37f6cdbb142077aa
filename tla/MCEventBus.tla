---------------------------- MODULE MCEventBus ----------------------------
(* A small instance of EventBus. *)
EXTENDS EventBus, TLC

CONSTANTS layer, editor, c1, c2, root, ann, ben, kernel, notes, shell, power, file

Produces(uid, app, scope, emits) == [uid |-> uid, app |-> app, scope |-> scope, emits |-> emits]
Consumes(uid, id, filter, types) ==
    [uid |-> uid, id |-> id, filter |-> filter, types |-> types, scope |-> {file}, exempt |-> FALSE]

\* The kernel layer, which sees Ann and Ben, and an app of Ann that also names Ben.
Peers == (layer :> Produces(root, kernel, {}, {file} \X {ann, ben}))
         @@ (editor :> Produces(ann, notes, {power}, {power} \X {ben}))

\* Two connections of Ann's shell with one id.
Feeds == (c1 :> Consumes(ann, shell, All, {power, file}))
         @@ (c2 :> Consumes(ann, shell, ben, {power, file}))

\* The app sends twice.
Bounds == (layer :> 1) @@ (editor :> 2)
===========================================================================
