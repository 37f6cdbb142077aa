--------------------------- MODULE MCInstallDaemon ---------------------------
(* A small instance of InstallDaemon: one app in two versions, one Flatpak. *)
EXTENDS InstallDaemon

CONSTANTS app, net

Version(n, caps, pieces) == [app |-> app, version |-> n, caps |-> caps, parts |-> pieces]

\* The second version asks for less than the first, so that going from the
\* first to the second is silent and going back is not.
MCPackages ==
    {Version(1, {net}, {"modules", "settings"}), Version(2, {}, {"schemas", "keys"})}

\* A commit, and one that asks for more.
MCFlatContext == <<{}, {net}>>
==============================================================================
