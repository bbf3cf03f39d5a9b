---------------------------- MODULE MCFileVolume ----------------------------
(***************************************************************************)
(* Histories of a file volume for model checking.  A history bounds how    *)
(* often the server and the power go away and which operations callers use *)
(* (the model's only other bounds are the sizes of its sets).              *)
(***************************************************************************)
EXTENDS FileVolume

History(format, offered, last, restarts, losses) ==
    [format |-> format, offered |-> offered, last |-> last,
     restarts |-> restarts, losses |-> losses]

\* Power lost twice; the server killed once; three losses during upgrades.  No history
\* here has both.
FaultHistories ==
    {History(2, {"create", "replace", "error", "abandon"}, 4, 0, 2),
     History(2, {"create", "remove", "replace", "error", "abandon"}, 4, 1, 0),
     History(1, {"upgrade", "error"}, 8, 0, 3)}

\* Requests are sent again and admissions executed while their file changes: the server is
\* killed at any command, or commands fail and callers walk away before a kill.
RetryHistories ==
    {History(4, {"create", "admit", "track", "replace", "lookup"}, 6, 1, 0),
     History(4, {"create", "admit", "error", "abandon"}, 4, 1, 0)}

\* Requests, lookups and new epochs with the server killed or power lost at any command.
AdmissionHistories ==
    {History(5, {"create", "admit", "track", "epoch", "lookup"}, 5, 1, 0),
     History(5, {"create", "admit", "track", "epoch", "lookup"}, 5, 0, 1)}

\* The server killed first and power lost later.
MixedHistories == {History(3, {"create", "track", "lookup"}, 3, 1, 1)}
=============================================================================
