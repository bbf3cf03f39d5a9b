----------------------------- MODULE MCVolume7 ------------------------------
(* Histories of a volume of format 7 for model checking. *)
EXTENDS Volume7

CONSTANTS c1, c2

History(offered, keys, lengths, payloads, last, restarts, losses, errors) ==
    [offered |-> offered, keys |-> keys, lengths |-> lengths, payloads |-> payloads, last |-> last,
     restarts |-> restarts, losses |-> losses, errors |-> errors]

\* Two uploads at once, among replacements and retention.
Stages == History({"create", "track", "stage", "Tracked", "retain"}, 1..3, {1}, {c1, c2}, 4, 0, 0, 0)

\* Uploads that overlap admissions, executions and cancellations of the same file.
Admissions == History({"create", "admit", "execute", "cancel", "stage", "Admission", "Tracked"}, 1..2, {0, 2}, {c1}, 5, 0, 0, 0)

\* A kill, a power loss and a device error at any command, with retries.
Faults == History({"create", "track", "admit", "execute", "retry", "abort"}, 1..1, {1}, {c1}, 4, 1, 1, 1)

\* Freed sectors are written again while an older header still names them.
Reuse == History({"create", "remove", "track", "retain"}, 1..2, {1}, {c1, c2}, 6, 0, 1, 0)

\* A stage interrupted by a kill and a power loss, then tried again.
Uploads == History({"create", "stage", "Admission", "retry"}, 1..1, {1}, {c1}, 3, 1, 1, 1)

MCHistories == {Stages, Admissions, Faults, Reuse, Uploads}
=============================================================================
