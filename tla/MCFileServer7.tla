--------------------------- MODULE MCFileServer7 ---------------------------
(***************************************************************************)
(* Bounded histories of the file server.  All start from a volume with one *)
(* file and at most one retained record; each lets a few things happen     *)
(* that belong together.  Endpoint 1 is the publishing client's, endpoint  *)
(* 2 the other client's, endpoint 3 is free for a new grant.               *)
(***************************************************************************)
EXTENDS FileServer7, TLC

CONSTANTS file1, c1, c2

Profile(rights, subject, expires) ==
    [rights |-> rights, subject |-> subject, root |-> "workspace", scope |-> {file1}, expires |-> expires]

Writer  == Profile(ADMISSION7, 2, 0)
Other   == Profile(TRACKED_WRITE7, 3, 0)
Brief   == Profile(ADMISSION7, 2, 1)
Reader  == Profile(READ_ONLY7, 0, 0)
Foreign == [Writer EXCEPT !.scope = {}]
\* Profiles the service does not grant.
Unfit   == {[Other EXCEPT !.subject = 0], [Other EXCEPT !.root = "missing"], [Other EXCEPT !.root = "elsewhere"]}

\* A volume whose record, if any, is an admission or a direct write of the writer.
Volume(state) ==
    LET committed == state \in {"DirectCommitted", "AdmittedCommitted"}
    IN  [sequence |-> 3, epoch |-> 1,
         files    |-> file1 :> [version |-> IF committed THEN 3 ELSE 1, content |-> <<>>],
         records  |-> IF state = None THEN {}
                      ELSE {[subject |-> 2, key |-> 1, epoch |-> 1, object |-> file1, previous |-> 1,
                             content |-> <<c1>>, state |-> state,
                             reason |-> IF state = "Cancelled" THEN "Requested" ELSE None,
                             number |-> IF state = "DirectCommitted" THEN 0 ELSE 2,
                             committed |-> IF committed THEN 3 ELSE 0]}]

Only(first, second) == [e \in Ends |-> IF e = 2 THEN second ELSE first]

Bounds(requests, offered) ==
    [requests |-> requests, offered |-> offered, callers |-> {"granted"}, window |-> 1,
     keys |-> {1}, sizes |-> {1}, payloads |-> {c1}, orders |-> 0, owner |-> {}, profiles |-> {},
     leavers |-> {}, ownerLeaves |-> FALSE, errors |-> 0, ticks |-> 0,
     contexts |-> {CLIENTS + 1}]

\* An admitted write is executed or cancelled while the owner revokes and grants anew.
Execution ==
    [clients |-> <<Writer, None>>, start |-> Volume("Admitted"),
     bounds |-> [Bounds(Only(2, 0), Only({"EXECUTE", "CANCEL"}, {})) EXCEPT
                   !.orders = 2, !.owner = {"REVOKE", "GRANT"}, !.profiles = {Writer}]]

\* The device fails during an execution or cancellation; the owner may revoke.
Failure ==
    [clients |-> <<Writer, None>>, start |-> Volume("Admitted"),
     bounds |-> [Bounds(Only(2, 0), Only({"EXECUTE", "CANCEL", "GET"}, {})) EXCEPT
                   !.orders = 1, !.owner = {"REVOKE", "GRANT", "MAINTAIN"}, !.profiles = {Writer}, !.errors = 1]]

\* An upload is admitted while the owner detaches or revokes.
Upload ==
    [clients |-> <<Writer, None>>, start |-> Volume(None),
     bounds |-> [Bounds(Only(4, 0), Only({"OPEN", "CHUNK", "ACCEPT", "ABORT"}, {})) EXCEPT
                   !.orders = 1, !.owner = {"REVOKE", "DETACH", "PROBE"}, !.sizes = {2}, !.errors = 1]]

\* A tracked replacement, its receipts and the owner's maintenance.
Tracked ==
    [clients |-> <<Writer, None>>, start |-> Volume(None),
     bounds |-> [Bounds(Only(5, 0), Only({"REPLACE_OPEN", "REPLACE_CHUNK", "REPLACE_COMMIT", "REPLACE_ABORT",
                                          "OPERATION_PART"}, {})) EXCEPT
                   !.orders = 1, !.owner = {"MAINTAIN"}, !.errors = 1]]

\* An upload, while the other client's execution is polled, is opened or lost.
Sharing ==
    [clients |-> <<Writer, Writer>>, start |-> Volume("Admitted"),
     bounds |-> [Bounds(Only(1, 2), Only({"EXECUTE"}, {"OPEN", "REPLACE_OPEN"})) EXCEPT
                   !.orders = 1, !.owner = {"DETACH", "REVOKE"}, !.keys = {1, 2}]]

\* A grant runs out during an execution or an upload.
Expiry ==
    [clients |-> <<Brief, Brief>>, start |-> Volume("Admitted"),
     bounds |-> [Bounds(Only(1, 1), Only({"EXECUTE", "CANCEL"}, {"OPEN"})) EXCEPT !.keys = {2}, !.ticks = 1]]

\* Clients and the owner go away.
Departure ==
    [clients |-> <<Writer, Writer>>, start |-> Volume("Admitted"),
     bounds |-> [Bounds(Only(1, 1), Only({"EXECUTE"}, {"OPEN", "malformed"})) EXCEPT
                   !.keys = {2}, !.leavers = {1, 2}, !.ownerLeaves = TRUE, !.orders = 1, !.owner = {"PROBE"}]]

\* The owner goes away and the device fails.
Abandoned ==
    [clients |-> <<Writer, None>>, start |-> Volume("Admitted"),
     bounds |-> [Bounds(Only(1, 0), Only({"EXECUTE"}, {})) EXCEPT !.ownerLeaves = TRUE, !.errors = 1]]

\* A client that does not read its replies is replaced, or the owner's grant refused.
Replacement ==
    [clients |-> <<None, Other>>, start |-> Volume(None),
     bounds |-> [Bounds(Only(1, 3), Only({"READ"}, {"READ"})) EXCEPT
                   !.window = 3, !.orders = 1, !.owner = {"GRANT"}, !.profiles = {Other} \cup Unfit,
                   !.contexts = {CLIENTS + 1, LAST}]]

\* What was done is asked for again, uploaded again, or looked up, in each state of the record.
Repetition(state) ==
    [clients |-> <<Writer, None>>, start |-> Volume(state),
     bounds |-> [Bounds(Only(3, 0), Only({"OPEN", "CHUNK", "ACCEPT", "REPLACE_OPEN", "REPLACE_CHUNK",
                                          "REPLACE_COMMIT", "RETRY", "OPERATION_RETRY", "OPERATION_ID",
                                          "EXECUTE", "CANCEL"}, {})) EXCEPT
                   !.payloads = {c1, c2}, !.sizes = {1, 2}]]

\* Requests without the authority for them, or for more than a file may hold.
Refused(profile) ==
    [clients |-> <<profile, None>>, start |-> Volume("Admitted"),
     bounds |-> [Bounds(Only(2, 0), Only({"OPEN", "READ", "GET", "EXECUTE", "CANCEL", "REPLACE_OPEN",
                                          "OPERATION_RETRY"}, {})) EXCEPT
                   !.callers = {"granted", "stranger", "stale"}, !.sizes = {1, MAX_FILE + 1}]]

MCHistories ==
    {Execution, Failure, Upload, Tracked, Sharing, Expiry, Departure, Abandoned, Replacement}
      \cup {Repetition(state) : state \in {"Admitted", "AdmittedCommitted", "DirectCommitted", "Cancelled"}}
      \cup {Refused(profile) : profile \in {Reader, Other, Foreign, Writer}}
=============================================================================
