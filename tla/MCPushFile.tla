----------------------------- MODULE MCPushFile -----------------------------
(* Small instances of PushFile for TLC. *)
EXTENDS PushFile

Destination(k, m, d, c) ==
    [kind |-> k, missing |-> m, denied |-> d, cache |-> c]

(* Directories can be created, as deep as the module can. *)
Writable ==
    {Destination("local", m, FALSE, {}) : m \in {0, 2}}
    \cup {Destination("sftp", m, FALSE, {}) : m \in {0, 2}}
    \cup {Destination("owncloud", m, FALSE, {}) : m \in {0, 1}}
    \cup {Destination("owncloud", 0, FALSE, {n}) : n \in 0 .. MaxBlocks}

Uploads == {Destination("owncloud", 0, FALSE, {})}

DeepUpload == {Destination("owncloud", 2, FALSE, {})}

ReadOnly == {Destination("local", 1, TRUE, {})}
=============================================================================
