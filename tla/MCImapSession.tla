----------------------------- MODULE MCImapSession -----------------------------
(* An instance of ImapSession for TLC: a mailbox with a folder and one below.  *)
EXTENDS ImapSession

MCRequest == {"create", "quotaOnly", "subscribe", "remove", "check", "checkUnlimited", "list", "update"}
MCBelow == [f \in Folder |-> IF f = "f1" THEN {"f2"} ELSE {}]
MCFolders == <<"f1", "f2">>
MCCapabilities == {"ID"}
=============================================================================
