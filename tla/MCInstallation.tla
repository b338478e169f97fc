--------------------------- MODULE MCInstallation ---------------------------
(* One domain in each of the two databases; web-cyradm also has the          *)
(* administrator of the IMAP server and an account of a lost domain.         *)
EXTENDS Installation, TLC

MCWebAccount == ("cyrus" :> "none") @@ ("u1" :> "web") @@ ("u2" :> "lost")
MCImapQuota == ("cyrus" :> 0) @@ ("u1" :> 2) @@ ("u2" :> 1)
=============================================================================
