SPECIFICATION FairSpec
CONSTANTS
  Mechs = {"CLEAR", "LOGIN", "PLAIN", "CRAM-MD5"}
  AdminName = {"admin", "root"}
  WebDomain = {"web"}
  WebAccount <- MCWebAccount
  WebAdmin = {"admin"}
  OldDomain = "old"
  OldAccount = "ou"
  CyrusAdmin = "cyrus"
  Server = "none"
  ImapQuota <- MCImapQuota
  MaxFaults = 3
INVARIANTS
  SetupUsable
  ImportComplete
PROPERTY RepeatedSetup
