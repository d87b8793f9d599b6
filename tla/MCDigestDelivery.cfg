\* Two messages, two runs that may overlap, two chats, shutdowns and new starts.
SPECIFICATION Spec
CONSTANTS
  Emails = {e1, e2}
  Runs = {r1, r2}
  Chats = {t1, t2}
  NoChat = NoChat
  NoEmail = NoEmail
INVARIANTS TypeOK ReadIsInADigest NoRepeatAfterwards SentToConnectedChat
SYMMETRY Interchangeable
