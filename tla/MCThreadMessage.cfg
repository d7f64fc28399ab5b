\* Two threads on each side, two message contents and two slots: the order of
\* delivery shows, and a thread may slip in between a signal and a wakeup.
CONSTANTS
  Senders = {s1, s2}
  Receivers = {r1, r2}
  Message = {m1, m2}
  Capacity = 2
  Errors = {EOF}
  NoErr = NoErr
  NoMsg = NoMsg
  Ok = Ok
  Again = Again
SPECIFICATION FairSpec
INVARIANTS TypeOK NoLostWakeup NotAllAsleep
PROPERTIES ChannelSpec ErrorReleasesSenders ErrorReleasesReceivers MessagesMove
