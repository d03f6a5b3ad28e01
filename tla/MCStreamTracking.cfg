SPECIFICATION FairSpec
CONSTANTS
  Threads = {t1, t2, t3}
  Streams = {s1, s2, s3}
  Fds = {f1, f2}
  NoThread = NoThread
  NoStream = NoStream
  NoFd = NoFd
  Usage = {"hand_over", "longjmp"}
  MaxJumps = 1
INVARIANTS
  TypeOK
  StreamsLoggedExactly
  DescriptorsConserved
  ClosedAfterOpened
  StreamHasDescriptor
PROPERTY
  ImplementsStreamLife
