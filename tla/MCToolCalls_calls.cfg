SPECIFICATION Spec
CONSTANTS
  i1 = i1
  i2 = i2
  t1 = t1
  r1 = r1
  export = export
  patch = patch
  create = create
  old = old
  new = new
  Ids <- MCIds
  Tokens <- MCTokens
  Requests <- MCRequests
  NoRequest = NoRequest
  Works <- MCWorks
  Calls <- MCCalls
  Contents <- MCContents
  Written <- MCWritten
  Absent = Absent
  Loop = Loop
  NoToken = NoToken
  AlwaysConfirmed = {patch}
  Overwriting = {export}
  Unprobed = {patch}
  MaxWorking = 2
  MaxRetained = 1
  Ttl = 1
  TokenTtl = 0
  MaxTokens = 1
  MaxClock = 1
INVARIANTS
  CancelledNeverCompletes
  OneJobPerRequest
  TokenBuysOneRun
  RunsOnWhatWasApproved
  StoppedIsQuiet
  JoinsNeverHang
