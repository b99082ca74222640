\* A PAR of three branches, two of which talk to the third, timesliced.
SPECIFICATION FairSpec
CONSTANTS
  m = m
  a = a
  b = b
  g = g
  h = h
  c1 = c1
  c2 = c2
  c3 = c3
  lin = lin
  lout = lout
  Time = Time
  Skip = Skip
  NoProc = NoProc
  Boot = m
  Proc = {m, a, b}
  HiProc = {}
  Parent <- ParParent
  Chan = {c1, c2}
  Reader <- ParReader
  Writer <- ParWriter
  Alter = {m}
  Timed = {}
  Skipper = {}
  Sleeper = {b}
  Link = {lin, lout}
  User <- LoUser
  Jumper = {m, a, b}
  LoopsInAlt = FALSE
INVARIANTS RunsOnce WaitersFindable
PROPERTIES EveryReadyRuns
