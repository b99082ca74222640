\* Two priorities, the link, an ALT with a time guard, and channels between
\* the priorities.
SPECIFICATION Spec
CONSTANTS
  m = m
  a = a
  b = b
  g = g
  h = h
  c1 = c1
  c2 = c2
  c3 = c3
  lin = lin
  lout = lout
  Time = Time
  Skip = Skip
  NoProc = NoProc
  Boot = m
  Proc = {m, a, h}
  HiProc = {h}
  Parent <- NoParent
  Chan = {c1, c2, c3}
  Reader <- PriReader
  Writer <- PriWriter
  Alter = {m, a}
  Timed = {a}
  Skipper = {m}
  Sleeper = {}
  Link = {lin, lout}
  User <- PriUser
  Jumper = {m, a, h}
  LoopsInAlt = FALSE
INVARIANTS TypeOK RunsOnce OnlyReadyExecute WaitersFindable HiFirst AltChooses
