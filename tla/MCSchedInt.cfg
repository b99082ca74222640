\* A process of high priority sleeps while two of low priority are timesliced.
SPECIFICATION Spec
CONSTANTS
  m = m
  a = a
  b = b
  g = g
  h = h
  c1 = c1
  c2 = c2
  c3 = c3
  lin = lin
  lout = lout
  Time = Time
  Skip = Skip
  NoProc = NoProc
  Boot = m
  Proc = {m, a, h}
  HiProc = {h}
  Parent <- NoParent
  Chan = {}
  Reader <- NoUser
  Writer <- NoUser
  Alter = {}
  Timed = {}
  Skipper = {}
  Sleeper = {h}
  Link = {}
  User <- NoUser
  Jumper = {m, a}
  LoopsInAlt = FALSE
INVARIANTS RunsOnce
