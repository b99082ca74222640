\* Timers at high priority, over one process that is never descheduled.
SPECIFICATION Spec
CONSTANTS
  m = m
  a = a
  b = b
  g = g
  h = h
  c1 = c1
  c2 = c2
  c3 = c3
  lin = lin
  lout = lout
  Time = Time
  Skip = Skip
  NoProc = NoProc
  Boot = m
  Proc = {m, g, h}
  HiProc = {g, h}
  Parent <- NoParent
  Chan = {c1}
  Reader <- HiReader
  Writer <- HiWriter
  Alter = {g}
  Timed = {}
  Skipper = {}
  Sleeper = {h}
  Link = {}
  User <- NoUser
  Jumper = {}
  LoopsInAlt = FALSE
INVARIANTS RunsOnce
PROPERTIES PrefixAtomic
