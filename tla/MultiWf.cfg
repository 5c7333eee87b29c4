SPECIFICATION FairSpec
CONSTANTS
  a = a
  b = b
  c = c
  e = e
  f = f
  g = g
  h = h
  p = p
  q = q
  s = s
  u = u
  v = v
  d1 = d1
  d2 = d2
  d3 = d3
  d4 = d4
  d5 = d5
  d6 = d6
  Dag = {d1, d2, d3, d4, d5, d6}
  Node = {a, b, c, e, f, g, h, p, q, s, u, v}
  dagOf <- MCDagOf
  Prev <- MCPrev
  Service <- MCService
  Cancellable = {d2, d6}
  Workloads <- Workload
  Schedulers <- AllSchedulers
INVARIANTS StartsInOrder ReleaseIsFinal StopExplained
PROPERTY DagsEnd
CHECK_DEADLOCK FALSE
