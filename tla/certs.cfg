\* Two handshakes at a time for one name, two CAs, three lives of the daemon (two kills).
SPECIFICATION Spec
CONSTANTS
  Hosts = {app}
  Handshakes = {t1, t2}
  CAs = {c1, c2}
  Keys = {k1, k2, k3, k4, k5, k6}
  None = None
  Validity = 3
  Window = 1
  MaxNow = 3
  MaxFaults = 2
INVARIANTS AnswersGood OneCertPerLife
PROPERTIES HandshakesEnd
