CONSTANTS
  c1 = c1
  c2 = c2
  c3 = c3
  w1 = w1
  w2 = w2
  Clients = {c1, c2}
  Workers = {w1}
  Tasks <- Connections
  Exit = Exit
  NoTask = NoTask
  NoClient = NoClient
  NoSignal = NoSignal
  MaxRequests = 1
  Signals = {"SIGHUP", "SIGINT"}
SPECIFICATION ThreadsFairSpec
PROPERTY RequestAnswered
PROPERTY InterruptCloses
PROPERTY HangupCloses
CHECK_DEADLOCK FALSE
