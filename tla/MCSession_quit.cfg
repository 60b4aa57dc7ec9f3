SPECIFICATION Spec
CONSTANTS
  frank = frank
  sinatra = sinatra
  watchdog = watchdog
  frank_exch = frank_exch
  sinatra_exch = sinatra_exch
  a_message = a_message
  Clients = {frank, sinatra}
  Boxes = {frank_exch, sinatra_exch}
  Letters = {a_message}
  Bells = {}
  Nothing = Nothing
  InTransit = InTransit
  MaxCycles = 3
  NsPerMs = 3
  MsPerS = 2
  Words = 16
CHECK_DEADLOCK FALSE
PROPERTY QuitTerminates
