CONSTANTS
  Calls = {c1, c2}
  Runners = {r1}
  Limit = 1
  MaxFaults = 3
  Overrun = TRUE
  LateBots = TRUE
  NoCall = NoCall
  NoRunner = NoRunner
SPECIFICATION FairSpec
PROPERTIES EveryCallEnds WebhookTried TerminalBotReaped
