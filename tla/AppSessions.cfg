SPECIFICATION FairSpec
CONSTANTS
  Tap = {t1, t2}
  game = game
  tool = tool
  reuse = reuse
  unity = unity
  App = {game, tool}
  Desktop = desktopCard
  Browsed = {tool}
  Prefix = {reuse, unity}
  PrefixOf <- MCPrefixOf
  Reuse = reuse
  EngineMoves <- AnyMove
  MaxCopies = 2
  MayStop = TRUE
INVARIANTS LaunchesAreSound OneProcessPerCard
PROPERTY DeferredIsAnswered
