SPECIFICATION Spec
CONSTANTS
  Tap = {t1, t2}
  game = game
  tool = tool
  reuse = reuse
  unity = unity
  App = {game, tool}
  Desktop = desktopCard
  Browsed = {tool}
  Prefix = {reuse, unity}
  PrefixOf <- MCPrefixOf
  Reuse = reuse
  EngineMoves <- GoodStart
  MaxCopies = 2
  MayStop = FALSE
INVARIANT NobodyWaitsForKnownRoot
