SPECIFICATION MCSpec
CONSTANTS
  MaxReconnectAttempts = 5
  MaxDrops = 3
  page1 = page1
  page2 = page2
  main = main
  dark = dark
  Conns = {page1, page2, tool}
  Pages = {page1, page2}
  PageKey <- MCPageKey
  Channels = {main}
  Shows = {"s1", "s2"}
  Elements = {"e2"}
  NewElements = {}
  Updates = {}
  Bags = {}
  Presets <- MCPresets
  NoScene = NoScene
  Themes = {}
  NoTheme = NoTheme
  Ops = {"define", "stored", "sound", "show", "publish"}
  MaxOps = 2
  MaxConnects = 2
  MaxRotations = 1
INVARIANTS SubscriptionSurvives PagesFollow OutputsSeeOnlyTheirProgram
CHECK_DEADLOCK FALSE
