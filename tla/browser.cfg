SPECIFICATION FairSpec
CONSTANTS
  Tabs = {t1, t2}
  NoTab = NoTab
  Layouts <- MCLayouts
  Scripts <- MCScripts
  Faults = {"launch", "connect", "cdp", "load", "crash"}
INVARIANTS BrowserInv RefsOfLastSnapshot ActTruthful
PROPERTIES  OnlyPageBlocks
