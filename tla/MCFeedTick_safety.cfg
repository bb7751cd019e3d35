SPECIFICATION FairSpec
CONSTANTS
  i1 = i1 i2 = i2 i3 = i3 f1 = f1 f2 = f2 p1 = p1 daemon = daemon drain = drain
  Items = {i1, i2, i3}
  Feed <- TwoFeeds
  Age <- Ages
  Content <- Copies
  NoPaper = NoPaper
  Guidless = {i3}
  Daemons = {daemon}
  Drains = {drain}
  Nobody = Nobody
  BatchSize = 2
  MaxErrors = 1
  MaxDeaths = 1
INVARIANTS OneTriagePerPaper ReadItemsWereDecided NoPaperIsLost
PROPERTY EveryItemIsRead
