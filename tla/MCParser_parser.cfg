SPECIFICATION Spec
CONSTANTS
  Tickers <- MCTickers
  Phrases <- MCPhrases
  Keywords <- MCKeywords
  BuyKeys <- MCBuyKeys
  SellKeys <- MCSellKeys
  Weight <- MCWeight
  BuyVerbs <- MCBuyVerbs
  SellVerbs <- MCSellVerbs
  BuyHypothetical <- MCBuyHypothetical
  BuyTalk <- MCBuyTalk
  SellTalk <- MCSellTalk
  Recaps <- MCRecaps
  Reductions <- MCReductions
  TierOf <- MCTierOf
  Models <- MCModels
  Tweets <- MCTweets
  MinConfidence = 35
  MinMargin = 6
  KeywordClear = 3
  Floor = 90
  ReviewBelow = 50
CHECK_DEADLOCK FALSE
INVARIANTS NonHeaderFloor EveryTickerAnswered TradesHaveIntent MixedStandAlone
