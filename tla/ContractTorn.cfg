SPECIFICATION ContractSpec
CONSTANTS
  w1 = w1
  w2 = w2
  w3 = w3
  key = key
  file = file
  log = log
  fake = fake
  avoid = avoid
  marker = marker
  Terms = {w1, w2, w3, key, file, log, fake}
  Inside <- SomeInside
  Files = {file}
  Lexicon <- SomeLexicon
  Values = {"one", "other", "two", "twice", "three", "secretive", "noisy"}
  TermsOf <- SomeTermsOf
  Tokens = {}
  Marker = marker
  Avoid = avoid
  Prompts <- SomePrompts
  Drafts <- SomeDrafts
  TermLimit = 2
  ClauseLimit = 2
  ContractLimit = 5
INVARIANTS DoneMeetsShownContract
