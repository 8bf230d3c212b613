SPECIFICATION Spec
CONSTANTS
  Handlers = {h1, h2}
  Texts <- MCTexts
  normalize <- MCnormalize
  StaticHits = {"c"}
  MAX_CACHE_ENTRIES = 1
  max_rps = 0
  cache_ttl = 1
  timeout = 1
  Configs <- MCConfigs
  Contested = {"a"}
  MaxArrivals = 3
INVARIANT CacheAndCallsBounded
PROPERTIES PassIsVetted EveryRequestAnswered
