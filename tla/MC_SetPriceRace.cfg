\* Two /set_price requests in flight, for one prediction whose model
\* output is 2, with two actual prices.
CONSTANTS
    ModelOutputs = {2}
    ActualPrices = {1, 3}
    MaxPredictions = 1
    MaxInFlight = 2
SPECIFICATION Spec
PROPERTY PriceSetOnce
