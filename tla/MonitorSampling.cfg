CONSTANTS
    Nics = {n1}
    MaxCount = 2
    MaxTicks = 3
    MaxTraffic = 1
    MaxClock = 2
    Second = 3
SPECIFICATION SamplingSpec
PROPERTIES RatesAreOfThePeriod UsageIsOfThePeriod
