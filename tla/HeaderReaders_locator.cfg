SPECIFICATION Spec
CONSTANTS
    Locators = {"l"}
    Fetchers = {"f"}
    MaxHeight = 3
    MaxForks = 2
PROPERTY LocatorReturns
CHECK_DEADLOCK FALSE
