SPECIFICATION KeyboardSpec
CONSTANTS
    N = 3
    Keys = {"A"}
PROPERTY StdinReadReturns
