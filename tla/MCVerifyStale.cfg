\* A signed file of the batch before, under the name of one of this batch.
SPECIFICATION Spec
CONSTANTS
    Value <- TwoValues
    Late = {}
    Unlabeled = {1}
    Label <- SameLabel
    MaxIndex = 5
    Fees = {1}
    Disciplines = {FALSE}
    Mishaps = {}
    MaxMishaps = 0
    MaxPlans = 2
    None = None
INVARIANTS VerifiedSpendsItsCoin
CHECK_DEADLOCK FALSE
