\* plan, generate and the operator between them, over two plans.
SPECIFICATION Spec
CONSTANTS
    Value <- TwoValues
    Late = {1}
    Unlabeled = {2}
    Label <- SameLabel
    MaxIndex = 5
    Fees = {1, 2}
    Disciplines = {TRUE, FALSE}
    Mishaps <- EveryMishap
    MaxMishaps = 1
    MaxPlans = 2
    None = None
INVARIANTS TypeOK PaysConfirmedWallet BundleWasAccepted BookedIsSpent
PROPERTIES FreshWhenWritten AddressesUsedOnce NothingLeftUnsaid
CHECK_DEADLOCK FALSE
