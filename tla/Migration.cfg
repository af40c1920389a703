SPECIFICATION FairSpec
INVARIANTS OneGuest SenderHonest GuestSurvives
PROPERTIES ImplementsHandover BothEnd
