SPECIFICATION Spec
INVARIANTS
    
    RunsAsAsked
CONSTANTS
    CommandLines <- MCCommandLines
    Files <- MCFiles
    Catalogue <- MCCatalogue
CHECK_DEADLOCK FALSE
