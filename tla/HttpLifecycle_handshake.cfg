SPECIFICATION FairSpec
CONSTANT RequestInUnwind = FALSE
INVARIANTS NoCircularWait NothingLeftBehind
PROPERTIES TeardownHappens RequestAnswered
