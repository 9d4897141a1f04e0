CONSTANT Programs <- MCPrograms
SPECIFICATION FairSpec
CHECK_DEADLOCK FALSE
INVARIANT ParsedAsWritten
PROPERTY ParsingEnds
