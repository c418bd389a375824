\* Loops, alternatives, word boundaries and a rune of two bytes; closures of more
\* than two instructions are expanded.
CONSTANTS
    MaxClosure = 2
    Programs <- MCPrograms
    Texts <- MCTexts
    Delim = "/"
SPECIFICATION Spec
INVARIANTS EndsAreMatches
PROPERTIES ReachNeverFalls
