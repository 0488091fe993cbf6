\* Two writers and a reader on the history of one vehicle: three facts, of which an
\* intervention has no or two parts, over two moments; a warranty of two months
\* issued at ten on the last of December comes to its end at the second moment,
\* and is asked for then, the second before, and on that date.
CONSTANTS
    Writers = {w1, w2}
    Instants <- MCInstants
    AskedDates <- MCAskedDates
    AskedInstants <- MCAskedInstants
    MaxFacts = 3
    PartCounts = {0, 2}
    Coverages = {2}
SPECIFICATION Spec
SYMMETRY WriterSymmetry
INVARIANTS
    CausesAreOlder
    CausesFirst
    NothingMissing
    PartsAreWhole
    ValidUntilTheInstant
