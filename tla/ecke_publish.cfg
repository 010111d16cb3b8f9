CONSTANTS
    draft = draft
    final = final
    r1 = r1
    r2 = r2
    Contents <- TwoContents
    Requests <- TwoRequests
    Worker = worker
    Regimes <- BothRegimes
    Nothing = Nothing
SPECIFICATION MCSpec
INVARIANTS TypeOK OnlyOfferedIsShown StatusIsTrue
PROPERTY WaitingJobPublishes
