CONSTANTS
    top = top
    sub = sub
    sock = sock
    link = link
    away = away
    kept = kept
    note = note
    in = in
    NULL = NULL
    Nodes <- MCNodes
    Parent <- MCParent
    Target <- MCTarget
    Plain = {sock, kept, note}
    Special = {sock}
    Path <- MCPath
    Fds = {3, 4, 5}
    MaxAddresses = 2
    MaxBytes = 3
    MaxText = 4
    MaxPattern = 2
    NPOS = 13
    Letters = {"a", "b"}
    unicode_lowers <- lowers
    unicode_uppers <- uppers
    MILLI = 3
    INT_MAX = 5
    Instants <- MCInstants
    Years <- MCYears
SPECIFICATION CallsSpec
INVARIANTS SplitReplaceJoin  TimesExact TransferExact SetupLeavesNothing TreeExact
PROPERTIES CallsReturn
