CONSTANTS
    Drives <- MCDrives
    Requests <- MCRequests
SPECIFICATION Spec
INVARIANTS MountsAsFormatted NoOldTables
PROPERTIES FirstFormatWhole FormatReturns
