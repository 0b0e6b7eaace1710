SPECIFICATION Spec
CONSTANTS
    Subjects <- MCSubjects
    Pool <- MCPool
    MaxSettings = 2
INVARIANTS ReadsWhatIsWritten LoadRestores SecondSaveIsSame
CHECK_DEADLOCK FALSE
