SPECIFICATION Spec
CONSTANT Jobs <- XmesJobs
INVARIANT EntriesReadBack
