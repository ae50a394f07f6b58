CONSTANT Jobs <- MCJobs
SPECIFICATION Spec
INVARIANTS SourceOrder PitchesAudible NotesLastAsWritten
PROPERTIES PassedIsFinal PassTerminates
