CONSTANTS
  Audios = {a1, a2}
  NoAudio = NoAudio
  Labels = {A, B}
  Unknown = Unknown
  Transcripts <- MCTranscripts
  Diarizations <- MCDiarizations
  Builds <- MCBuilds
  Faults = {"spawn", "ffmpeg", "whisper", "json", "pyannote", "cancel", "crash"}
  AwaitStrays = TRUE
  MaxCalls = 2
  MaxTime = 2
  MaxSegments = 3
  MaxTurns = 3
SPECIFICATION FairSpec
INVARIANTS
  TypeOK
  ResultIsOwn
  WhisperReaped
  TagIsMaxOverlap
  SpeakersNumbered
PROPERTY AbandonedCallEnds
CHECK_DEADLOCK FALSE
