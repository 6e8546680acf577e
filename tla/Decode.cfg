\* Two threads on one backend of each kind, four units of audio.
SPECIFICATION DecodeSpec
CONSTANTS
  d1 = d1  d2 = d2
  Decoders = {d1, d2}
  Kinds = {"qwen3", "cohere", "whisper"}
  Total = 4
  MaxChunk = 4
  MinChunk = 1
  Band = 1
  Window = 2
  MinTail = 1
  Snap = 1
  MaxUnloads = 1
CHECK_DEADLOCK FALSE
PROPERTY AudioIsAccountedFor
