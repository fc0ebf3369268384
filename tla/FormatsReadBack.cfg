CONSTANTS
  FileIds = {"file1", "file2"}
  Formats = {"AAC_24", "MP3_96", "OGG_VORBIS_96"}
  LongFormats = {"OGG_VORBIS_96"}
  Missing = "none"
  MaxEntries = 2
SPECIFICATION TrackSpec
INVARIANT FormatsReadBack
