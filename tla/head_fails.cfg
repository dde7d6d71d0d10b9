SPECIFICATION PartsSpec
CONSTANTS
  MaxFileSize = 2
  MaxRedirects = 2
  Urls <- MCUrls
  Lengths = {0, 2, 3}
  Used = {0}
  Limits = {1}
  EnvValues <- MCEnvValues
  FileValues <- MCFileValues
  Typed = 3
  MaxName = 3
  NameMax = 2
  Requested <- MCRequested
  Offered <- MCOffered
INVARIANTS
  HeadMayFail
