SPECIFICATION PartsSpec
CONSTANTS
  MaxFileSize = 2
  MaxRedirects = 2
  Urls <- MCUrls
  Lengths = {0, 2, 3}
  Used <- MCUsed
  Limits <- MCLimits
  EnvValues <- MCEnvValues
  FileValues <- MCFileValues
  Typed = 3
  MaxName = 3
  NameMax = 2
  Requested <- MCRequested
  Offered <- MCOffered
INVARIANTS
  AnswersJustified
  ClientsClosed
  VerdictWithinRounding
  FilesInTaskDir
  UrlLeadsToFile
  ServicesAgree
  OldTtlKept
  WizardKeepsSettings
