SPECIFICATION Spec
CONSTANTS
  HttpRequests <- MCHttpRequests
  Settings <- MCSettings
  Outages <- MCOutages
  Asks <- MCAsks
  Histories <- MCHistories
  Messages <- MCMessages
  ToolChoices <- MCToolChoices
  Framings <- MCFramings
  Catalogs <- MCCatalogs
  Arguments <- MCArguments
  Prefaces <- MCPrefaces
  Answers <- MCAnswers
  Signals <- MCSignals
  Codes <- MCCodes
  Chunks <- MCChunks
  MaxChunks = 3
  ClaudeNames <- MCClaudeNames
  HaikuNames <- MCHaikuNames
  Fallback = "gpt-5.5"
  Hold = 2
  Slots = {0, 1}
  Unnamed = ""
  Spelling <- MCSpelling
  ShellToolNames <- MCShellNames
  ListToolNames <- MCListToolNames
  BodyNames <- MCBodyNames
  SearchNames <- MCSearchNames
  ReplaceNames <- MCReplaceNames
  CommandNames <- MCCommandNames
  ShellNames <- MCShellNames
  ShellLangs <- MCShellLangs
INVARIANTS ResultsNamed FencesCarry CallsRepaired ToneAdvertised StreamFaithful
