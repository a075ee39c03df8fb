CONSTANTS
  Ids = {1, 2, 3}
  RecordFields = {"text", "file"}
  Typed = {"text"}
  Uploaded = {"file"}
  Required = {"text"}
  Pages = {1, 2}
  PerPage = 1
  Kinds = {"base", "worker"}
  Unborn = {3}
  Budgets <- SomeBudgets
  EnteredFields <- MCFields
  FormatSets <- MCFormatSets
  MaxChars = 3
  Passwords <- MCPasswords
  Schemas <- MCSchemas
  NameKey <- MCNameKey
  Camel <- MCCamel
  Files = {x1, x2}
  Modes = {"upsert", "replace"}
  Filters = {q}
  NoFile = NoFile
  NoFilter = NoFilter
  TransferBudgets <- MCTB
  DrawersUsed = {"s3", "account", "ratelimit-add", "ratelimit-edit", "password"}
  KeysEdited = {"file_s3_bucket", "username", "newPassword", "passwordConfirm", "currentPassword"}
  Rules = {1, 2, 3, 4}
  FirstRules <- Two
  SettingsBudgets <- MCSB
  Targets <- MCTargets
  OptionNames = {"option1", "draft"}
  MaxFields = 3
  EditorBudgets <- MCEB
  Collections = {"posts", "users"}
  NoCollection = ""
  CreationBudgets <- MCCB
  BuiltIn = "_workers"
  WorkerMouls = {"mails"}
  QueueJobs = {"j1", "j2"}
  TableOfJob <- MCTableOfJob
  QueueBudgets <- MCQB
  FlagKeys = {"dark", "beta"}
  NoFlag = ""
  FlagBudgets <- MCFB
  Watchable = {"posts", "users"}
  Everything = "*"
  LogLimit = 3
  StreamBudgets <- MCRB
  Tabs = {"tab1", "tab2"}
  Accounts = {1, 2}
  MasterKeys = {"key1", "key2"}
  SessionBudgets <- MCAB
SPECIFICATION DashboardSpec
INVARIANTS
  DrawerSound
  OwnWritesShown
  FormsAgree
  TransfersAsShown
  SavesWhatWasShown
  SchemaAsEdited
  CreatedAsChosen
  OrdersGoHome
  FlagsAsDone
  LogShowsStream
  SessionAgrees
PROPERTIES
  BatchAllGone
  DraftsKept
CHECK_DEADLOCK FALSE
