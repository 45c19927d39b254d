CONSTANTS
  home = home
  drive = drive
  Projects = Projects
  Folders = {home, drive}
  Size <- MCSize
  Drive = {drive}
  Home = home
  MaxRows = 2
  Codes = {"502"}
  plain = plain
  archive = archive
  Files = {plain, archive}
  Plain = {plain}
  Archives = {archive}
  Protected = {}
  NoFile = NoFile
  Places <- MCPlaces
  Sessions <- MCSessions
  MaxOpen = 2
  Apps = {"plot", "serial", "notebook", "unallocated"}
  Html = {"notebook"}
  Unallocated = {"unallocated"}
  Unlicensed = {}
  Serial = {"serial"}
  Visible = {"shown"}
  Required = {"shown", "hidden"}
  Queue <- MCQueue
  Normal = {"normal"}
  Entries <- MCEntries
  NoApp = NoApp
  Teams = {"team1", "team2"}
  NoTeam = NoTeam
  Listings = {"first", "second"}
  ticket1 = ticket1
  ticket2 = ticket2
  Tickets = {ticket1, ticket2}
  NoTicket = NoTicket
  MaxEntries <- MCMaxEntries
  Workspaces = {space1, space2}
  Queries = {"all", "rare"}
  Nothing = Nothing
  anna = anna
  ben = ben
  Users = {anna, ben}
  NoUser = NoUser
  Steps = {"mfa", "access"}
  MaxEvents <- MCEvents
  One = 10
  east = east
  west = west
  north = north
  Counties = {east, west, north}
  NoCounty = NoCounty
  Types = {"abandonment", "neglect"}
  InitialType = "abandonment"
  Features = {"crowding", "poverty", "income"}
  InitialFeature = "crowding"
  Top = {"poverty", "income"}
  Years = {"y2018", "y2019"}
  Latest = "y2019"
  Offered <- MCOffered
  Maltreated <- MCMaltreated
  Observed <- MCObserved
  Functions = {"demographics", "resources"}
  Databases = {"cooks", "resources"}
  FileOf <- MCFileOf
  Requests = {request1, request2}
  MaxChanges = 2
  Systems = {"home", "compute"}
  StorageHost <- MCStorageHost
  LoginHost <- MCLoginHost
  Callers = {caller1, caller2}
  MaxKeys = 2
  Renewers = {renewer1, renewer2, renewer3}
  MaxTokens = 4
SPECIFICATION Spec
INVARIANTS
  TypeOK
  SpinnerIsServed
  ListingIsOfFolder
  WindowIsOfFile
  PageIsOfRoute
  RunTimeFits
  DeskIsCurrent
  OneVerdict
  StateIsCurrent
  PlotIsOfSelection
  ColourIsInClass
  AnswerIsCurrent
  CredentialsAgree
CHECK_DEADLOCK FALSE
