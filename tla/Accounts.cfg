\* Model values are shared between modules: only one of these moves at a time.
CONSTANTS
  a1 = a1
  a2 = a2
  b1 = b1
  b2 = b2
  c1 = c1
  c2 = c2
  A = {a1, a2}
  B = {b1, b2}
  C = {c1, c2}
  \* Groups
  admins = admins
  Users = {first}
  Groups = {admins, second}
  Builtin = admins
  Requests = {c1, c2}
  MaxLength = 2
  \* Links
  source = source
  dashboard = dashboard
  object = object
  DataSources = {source}
  Dashboards = {dashboard}
  LinkedQueries = {object}
  LinkGroups = {a1, a2}
  Listings = {first}
  Deletions = {second}
  MaxLinks = 2
  \* Sessions
  first = first
  second = second
  Accounts = {first, second}
  First = first
  Emails = {"one", "two"}
  FirstEmail = "one"
  Browsers = {a1, a2}
  MaxHash = 2
  \* Results
  Sources = {a1, a2}
  Texts = {"text"}
  QueryIds = {b1, b2}
  Executors = {c1, c2}
  Limit = 1
  MaxResults = 2
  \* Content
  ContentQueries = {first, second}
  VisualizationIds = {a1, a2}
  WidgetIds = {dashboard}
  AlertIds = {source}
  SubscriptionIds = {admins}
  Removers = {object}
  \* Catalog
  Items = {first, b1, b2}
  Own = {first}
  Lists = {"queries", "queries of groups", "archive", "favorites", "dashboards of groups", "visualizations"}
  SortKeys = {1, 2}
  PageSize = 1
  MaxLinked = 2
  MaxEdits = 2
SPECIFICATION Spec
SYMMETRY Accounted
INVARIANTS
  AccountsTypeOK
  GroupsAsRequested
  ListFailsOnlyIf
  AcceptedTypedPassword
  LinkedToLatest
  DeletionFailsOnlyIf
  ArchivedIsBare
  PagesMissOnlyIf
CHECK_DEADLOCK FALSE
