CONSTANTS
  Threads = {t1, t2}
  Methods = {"m", "n"}
  Overridden = {"m"}
  AttachMayFail = FALSE
  MaxDepth = 4
  Lookers = {u1, u2}
  Loaders = {"app", "plugin"}
  ClassNames = {"App"}
  Caches = {c1, c2, c3}
  Found <- FoundHere
  Natives = {"v1", "v2"}
  Globals = {"g1", "g2"}
  MaxGuards = 2
  MaxLocals = 1
  MaxClones = 2
  AppLoaders = {"app", "plugin"}
  AppClasses = {"a", "b", "p", "s"}
  LoaderOf <- LoaderOfHere
  Matching = {"a", "b", "s"}
  Instances = {"i", "j", "k"}
  OfClass = {"i", "j"}
  MaxVisits = 3
  Throwables = {"x", "y"}
  HookDepth = 2
  MaxCalls = 2
  MaxArguments = 3
SPECIFICATION BridgeSpec
SYMMETRY Symmetry
INVARIANT OriginalRunsUnderItsCallback
INVARIANT OriginalIsReached
INVARIANT ScopedLookupsStayInScope
INVARIANT AttachmentsAreReturned
INVARIANT GlobalsAreLive
 
INVARIANT ThreadsComeBack
INVARIANT GroupsAreByLoader
INVARIANT ExceptionReachesJava
INVARIANT HandlerRunsClean
INVARIANT LocalsAreLive
INVARIANT TextsMeanOneType
INVARIANT ValuesSurvive
INVARIANT CallbacksGetTheirArguments
INVARIANT AccessesAreWellFormed
INVARIANT CallsFindTheirOverload
INVARIANT ElementsKeepTheirType
