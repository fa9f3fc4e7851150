SPECIFICATION AssemblySpec
CONSTANTS
  Parts = {"openapi"}
  Ingress = "lenso.web-ingress"
  Plugins = {"lenso.web-ingress", "orders", "feed", "chat"}
  Linked = {"orders", "feed"}
  Provides <- MCProvides
  SlotOf <- MCSlotOf
  LaneOrder <- MCLaneOrder
  InstanceKeys = {"default", "replica-web"}
  Configs <- MCConfigs
  Roots <- MCRoots
  ExtraBindings <- MCExtraBindings
  CookiePolicies <- MCCookiePolicies
  SocketPolicies <- MCSocketPolicies
  Identities = {"log", ""}
  Classes = {"wasi"}
  MaxHostCalls = 3
  MaxSimulatedCalls = 1
  Clones = {k1, k2}
  Limits = {"max_concurrent_requests"}
  MaxLimit = 2
  MaxMessage = 2
  MaxTransfer = 2
  HostCookieNames = {"__Host-s", "__Host-c"}
  HeaderNames = {"x-csrf", "cookie"}
  ExactOrigins = {"exact"}
  Components <- MCComponents
  BoundEndpoints <- MCBoundEndpoints
  SampleBodies <- MCSampleBodies
INVARIANT
  StrictMeansNoDrift
CHECK_DEADLOCK FALSE
