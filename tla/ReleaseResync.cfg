CONSTANTS
  Commits = {"c1", "c2"}
  Asked = {"none"}
  Replicas = {r1}
  SourceTicks = 1
  MaxReleases = 1
SPECIFICATION ReleasesSpec
INVARIANT DeploysLatestSync
CHECK_DEADLOCK FALSE
