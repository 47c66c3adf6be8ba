CONSTANTS
  Req = {r1, r2}
  Query = {q1}
  Component = {"mysql", "mariadb", "certbot"}
  Packages <- TwoOfCertbot
  Service = {"mysql", "mariadb"}
  Rival <- Databases
  Ask <- FewAsks
  MaxDeaths = 1
SPECIFICATION FairPackagesSpec
INVARIANTS StackIsPrefix StatusKnows
PROPERTIES RequestsEnd
CHECK_DEADLOCK FALSE
