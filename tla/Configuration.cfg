SPECIFICATION Spec
CONSTANTS
  Sources <- MCSources
  Scopes <- MCScopes
  Secrets <- MCSecrets
  Templates <- MCTemplates
  Attributes = {"id", "tags"}
  Answers <- MCAnswers
  SecretAtoms = {"S", "s"}
  MaxTemplateDepth = 2
  Projects <- MCProjects
  Library <- MCLibrary
  Once = "once"
  MaxDepth = 2
  Configs <- MCConfigs
  Reserved = {"name"}
  Nobody = Nobody
  Setups <- MCSetups
  Installed = {"aws", "gcp"}
  Unnamed = "-"
  Anywhere = "anywhere"
  PerEnvironment = "per environment"
  OfResource = "of a resource"
INVARIANTS
  DeferralIsFaithful
  SecretsStaySecret
  WaitingIsEnough
  ReadsAreOrdered
  DependsOnHonoured
  MostSpecificWins
  RecordsStayInReach
  AcceptedIsServed
CHECK_DEADLOCK FALSE
