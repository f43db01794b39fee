SPECIFICATION GateSpec
CONSTANTS
  Category = {"accueil", "outils"}
  Text = {"rules", "news", "nike", "tools"}
  Parent <- MCParent
  NoParent = root
  Place <- MCPlace
  Public = {"rules"}
  PreviewCategory = {"accueil"}
  PreviewListed = {}
  PrivateTools = "outils"
  StartOverwrites <- MCStart
  Accepting = {}
  Edited = {}
  MaxMishaps = 0
INVARIANT PreviewIsOpen
CHECK_DEADLOCK FALSE
