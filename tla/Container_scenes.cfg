SPECIFICATION Spec
CONSTANTS
  p1 = p1
  p2 = p2
  Procs = {p1, p2}
  NoFile = NoFile
  Dirs = {"root", "app"}
  Root = "root"
  Config = "config"
  Above <- ProjectPath
  InitOf <- PackageInit
  MetaOf <- Metadata
  Order <- PathOrder
  Edited <- EditedHere
  MaxEdits = 3
  Compatibility = {"AUTH_MODULE_PATH", "AGENTSEEK_GRAPHS", "PORT"}
  DockerControl = {"DOCKER_HOST"}
  Scenes <- AllScenes
CHECK_DEADLOCK FALSE
INVARIANTS
  TypeOK
  ImageAsPlanned
  SecretsStayOut
  ContainerWorks
  NoStowaway
