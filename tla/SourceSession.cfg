SPECIFICATION Spec
CONSTANTS
  Callbacks = {c1}
  MaxLosses = 1
  MaxRefusals = 0
  MaxPolls = 1
  MaxUpsets = 1
  Appliers = {"poll"}
  Kinds = {"banner", "controller", "device"}
INVARIANTS SourceFence BannersCurrent PushEpochPure ControllerAuthority
CHECK_DEADLOCK FALSE
