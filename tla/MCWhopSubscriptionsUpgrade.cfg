SPECIFICATION Spec
CONSTANTS
  mx = mx
  my = my
  ann = ann
  Member = {ann}
  Membership = {mx, my}
  NoMember = nobody
  NoMembership = nothing
  Plan = {"starter", "premium"}
  PlanOf <- MCPlanOf
  Buyer <- MCBuyer
  Linked = {mx, my}
  Handler = {t1, t2}
  Budget = 0
PROPERTY UpgradeKept
CHECK_DEADLOCK FALSE
