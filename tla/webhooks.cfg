SPECIFICATION InstancesSpec
CONSTANTS
  Bots = {b1, b2}
  OneCorp = {}
  MaxPort = 2
  MaxInstanceMishaps = 0
INVARIANT BehindNginx
CHECK_DEADLOCK FALSE
