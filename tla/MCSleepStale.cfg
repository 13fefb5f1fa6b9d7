SPECIFICATION SleepSpec
CONSTANTS
  Sleepers = {s1}
  Admins = {a1, a2, a3}
  NoSleeper = NoSleeper
  MaxRestarts = 1
INVARIANTS NoSleeperRoutable
