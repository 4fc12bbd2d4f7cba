SPECIFICATION GatewaySpec
CONSTANTS
  a1 = a1
  a2 = a2
  first = first
  reused = reused
  forged = forged
  garbled = garbled
  ask = ask
  order = order
  malformed = malformed
  invalid = invalid
  live = live
  lost = lost
  nonce = nonce
  other = other
  quotes = quotes
  metrics = metrics
  orders = orders
  health = health
  nowhere = nowhere
  Attempts <- TwoAttempts
  Messages <- AllMessages
  StoreKeys = {nonce, other}
  StoreKeyOf <- StoreKeyPerMessage
  Stamp <- Stamps
  Readable = {first, reused, forged, ask, order, invalid}
  Signed = {first, reused, ask, order, invalid}
  Scoped = {first, ask, order, invalid}
  None = None
  TicksPerSecond = 2
  Skew = 1
  Ttl = 4
  BodyWait = 2
  MaxTime = 13
  MaxRestarts = 1
  Endpoints <- AllEndpoints
  EndpointOf <- EndpointPerMessage
  RouteOf <- RoutePerEndpoint
  Malformed = {malformed}
  Invalid = {invalid}
SYMMETRY Alike
INVARIANTS TypeOK AcceptedOnce ReplayHasCause GatewayTypeOK InFlightIsReal SnapshotsBalance EndpointsAddUp ServedOnce
