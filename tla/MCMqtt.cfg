CONSTANTS
  UInt32 = 536870912
  SizeT = 1073741824
  NULL = NULL
  empty = empty
  name = name
  word = word
  str65535 = str65535
  str65536 = str65536
  sub122 = sub122
  sub123 = sub123
  body127 = body127
  body128 = body128
  body16383 = body16383
  body16384 = body16384
  body2097151 = body2097151
  body2097152 = body2097152
  body268435455 = body268435455
  body268435456 = body268435456
  TextLen <- MCTextLen
  Connects <- MCConnects
  Publications <- MCPublications
  Subscriptions <- MCSubscriptions
  Topics <- MCTopics
  Measurements <- MCMeasurements
  MaxInFlight = 2
SPECIFICATION LinkSpec
INVARIANTS BrokerHears MeasurementArrives ReturnsTheSize
