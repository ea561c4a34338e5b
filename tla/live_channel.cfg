CONSTANTS
  early = early
  late = late
  Journeys <- MCJourneys
  ExpiresAt <- MCExpiresAt
  MaxTime = 2
  MaxCrashes = 1
  Sockets = {host, member}
  HostSockets = {host}
  JourneyOf <- MCJourneyOf
  Pool = 2
SPECIFICATION ChannelSpec
INVARIANTS ExpiresOnlyOverdue NoGhosts MembersReached LocationsToHostOnly
PROPERTIES OverdueConsentsExpire
