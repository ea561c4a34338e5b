CONSTANTS
  early = early
  late = late
  Journeys <- MCJourneys
  ExpiresAt <- MCExpiresAt
  MaxTime = 2
  MaxCrashes = 2
SPECIFICATION ExpirySpec

PROPERTY OverdueJourneysExpire
