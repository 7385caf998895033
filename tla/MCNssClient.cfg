SPECIFICATION Spec
CONSTANTS
  Cloudflare = Cloudflare
  NotIp = NotIp
  NoUrl = NoUrl
  Unreadable = Unreadable
  Localhost = Localhost
  NotUtf8 = NotUtf8
  Self = Self
  Own = Own
  a1 = a1
  Apps = {a1}
  Lookups <- MCLookups
  OwnLookup <- MCOwnLookup
  Backlog = {1, 2}
  Ports = {1, 2}
  Files <- MCFiles
  NameLen <- MCNameLen
  FirstRoom = 45
INVARIANTS
  SuccessIsSound
  AsksItselfOnlyIfTold
PROPERTIES
  LookupEnds
