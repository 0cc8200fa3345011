\* Sessions: two machines, one administrator's call at a time, two
\* certificates, one fault.  Diagnosis: two requests with three segments in
\* all, two waiters, one probe at a time.
SPECIFICATION ManagementSpec
CONSTANTS
  Agents = {m1, m2}
  Admins = {adm1}
  MaxCert = 2
  MaxFaults = 1
  Diagnoses = {d1, d2}
  MaxSegments = 2
  MaxTasks = 3
  MaxWaiters = 2
  MaxInFlight = 1
INVARIANT LeakOnlyByClient
PROPERTIES RevocationHolds OfflineIffSilent AgentComesBack AccessEnds OwnResult
