\* Two users and two requests for the accounts; one owner with two rules, one
\* request and one restart for the sweeper; for admission two requests at a
\* time and three in all, enough for a tunnel to be made, deleted and made
\* again, or to be deleted while a rule is created on it; for certificates one
\* hop (hops share only the calls that push to them) with a channel of two
\* commands, two thirds of a certificate's life and one retry.  Requests end at
\* the bound, and a panel that cannot start stays down.
SPECIFICATION AdministrationSpec
CONSTANTS
  Users = {u1, u2}
  Boot = u1
  Requests = {q1, q2}
  Owners = {x1}
  Rules = {r1, r2}
  Calls = {c1}
  MaxRestarts = 1
  MaxRules = 3
  MaxTunnels = 2
  MaxPort = 2
  Protocols = {"tcp", "udp", "tcp_udp"}
  UserQuota = 2
  TunnelQuota = 1
  Handlers = {h1, h2}
  MaxAsked = 3
  Hops = {n1}
  Cap = 2
  Validity = 3
  RotateAfter = 2
  MaxRetries = 1
CHECK_DEADLOCK FALSE
INVARIANTS TempOnlyChanges   
PROPERTIES LastAdminOnlyByRace StopsWhatMust BrokenOnlyByRace
