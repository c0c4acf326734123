\* Three profiles, two of them managed, one session, one suspended request, four
\* operator policies, crashes at every step and a failing disk.
SPECIFICATION Spec
CONSTANTS
  p0 = p0
  p1 = p1
  p2 = p2
  cli = cli
  local = local
  low = low
  high = high
  m1 = m1
  m2 = m2
  o1 = o1
  task = task
  Profiles = {p0, p1, p2}
  Providers = {cli, local}
  External = {cli}
  Tasks = {task}
  Efforts = {low, high}
  NoEffort = NoEffort
  Models = {m1, m2}
  Options = {o1}
  Transport <- TransportOf
  Verified <- VerifiedBy
  Refused = Refused
  Asked = {o1, m1}
  Configurations <- Drafts
  Discoveries <- Answers
  Session = {s1}
  Caller = {c1}
  Retention = 1
  None = None
INVARIANT SessionsEnabled
