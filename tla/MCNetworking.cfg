SPECIFICATION Spec
CONSTANTS
  p1 = p1
  p2 = p2
  p3 = p3
  m1 = m1
  s1 = s1
  m2 = m2
  Profiles = {p1, p2, p3}
  Meetings = {m1, m2}
  Tables = {t1, s1}
  Stands = {s1}
  StandOf <- MCStandOf
  Met <- MCMet
  Discoverable = {p1, p2}
  Configs <- MCConfigs
  Statuses = {"ACTIVE", "SUSPENDED"}
  LastQuantum = 2
  RequestExpiry = 1
  CheckinLead = 0
  CheckinGrace = 0
  None = None
  Requests <- MCRequests
CONSTRAINT OneStory
INVARIANTS ReservationsFollowStatus NoDoubleBooking BookingsStayValid BlockedNeverMeet BothAgreed
CHECK_DEADLOCK FALSE
