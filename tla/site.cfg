SPECIFICATION SiteSpec
CONSTANTS
  u1 = u1
  u2 = u2
  p1 = p1
  p2 = p2
  i1 = i1
  i2 = i2
  i3 = i3
  r1 = r1
  r2 = r2
  r3 = r3
  Null = Null
  Undefined = Undefined
  Users = {u1, u2}
  Properties = {p1, p2}
  Pictures = {i1, i2, i3}
  Requests = {r1, r2, r3}
  PropertyDtos <- MCPropertyDtos
  FirstOwner <- MCFirstOwner
  LeadIds = {l1}
  LeadDtos <- MCLeadDtos
  DefaultOwner = u2
  MaxFiles = 2
  MaxArrivals = 3
INVARIANTS SiteTypeOK PublicationDated RowsHaveFiles MainIsShown  LeadAccountAgrees
SYMMETRY SiteSymmetry
CHECK_DEADLOCK FALSE
