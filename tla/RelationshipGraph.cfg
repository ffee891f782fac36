SPECIFICATION Spec
CONSTANTS
  None = None
  People <- MCPeople
  TextOf <- MCTextOf
  OrgName <- MCOrgName
  Special = {"Inquiry"}
  MonthDays = 2
  YearDays = 4
  Starts <- MCStarts
  InstitutionName <- MCInstitutionName
  OfficialRows <- MCOfficialRows
  ListOrg <- MCListOrg
  Targets <- MCTargets
  AtOnce = 1
INVARIANTS
  TypeOK
  RelationsWereCurrent
  PathIsShortest
  PeriodsAreHonored
CHECK_DEADLOCK FALSE
