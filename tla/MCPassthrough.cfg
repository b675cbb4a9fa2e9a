SPECIFICATION DaemonSpec
CONSTANTS
    s1 = s1  s2 = s2  s3 = s3  c1 = c1  l1 = l1  a = a  b = b  Nobody = Nobody
    Supervisors = {s1, s2, s3}  Specs <- MCSpecs
    Clients = {c1, l1}  Listers = {l1}  Wants <- MCWants
    MaxSuffix = 2  Casts <- MCNobody
    sh = sh  git = git  r1 = r1  r2 = r2  Unset = Unset
    Pids = {p1, p2}  First = p1  Names = {sh, git}  Shell = sh  name_rules <- MCRules
    Readers = {r1, r2}  MAX_ANCESTOR_DEPTH = 2
    Processes <- MCProcesses
PROPERTY PassthroughAlwaysHidden
CHECK_DEADLOCK FALSE
