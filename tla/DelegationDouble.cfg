SPECIFICATION Spec
CONSTANTS
    Tasks = {task1}
    Orgs = {org1, org2, org3}
    NoOrg = NoOrg
    Handlers = {h1, h2}
    task1 = task1
    org1 = org1
    org2 = org2
    org3 = org3
    h1 = h1
    h2 = h2
INVARIANTS
    OneOwner
