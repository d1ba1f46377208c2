SPECIFICATION MCFairSpec
CONSTANTS
    alice = alice
    carol = carol
    dave = dave
    org1 = org1
    org2 = org2
    wallet1 = wallet1
    Account = {alice, carol}
    Person = {dave}
    Org = {org1, org2}
    Wallet = {wallet1}
    MemberOf <- MCMemberOf
    OrgOf <- MCOrgOf
    OwnerOf <- MCOwnerOf
    NoOne = NoOne
    MaxRetries = 1
    MaxStale = 1
    Budgets <- MCBudgets
INVARIANTS WsTypeOK OwnData SentIsOwed MissingAreFetched
PROPERTIES  CacheNotOlder ServerCloseTold
CHECK_DEADLOCK FALSE
