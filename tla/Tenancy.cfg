SPECIFICATION TenancySpec
CONSTANTS
    Tenants = {1, 2}
    MaxChanges = 3
    MaxJobs = 3
    MaxRetries = 2
INVARIANTS
    ShownProfileReviewed
    JobsInOrder
PROPERTIES
    LockLasts
