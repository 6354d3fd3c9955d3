\* Close during the wait for the first cache sync makes the build panic.
CONSTANTS
    Roles <- MCRoles
    InputName <- MCInputName
    Prefix <- MCPrefix
    Fields <- MCFields
    ValueName <- MCValueName
    Domain <- MCDomain
    Cluster <- MCCluster
    ServiceOf <- MCServiceOf
    Inputs <- MCInputs
    Calls = {c1, c2}
SPECIFICATION Spec
INVARIANT NoPanic
