\* Generators only over a synced cache, and one controller, under
\* concurrent builds, controller failures and Close.
CONSTANTS
    Roles <- MCRoles
    InputName <- MCInputName
    Prefix <- MCPrefix
    Fields <- MCFields
    ValueName <- MCValueName
    Domain <- MCDomain
    Cluster <- MCCluster
    ServiceOf <- MCServiceOf
    Inputs <- MCInputs
    Calls = {c1, c2, c3}
SPECIFICATION Spec
INVARIANTS
    GeneratorOnlyAfterSync
    OneController
    GeneratedAttributesOfNamedPods
    CanonicalNameDocumented
