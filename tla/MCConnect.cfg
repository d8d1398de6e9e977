CONSTANTS
    a1 = a1  a2 = a2  pw = pw
    Attempts = {a1, a2}
    Endpoints <- MCEndpoints
    EndpointOf <- MCEndpointOf
    Keys = {k1, k2}
    NoKey = NoKey
    Credentials = {pw}
    CredentialOf <- MCCredentialOf
    NoCredential = NoCredential
    Secrets = {s1, s2}
    NoSecret = NoSecret
SPECIFICATION Spec
INVARIANTS SettledReadsBack
PROPERTIES VerdictIsOfSaved
CHECK_DEADLOCK FALSE
