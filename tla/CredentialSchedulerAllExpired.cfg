SPECIFICATION Spec
CONSTANTS
    k1 = k1
    k2 = k2
    r1 = r1
    r2 = r2
    Requests = {r1, r2}
    Credentials = {k1}
    Offered <- OneCredential
    Arrivals <- EachOneImage
    MaxN = 1
CHECK_DEADLOCK FALSE
PROPERTIES
    AllExpiredIsReported
