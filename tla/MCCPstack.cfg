SPECIFICATION FairSpec
CONSTANTS
  n1 = n1
  n2 = n2
  n3 = n3
  n4 = n4
  k1 = k1
  k2 = k2
  k3 = k3
  b1 = b1
  b2 = b2
  Nodes <- MCNodes
  Keys <- MCKeys
  Buckets <- MCBuckets
  key <- MCkey
  bucketOf <- MCbucketOf
  CHASHSIZE = 3
  UNREACHABLE = 99
  NULL = NULL
INVARIANT IndexOK
PROPERTIES ImplementsStack SearchEnds
