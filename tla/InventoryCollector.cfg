SPECIFICATION FairSpec
CONSTANTS
  ns = ns
  pod = pod
  Objects = {ns, pod}
  KindOf <- MCKindOf
  NamespaceOf <- MCNamespaceOf
  Containers = {"app"}
  Contents = {1, 2}
  NoUID = NoUID
  MaxChanges = 2
  Capacity = 1

  
PROPERTIES
  NeverOlder
  
CHECK_DEADLOCK FALSE
