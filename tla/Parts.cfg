CONSTANTS
  Colls = {c1, c2, c3}
  Fields = {f}
  Texts = {t}
  None = None
  MaxRef = 1
  Ids = {0, 1, 2}
  Junk = Junk
  Lists <- MCLists
  Fails = {"insert", "remove"}
  MaxIds = 5
  Nodes = {n1, n2, n3}
  Null = Null
  Names = {l, m}
  Data = {1, 2}
  Ops = {o1, o2, o3}
  Paths = {p, q}
  Nothing = Nothing
  Sets = {1, 2}
  Error = Error
  Nobody = Nobody
  Rounds = 2
  Parts = {"coll", "idlist", "links", "phone", "vis"}
SPECIFICATION PartsSpec
CHECK_DEADLOCK FALSE
INVARIANTS RefCount NoneFreed Reclaimed WellFormed SetUpOnce ConnectedAsAsked DataSetsSafe
PROPERTIES PartsImplement 
