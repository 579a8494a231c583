SPECIFICATION Spec
CONSTANTS
  MaxIno = 3
  Names <- SomeNames
  Clients = {c1, c2}
  Calls = {"File", "Dir", "Symlink", "link", "rename", "exchange", "trash", "set_attr"}
INVARIANTS DirectoryTree LinksConsistent
CHECK_DEADLOCK FALSE
