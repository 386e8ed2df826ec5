SPECIFICATION Spec
CONSTANTS
  chat = chat
  diary = diary
  extra = extra
  first = first
  second = second
  ann = ann
  band = band
  files = files
  plain = plain
  dark = dark
  AppRows = {chat, diary, extra}
  Installations = {first, second}
  Groups = {ann, band}
  Scopes = {files}
  Configs = {plain, dark}
  Requests = {r1, r2, r3}
  Asks <- MCAsks
  Starts <- MCStarts
  Nothing = Nothing
SYMMETRY Symmetry
CHECK_DEADLOCK FALSE
INVARIANTS
  TypeOK
  GrantedWereRequestedOnce
PROPERTIES
  PublishedAsAnswered
  ValidWhenAnswered
  SavedIsAnnounced
