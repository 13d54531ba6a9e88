SPECIFICATION FormSpec
CONSTANTS
  NoticeChannel = {h1}
  ConfigValue = {y1}
  Mangled = Mangled
  Blank = Blank
  NoChannel = NoChannel
PROPERTIES
  EditsKeepSecrets
