SPECIFICATION Spec
CONSTANTS
  Scopes = {default, other}
  Default = default
  Levels = {info, none}
  InfoLevel = info
  NoneLevel = none
  Undefined = Undefined
INVARIANTS
  TypeOK
  Configured
PROPERTIES
  SettersObeyed
