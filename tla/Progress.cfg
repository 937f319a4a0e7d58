SPECIFICATION FairSpec
CONSTANTS
  None = None
PROPERTIES
  WindowConverges
  SettingsTakeEffect
  PlaybackGoesOn
  WhatIsPublishedArrives
  LockoutEnds
CHECK_DEADLOCK FALSE
