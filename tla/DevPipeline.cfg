\* One project, two test runners; each behaviour meets one group of user
\* actions and accidents.
CONSTANTS
  w1 = w1
  w2 = w2
  Workers = {w1, w2}
  Codes = {1, 2}
  MaxImages = 2
  MaxVersion = 1
  MaxTests = 3
  BundleLimit = 2
  MaxPinned = 1
  Scenarios <- Groups
SPECIFICATION FairSpec
CHECK_DEADLOCK FALSE
INVARIANTS
  TypeOK
  SubmittedImageMatchesCode
  SubmittedImageWasValidated
  ImagesInUseExist
  KeysHaveBundles
  NoMissedEnd
  SuccessIsRecordedFirst
PROPERTIES
  StoredBundlesBounded
  OutcomesAreFinal
  EveryTestIsSettled
  ImplementsTestBoard
